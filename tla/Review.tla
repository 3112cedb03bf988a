------------------------------- MODULE Review -------------------------------
(***************************************************************************)
(* Reviews and corrections of extracted proposals, as concurrent requests  *)
(* next to the workers that persist proposals and conflict groups:         *)
(*   apps/api/app/extraction/review.py, corrections.py   the transactions  *)
(*   .../conflicts.py, validation_peers.py, approved.py  what they decide  *)
(*   .../receipts.py                                     repeated requests *)
(*   workers/.../extraction/persist.py, persist_conflicts.py               *)
(*   db/migrations/0011_extraction_review.sql            the group guard   *)
(*                                                                         *)
(* A transaction runs at READ COMMITTED: it sees what others committed, its *)
(* writes appear at its commit, and its row locks last until then.  Rows   *)
(* of proposals and approved records are locked only by holders of their   *)
(* run's lock, so the model has locks for runs, groups and receipt keys.   *)
(*                                                                         *)
(* A payload is what validation tells apart: the fact it is about (the     *)
(* conflict key) and its value (value_fingerprint).                        *)
(***************************************************************************)
EXTENDS Naturals, FiniteSets

CONSTANTS
  Runs, Groups,   \* ids, ordered as their UUIDs are
  Proposals,      \* the proposals the runs' workers will persist
  RunOf,          \* RunOf[p]
  GroupOf,        \* the conflict group p's worker puts it in, or NoGroup
  Rank,           \* the order in which workers write groups (conflict keys)
  Original,       \* Original[p]: its payload
  Payloads,       \* payloads of edits and corrections
  Selections,     \* the sets of proposals clients select
  Actions,        \* the actions clients ask for
  Calls,          \* requests in progress
  Keys,           \* idempotency keys
  MaxTries,       \* transactions per request
  NoGroup, Free, NoCommand

AllActions == {"accept", "edit", "reject", "merge", "correct"}

ASSUME ReviewAssumption ==
  /\ Runs \subseteq Nat /\ Groups \subseteq Nat
  /\ RunOf \in [Proposals -> Runs]
  /\ GroupOf \in [Proposals -> Groups \cup {NoGroup}]
  /\ Rank \in [Groups -> Nat]
  /\ \A p \in Proposals : Original[p] \in [fact : STRING, value : Nat]
  /\ Payloads \subseteq [fact : STRING, value : Nat]
  /\ Selections \subseteq SUBSET Proposals
  /\ Actions \subseteq AllActions
  /\ MaxTries \in Nat \ {0}
  /\ NoGroup \notin Groups
  /\ \A p, q \in Proposals : p # q /\ RunOf[p] = RunOf[q] =>
       \/ Original[p].fact # Original[q].fact
       \/ GroupOf[p] = GroupOf[q] /\ GroupOf[p] # NoGroup
  /\ \A p \in Proposals : GroupOf[p] # NoGroup =>
       \E q \in Proposals \ {p} : /\ RunOf[q] = RunOf[p]
                                 /\ Original[q].fact = Original[p].fact
  /\ Free \notin Calls \cup Runs /\ Calls \cap Runs = {}
  /\ IsFiniteSet(Calls) /\ IsFiniteSet(Proposals)

(* What clients ask for: reviews, and corrections of an approved record.    *)
Readings == UNION {[S -> Nat] : S \in SUBSET Proposals}
Commands ==
  [key : Keys, action : AllActions \ {"correct"}, ids : SUBSET Proposals,
   patch : Proposals \cup {NoCommand} \cup UNION {[S -> Payloads] : S \in SUBSET Proposals},
   seen : Readings,
   decisions : UNION {[G -> [winners : SUBSET Proposals, seen : Readings]] : G \in SUBSET Groups}]
  \cup
  [key : Keys, action : {"correct"}, ids : SUBSET Proposals, patch : Payloads,
   record : Keys, seen : Nat]

ASSUME NoCommandAssumption == NoCommand \notin Commands

VARIABLES
  run,         \* extraction_runs.status
  persist,     \* where each run's worker is in persist_outputs_atomic
  state,       \* extraction_proposals.state
  version,     \* extraction_proposals.version
  members,     \* extraction_conflict_members
  group,       \* extraction_conflicts.status
  resolution,  \* the recorded adjudication of each group
  records,     \* approved records with their current version
  receipts,    \* idempotency_keys: the request a key was used for
  runLock, groupLock, keyLock,
  pc,          \* where each request's transaction is
  cmd,         \* its command
  found,       \* the runs and groups it discovered
  tries        \* transactions it has begun

dataVars == <<run, persist, state, version, members, group, resolution,
              records, receipts>>
lockVars == <<runLock, groupLock, keyLock>>
callVars == <<pc, cmd, found, tries>>
vars == <<dataVars, lockVars, callVars>>

Labels == {"idle", "begin", "runs", "groups", "decide", "answered", "refused"}
Txns == Calls \cup Runs      \* a run stands for its worker's transaction

(* The members of group g that run r's worker drafts.                       *)
DraftMembers(g, r) == {p \in Proposals : GroupOf[p] = g /\ RunOf[p] = r}
DraftGroups(r) == {g \in Groups : DraftMembers(g, r) # {}}

DataTypeOK ==
  /\ run \in [Runs -> {"running", "waiting_review", "succeeded", "failed",
                       "cancelled"}]
  /\ persist \in [Runs -> {"before", "upsert", "member", "after", "failing"}]
  /\ state \in [Proposals -> {"absent", "needs_review", "accepted", "rejected",
                              "superseded"}]
  /\ version \in [Proposals -> Nat]
  /\ members \in [Groups -> SUBSET Proposals]
  /\ group \in [Groups -> {"absent", "open", "resolved"}]
  /\ resolution \in [Groups -> [winners : SUBSET Proposals,
                                approved : SUBSET Proposals]]
  /\ \A x \in records : /\ x.origin \in Proposals /\ x.key \in Keys
                        /\ x.pins \subseteq Runs /\ x.version \in Nat \ {0}
  /\ DOMAIN receipts = Keys

CallTypeOK ==
  /\ runLock \in [Runs -> Txns \cup {Free}]
  /\ groupLock \in [Groups -> Txns \cup {Free}]
  /\ keyLock \in [Keys -> Calls \cup {Free}]
  /\ pc \in [Calls -> Labels]
  /\ found \in [Calls -> [runs : SUBSET Runs, groups : SUBSET Groups]]
  /\ tries \in [Calls -> 0 .. MaxTries]
  /\ DOMAIN cmd = Calls
  /\ \A c \in Calls : pc[c] # "idle" =>
       /\ cmd[c] # NoCommand /\ cmd[c].key \in Keys /\ cmd[c].action \in AllActions
       /\ cmd[c].ids \subseteq Proposals

ReviewTypeOK == DataTypeOK /\ CallTypeOK

Nothing == [runs |-> {}, groups |-> {}]

ReviewInit ==
  /\ run = [r \in Runs |-> "running"]
  /\ persist = [r \in Runs |-> "before"]
  /\ state = [p \in Proposals |-> "absent"]
  /\ version = [p \in Proposals |-> 1]
  /\ members = [g \in Groups |-> {}]
  /\ group = [g \in Groups |-> "absent"]
  /\ resolution = [g \in Groups |-> [winners |-> {}, approved |-> {}]]
  /\ records = {}
  /\ receipts = [k \in Keys |-> NoCommand]
  /\ runLock = [r \in Runs |-> Free]
  /\ groupLock = [g \in Groups |-> Free]
  /\ keyLock = [k \in Keys |-> Free]
  /\ pc = [c \in Calls |-> "idle"]
  /\ cmd = [c \in Calls |-> NoCommand]
  /\ found = [c \in Calls |-> Nothing]
  /\ tries = [c \in Calls |-> 0]

-----------------------------------------------------------------------------
(* Locks.                                                                   *)

RunsHeld(t)   == {r \in Runs : runLock[r] = t}
GroupsHeld(t) == {g \in Groups : groupLock[g] = t}
Least(S) == CHOOSE n \in S : \A m \in S : n <= m
FirstByRank(S) == CHOOSE g \in S : \A h \in S : Rank[g] <= Rank[h]

(* The end of a transaction: COMMIT or ROLLBACK gives every lock back.      *)
ReleaseLocks(t) ==
  /\ runLock' = [r \in Runs |-> IF runLock[r] = t THEN Free ELSE runLock[r]]
  /\ groupLock' = [g \in Groups |->
                     IF groupLock[g] = t THEN Free ELSE groupLock[g]]
  /\ keyLock' = [k \in Keys |-> IF keyLock[k] = t THEN Free ELSE keyLock[k]]

(* Mutant: the selected proposals' runs first, what they depend on later.   *)
NextRun(c)   == Least(found[c].runs \ RunsHeld(c))
NextGroup(c) == Least(found[c].groups \ GroupsHeld(c))
NextDraft(r) == FirstByRank(DraftGroups(r) \ GroupsHeld(r))

(* Transaction t waits for transaction u.  A worker's INSERT of a group     *)
(* waits only for another worker's uncommitted INSERT of the same group;    *)
(* the guard on a new member waits for whoever has locked the group.        *)
WaitsFor(t, u) ==
  /\ u # Free /\ u # t
  /\ \/ t \in Calls /\ pc[t] = "begin" /\ keyLock[cmd[t].key] = u
     \/ /\ t \in Calls /\ pc[t] = "runs" /\ found[t].runs # RunsHeld(t)
        /\ runLock[NextRun(t)] = u
     \/ /\ t \in Calls /\ pc[t] = "groups" /\ found[t].groups # GroupsHeld(t)
        /\ groupLock[NextGroup(t)] = u
     \/ /\ t \in Runs /\ persist[t] \in {"upsert", "member"}
        /\ DraftGroups(t) # GroupsHeld(t)
        /\ persist[t] = "member" \/ group[NextDraft(t)] = "absent"
        /\ groupLock[NextDraft(t)] = u

(* Everyone in S waits for someone in S.                                    *)
WaitCycle(S) == S # {} /\ \A t \in S : \E u \in S : WaitsFor(t, u)
Waiting == {t \in Txns : \E u \in Txns : WaitsFor(t, u)}

-----------------------------------------------------------------------------
(* The worker's persist stage: one transaction for all proposals of a run,  *)
(* their groups and the memberships, then the run opens for review.         *)

(* Mutant: the proposals are committed on their own, before the groups.     *)
PersistBeginTorn(r) ==
  /\ run[r] = "running" /\ persist[r] = "before" /\ runLock[r] = Free
  /\ runLock' = [runLock EXCEPT ![r] = r]
  /\ persist' = [persist EXCEPT ![r] = "upsert"]
  /\ state' = [p \in Proposals |->
                 IF RunOf[p] = r THEN "needs_review" ELSE state[p]]
  /\ UNCHANGED <<run, version, members, group, resolution, records, receipts,
                 groupLock, keyLock, callVars>>

PersistBegin(r) ==
  /\ run[r] = "running" /\ persist[r] = "before" /\ runLock[r] = Free
  /\ runLock' = [runLock EXCEPT ![r] = r]
  /\ persist' = [persist EXCEPT ![r] = "upsert"]
  /\ UNCHANGED <<run, state, version, members, group, resolution, records,
                 receipts, groupLock, keyLock, callVars>>

(* Any exception rolls the stage back; the workflow then ends the run.      *)
PersistFails(r) ==
  /\ persist' = [persist EXCEPT ![r] = "failing"]
  /\ ReleaseLocks(r)

FailRun(r) ==
  /\ persist[r] = "failing" /\ run[r] = "running" /\ runLock[r] = Free
  /\ run' = [run EXCEPT ![r] = "failed"]
  /\ UNCHANGED <<persist, state, version, members, group, resolution, records,
                 receipts, lockVars, callVars>>

(* INSERT ... ON CONFLICT DO NOTHING, then the row's status: a new row is   *)
(* the worker's own, an existing one is not locked yet.                     *)
PersistUpsert(r) ==
  /\ persist[r] = "upsert" /\ DraftGroups(r) # GroupsHeld(r)
  /\ LET g == NextDraft(r) IN
       \/ /\ group[g] = "absent" /\ groupLock[g] = Free
          /\ groupLock' = [groupLock EXCEPT ![g] = r]
          /\ UNCHANGED <<persist, runLock, keyLock>>
       \/ /\ group[g] = "open"
          /\ persist' = [persist EXCEPT ![r] = "member"]
          /\ UNCHANGED lockVars
       \/ /\ group[g] = "resolved"         \* conflict_terminal
          /\ PersistFails(r)
  /\ UNCHANGED <<run, state, version, members, group, resolution, records,
                 receipts, callVars>>

(* Mutant: the guard locks the group and trusts the status read before.     *)
PersistMemberUnguarded(r) ==
  /\ persist[r] = "member" /\ groupLock[NextDraft(r)] = Free
  /\ groupLock' = [groupLock EXCEPT ![NextDraft(r)] = r]
  /\ persist' = [persist EXCEPT ![r] = "upsert"]
  /\ UNCHANGED <<run, state, version, members, group, resolution, records,
                 receipts, runLock, keyLock, callVars>>

(* The guard of a new member locks the group and looks at its status again. *)
PersistMember(r) ==
  /\ persist[r] = "member"
  /\ LET g == NextDraft(r) IN
       /\ groupLock[g] = Free
       /\ \/ /\ group[g] = "open"
             /\ groupLock' = [groupLock EXCEPT ![g] = r]
             /\ persist' = [persist EXCEPT ![r] = "upsert"]
             /\ UNCHANGED <<runLock, keyLock>>
          \/ /\ group[g] # "open"
             /\ PersistFails(r)
  /\ UNCHANGED <<run, state, version, members, group, resolution, records,
                 receipts, callVars>>

PersistCommit(r) ==
  /\ persist[r] = "upsert" /\ DraftGroups(r) = GroupsHeld(r)
  /\ persist' = [persist EXCEPT ![r] = "after"]
  /\ state' = [p \in Proposals |->
                 IF RunOf[p] = r THEN "needs_review" ELSE state[p]]
  /\ members' = [g \in Groups |-> members[g] \cup DraftMembers(g, r)]
  /\ group' = [g \in Groups |-> IF g \in DraftGroups(r) THEN "open" ELSE group[g]]
  /\ ReleaseLocks(r)
  /\ UNCHANGED <<run, version, resolution, records, receipts, callVars>>

(* A run without proposals abstains: there is nothing to review.            *)
OpenReview(r) ==
  /\ run[r] = "running" /\ persist[r] = "after" /\ runLock[r] = Free
  /\ run' = [run EXCEPT ![r] = IF \E p \in Proposals : RunOf[p] = r
                               THEN "waiting_review" ELSE "succeeded"]
  /\ UNCHANGED <<persist, state, version, members, group, resolution, records,
                 receipts, lockVars, callVars>>

(* A run that waits for review is cancelled at once, under its lock.        *)
CancelWaiting(r) ==
  /\ run[r] = "waiting_review" /\ runLock[r] = Free
  /\ run' = [run EXCEPT ![r] = "cancelled"]
  /\ UNCHANGED <<persist, state, version, members, group, resolution, records,
                 receipts, lockVars, callVars>>

-----------------------------------------------------------------------------
(* A request names what its client last read: versions, open groups with    *)
(* their members, and the winners it chose among the selected.              *)

Touching(ids) == {g \in Groups : members[g] \cap ids # {}}
OpenTouching(ids) == {g \in Touching(ids) : group[g] = "open"}
VersionsOf(S) == [p \in S |-> version[p]]

Patches(action, ids) ==
  CASE action = "edit"  -> [ids -> Payloads]
    [] action = "merge" -> ids
    [] OTHER            -> {NoCommand}

(* As the web client builds them: per group, the chosen winners in it.      *)
Decisions(ids) ==
  {[g \in OpenTouching(ids) |-> [winners |-> w \cap members[g],
                                 seen |-> VersionsOf(members[g])]]
     : w \in SUBSET ids}

(* A key belongs to one endpoint, that is to one action.                    *)
KeyFits(k, action) ==
  /\ receipts[k] # NoCommand => receipts[k].action = action
  /\ \A d \in Calls : pc[d] # "idle" /\ cmd[d].key = k => cmd[d].action = action

Issue(c, command) ==
  /\ pc[c] = "idle"
  /\ cmd' = [cmd EXCEPT ![c] = command]
  /\ pc' = [pc EXCEPT ![c] = "begin"]
  /\ UNCHANGED <<dataVars, lockVars, found, tries>>

SendReview(c) ==
  \E k \in Keys, a \in Actions \ {"correct"}, ids \in Selections :
    /\ KeyFits(k, a)
    /\ \A p \in ids : state[p] # "absent"
    /\ a = "merge" => Cardinality(ids) > 1
    /\ \E patch \in Patches(a, ids), d \in Decisions(ids) :
         Issue(c, [key |-> k, action |-> a, ids |-> ids, patch |-> patch,
                   seen |-> VersionsOf(ids), decisions |-> d])

SendCorrection(c) ==
  /\ "correct" \in Actions
  /\ \E k \in Keys, x \in records, payload \in Payloads :
       /\ KeyFits(k, "correct")
       /\ Issue(c, [key |-> k, action |-> "correct", ids |-> {x.origin},
                    patch |-> payload, record |-> x.key, seen |-> x.version])

(* A client that got no answer sends the same request with the same key.    *)
Resend(c) == \E d \in Calls : pc[d] # "idle" /\ Issue(c, cmd[d])

-----------------------------------------------------------------------------
(* Finding and locking what a request depends on.                           *)

(* The runs that approved records tie together: a merged record pins the    *)
(* runs of all its inputs, and reviewing in one of them needs the others.   *)
Ties(x) == x.pins \cup {RunOf[x.origin]}
ClosedUnderTies(S) == \A x \in records : Ties(x) \cap S # {} => Ties(x) \subseteq S
ExpandRuns(S) ==
  CHOOSE T \in SUBSET Runs :
    /\ S \subseteq T /\ ClosedUnderTies(T)
    /\ \A U \in SUBSET Runs : S \subseteq U /\ ClosedUnderTies(U) => T \subseteq U

Discover(ids) ==
  LET related == ids \cup UNION {members[g] : g \in Touching(ids)}
  IN  [runs |-> ExpandRuns({RunOf[p] : p \in related}), groups |-> Touching(ids)]

TheRecord(c) ==
  CHOOSE x \in records : x.key = cmd[c].record /\ x.origin \in cmd[c].ids

Needs(c) ==
  LET d == Discover(cmd[c].ids) IN
  IF cmd[c].action = "correct"
  THEN [d EXCEPT !.runs = @ \cup TheRecord(c).pins]
  ELSE d

End(c, label) ==
  /\ pc' = [pc EXCEPT ![c] = label]
  /\ found' = [found EXCEPT ![c] = Nothing]
  /\ ReleaseLocks(c)
  /\ UNCHANGED <<cmd, tries>>

(* Mutant: the receipt is looked up without its lock.                       *)
BeginUnlocked(c) ==
  LET k == cmd[c].key IN
  /\ pc[c] = "begin"
  /\ \/ receipts[k] = cmd[c] /\ End(c, "answered")
     \/ receipts[k] \notin {NoCommand, cmd[c]} /\ End(c, "refused")
     \/ /\ receipts[k] = NoCommand
        /\ found' = [found EXCEPT ![c] = Needs(c)]
        /\ pc' = [pc EXCEPT ![c] = "runs"]
        /\ UNCHANGED <<cmd, tries, lockVars>>
  /\ UNCHANGED dataVars

(* The transaction's receipt lock, a replay or a refusal if the key was     *)
(* used, and the discovery.  Nothing is held while waiting for the lock and *)
(* discovery only reads, so nothing tells the three statements from one.    *)
Begin(c) ==
  LET k == cmd[c].key IN
  /\ pc[c] = "begin" /\ keyLock[k] = Free
  /\ \/ receipts[k] = cmd[c] /\ End(c, "answered")
     \/ receipts[k] \notin {NoCommand, cmd[c]} /\ End(c, "refused")
     \/ /\ receipts[k] = NoCommand
        /\ keyLock' = [keyLock EXCEPT ![k] = c]
        /\ found' = [found EXCEPT ![c] = Needs(c)]
        /\ pc' = [pc EXCEPT ![c] = "runs"]
        /\ UNCHANGED <<cmd, tries, runLock, groupLock>>
  /\ UNCHANGED dataVars

LockRun(c) ==
  /\ pc[c] = "runs" /\ found[c].runs # RunsHeld(c)
  /\ runLock[NextRun(c)] = Free
  /\ runLock' = [runLock EXCEPT ![NextRun(c)] = c]
  /\ UNCHANGED <<dataVars, groupLock, keyLock, callVars>>

(* Mutant: begin again in the same transaction.                             *)
RestartHoldingLocks(c) ==
  IF tries[c] + 1 < MaxTries
  THEN /\ pc' = [pc EXCEPT ![c] = "begin"]
       /\ tries' = [tries EXCEPT ![c] = @ + 1]
       /\ UNCHANGED <<lockVars, found, cmd>>
  ELSE End(c, "refused")

(* DiscoveryChanged or a deadlock: roll back, and begin again if the        *)
(* request has transactions left.                                           *)
Restart(c) ==
  IF tries[c] + 1 < MaxTries
  THEN /\ pc' = [pc EXCEPT ![c] = "begin"]
       /\ tries' = [tries EXCEPT ![c] = @ + 1]
       /\ found' = [found EXCEPT ![c] = Nothing]
       /\ ReleaseLocks(c)
       /\ UNCHANGED cmd
  ELSE End(c, "refused")

Proceed(c, label) ==
  /\ pc' = [pc EXCEPT ![c] = label]
  /\ UNCHANGED <<lockVars, cmd, found, tries>>

Recheck(c) ==
  /\ pc[c] = "runs" /\ found[c].runs = RunsHeld(c)
  /\ IF Needs(c) = found[c] THEN Proceed(c, "groups") ELSE Restart(c)
  /\ UNCHANGED dataVars

LockGroup(c) ==
  /\ pc[c] = "groups" /\ found[c].groups # GroupsHeld(c)
  /\ groupLock[NextGroup(c)] = Free
  /\ groupLock' = [groupLock EXCEPT ![NextGroup(c)] = c]
  /\ UNCHANGED <<dataVars, runLock, keyLock, callVars>>

(* Mutant: the discovery under the run locks is the last one.               *)
ConfirmNothing(c) ==
  /\ pc[c] = "groups" /\ found[c].groups = GroupsHeld(c)
  /\ Proceed(c, "decide")
  /\ UNCHANGED dataVars

(* Reviews discover a third time under the group locks; corrections do not. *)
Confirm(c) ==
  /\ pc[c] = "groups" /\ found[c].groups = GroupsHeld(c)
  /\ IF cmd[c].action = "correct" \/ Needs(c) = found[c]
     THEN Proceed(c, "decide") ELSE Restart(c)
  /\ UNCHANGED dataVars

(* The database breaks a deadlock by failing one of the waiting statements. *)
DeadlockDetected(t) ==
  /\ \E S \in SUBSET Waiting : t \in S /\ WaitCycle(S)
  /\ \/ t \in Calls /\ Restart(t) /\ UNCHANGED persist
     \/ t \in Runs /\ PersistFails(t) /\ UNCHANGED callVars
  /\ UNCHANGED <<run, state, version, members, group, resolution, records,
                 receipts>>

-----------------------------------------------------------------------------
(* What a review may do, under its locks.                                   *)

Ids(c) == cmd[c].ids
Action(c) == cmd[c].action
Winners(c, g) == cmd[c].decisions[g].winners

(* Mutant: the preconditions are not looked at again under the locks.       *)
SelectionUnchecked(c) == Ids(c) # {}

SelectionCurrent(c) ==
  /\ cmd[c].seen = VersionsOf(Ids(c))
  /\ \A p \in Ids(c) : state[p] = "needs_review" /\ run[RunOf[p]] = "waiting_review"

DecisionsFor(c) ==
  /\ DOMAIN cmd[c].decisions = {g \in found[c].groups : group[g] = "open"}
  /\ \A g \in DOMAIN cmd[c].decisions :
       /\ cmd[c].decisions[g].seen = VersionsOf(members[g])
       /\ Winners(c, g) \subseteq Ids(c) \cap members[g]
       /\ Action(c) \in {"accept", "edit"} => Winners(c, g) = Ids(c) \cap members[g]
       /\ Winners(c, g) = {} =>
            \A p \in members[g] :
              \/ state[p] \in {"rejected", "superseded"}
              \/ p \in Ids(c) /\ Action(c) \in {"reject", "merge"}

(* The rows a request is validated with: what is not rejected or superseded *)
(* in the locked runs, approved content in place of what was proposed.      *)
HasHead(p) == \E x \in records : x.origin = p
Head(p) == CHOOSE x \in records : x.origin = p
CurrentRows(c) ==
  [p \in {q \in Proposals : /\ RunOf[q] \in found[c].runs
                            /\ \/ state[q] \in {"needs_review", "accepted"}
                               \/ HasHead(q)}
     |-> IF Action(c) = "edit" /\ p \in Ids(c) THEN cmd[c].patch[p]
         ELSE IF Action(c) = "correct" /\ p \in Ids(c) THEN cmd[c].patch
         ELSE IF HasHead(p) THEN Head(p).payload ELSE Original[p]]

SameFact(rows, p) == {q \in DOMAIN rows : rows[q].fact = rows[p].fact}
RecordedWinners(g) == {p \in resolution[g].approved \cap members[g] : HasHead(p)}
Adjudicated(c) == {g \in found[c].groups : group[g] = "resolved"}

(* Mutant: an edit passes without its value being compared.                 *)
AgreesUnlessEdited(c, rows) ==
  \A g \in Adjudicated(c) :
    /\ RecordedWinners(g) # {}
    /\ \A p \in Ids(c) \cap members[g], w \in RecordedWinners(g) :
         w \in SameFact(rows, p) => Action(c) = "edit"

(* Nothing selected contradicts the winner of an adjudicated group; an edit *)
(* may repeat the winner's value.                                           *)
AgreesWithWinners(c, rows) ==
  \A g \in Adjudicated(c) :
    /\ RecordedWinners(g) # {}
    /\ \A p \in Ids(c) \cap members[g], w \in RecordedWinners(g) :
         w \in SameFact(rows, p) => Action(c) = "edit" /\ rows[p] = rows[w]

RepeatsWinner(c, rows) ==
  {p \in Ids(c) : \E g \in Adjudicated(c) :
                    p \in members[g] /\ RecordedWinners(g) \cap SameFact(rows, p) # {}}

(* Each group that covers the comparable rows S has decided between them.   *)
Covering(c, S) == {g \in found[c].groups : S \subseteq members[g]}
Settled(c, rows, S) ==
  /\ Covering(c, S) # {}
  /\ \A g \in Covering(c, S) :
       IF group[g] = "open"
       THEN Action(c) = "merge" \/ Cardinality(S \cap Winners(c, g)) <= 1
       ELSE S \cap Ids(c) \subseteq RepeatsWinner(c, rows)

Waived(c, rows) ==
  RepeatsWinner(c, rows) \cup
  {p \in Ids(c) : LET S == SameFact(rows, p) IN
     \E g \in Covering(c, S) :
       /\ group[g] = "open"
       /\ Action(c) = "merge" \/ S \cap Ids(c) \subseteq Winners(c, g)}

CheckEvaluated(c, rows) ==
  /\ AgreesWithWinners(c, rows)
  /\ \A p \in Ids(c) : LET S == SameFact(rows, p) IN
       /\ Cardinality(S) > 1 => Settled(c, rows, S)
       /\ (\E q \in S \ {p} : rows[q] = rows[p]) => p \in Waived(c, rows)
  /\ Action(c) = "merge" =>
       \A p \in Ids(c) : p \in SameFact(rows, cmd[c].patch)

MayReview(c) ==
  /\ Action(c) # "correct"
  /\ SelectionCurrent(c) /\ DecisionsFor(c)
  /\ Action(c) # "reject" => CheckEvaluated(c, CurrentRows(c))

MayCorrect(c) ==
  /\ Action(c) = "correct"
  /\ TheRecord(c).version = cmd[c].seen
  /\ \A p \in Ids(c) : SameFact(CurrentRows(c), p) = {p}

-----------------------------------------------------------------------------
(* The writes, all in the transaction that checked.                         *)

NextState(action) ==
  CASE action \in {"accept", "edit"} -> "accepted"
    [] action = "reject" -> "rejected"
    [] action = "merge" -> "superseded"

ApprovedBy(c) ==
  CASE Action(c) \in {"accept", "edit"} -> Ids(c)
    [] Action(c) = "merge" -> {cmd[c].patch}
    [] OTHER -> {}

NewRecords(c) ==
  {[origin |-> p, key |-> cmd[c].key, payload |-> CurrentRows(c)[p],
    pins |-> IF Action(c) = "merge" THEN {RunOf[q] : q \in Ids(c)} ELSE {RunOf[p]},
    version |-> 1] : p \in ApprovedBy(c)}

Resolve(c, g) ==
  [winners |-> Winners(c, g),
   approved |-> IF Action(c) = "merge" THEN ApprovedBy(c)
                ELSE ApprovedBy(c) \cap Winners(c, g)]

(* Mutant: finish_review runs before the proposals are updated.             *)
FinishedBefore(r) ==
  /\ \A p \in Proposals : RunOf[p] = r => state[p] # "needs_review"
  /\ \A g \in Groups :
       (\E p \in members[g] : RunOf[p] = r) => group'[g] # "open"

(* finish_review: nothing of run r is left to decide after this review.     *)
Finished(r) ==
  /\ \A p \in Proposals : RunOf[p] = r => state'[p] # "needs_review"
  /\ \A g \in Groups :
       (\E p \in members[g] : RunOf[p] = r) => group'[g] # "open"

CommitReview(c) ==
  /\ pc[c] = "decide" /\ MayReview(c)
  /\ state' = [p \in Proposals |->
                 IF p \in Ids(c) THEN NextState(Action(c)) ELSE state[p]]
  /\ version' = [p \in Proposals |->
                   IF p \in Ids(c) THEN version[p] + 1 ELSE version[p]]
  /\ records' = records \cup NewRecords(c)
  /\ group' = [g \in Groups |->
                 IF g \in DOMAIN cmd[c].decisions THEN "resolved" ELSE group[g]]
  /\ resolution' = [g \in Groups |-> IF g \in DOMAIN cmd[c].decisions
                                     THEN Resolve(c, g) ELSE resolution[g]]
  /\ run' = [r \in Runs |->
               IF r \in {RunOf[p] : p \in Ids(c)} /\ Finished(r)
               THEN "succeeded" ELSE run[r]]
  /\ receipts' = [receipts EXCEPT ![cmd[c].key] = cmd[c]]
  /\ End(c, "answered")
  /\ UNCHANGED <<persist, members>>

Corrected(x, payload) ==
  [origin |-> x.origin, key |-> x.key, payload |-> payload, pins |-> x.pins,
   version |-> x.version + 1]

CommitCorrection(c) ==
  /\ pc[c] = "decide" /\ MayCorrect(c)
  /\ records' = (records \ {TheRecord(c)}) \cup {Corrected(TheRecord(c), cmd[c].patch)}
  /\ receipts' = [receipts EXCEPT ![cmd[c].key] = cmd[c]]
  /\ End(c, "answered")
  /\ UNCHANGED <<run, persist, state, version, members, group, resolution>>

(* A check above fails, or the content does not pass revalidation.          *)
Refuse(c) ==
  /\ pc[c] = "decide"
  /\ End(c, "refused")
  /\ UNCHANGED dataVars

-----------------------------------------------------------------------------
ReviewNext ==
  \/ \E r \in Runs : \/ PersistBegin(r) \/ PersistUpsert(r) \/ PersistMember(r)
                     \/ PersistCommit(r) \/ FailRun(r) \/ OpenReview(r)
                     \/ CancelWaiting(r)
  \/ \E c \in Calls : \/ SendReview(c) \/ SendCorrection(c) \/ Resend(c)
                      \/ Begin(c) \/ LockRun(c) \/ Recheck(c) \/ LockGroup(c)
                      \/ Confirm(c) \/ CommitReview(c) \/ CommitCorrection(c)
                      \/ Refuse(c)
  \/ \E t \in Txns : DeadlockDetected(t)

ReviewSpec == ReviewInit /\ [][ReviewNext]_vars

(* Fairness: the server does not stop while a request or a worker that is   *)
(* under way can take a step or the database can break a deadlock.  Which   *)
(* of them goes first is left open, and clients need not send anything.     *)
ServerStep ==
  \/ \E c \in Calls : \/ Begin(c) \/ LockRun(c) \/ Recheck(c) \/ LockGroup(c)
                      \/ Confirm(c) \/ CommitReview(c) \/ CommitCorrection(c)
                      \/ Refuse(c)
  \/ \E r \in Runs : PersistUpsert(r) \/ PersistMember(r) \/ PersistCommit(r)
  \/ \E t \in Txns : DeadlockDetected(t)
FairReviewSpec == ReviewSpec /\ WF_vars(ServerStep)

-----------------------------------------------------------------------------
(* Properties.                                                              *)

(* A proposal becomes at most one approved record, however often and under  *)
(* however many keys it is accepted, edited or merged, and only a proposal  *)
(* that left review has one.                                                *)
OneRecordPerProposal ==
  /\ \A x, y \in records : x.origin = y.origin => x = y
  /\ \A x \in records : state[x.origin] \in {"accepted", "superseded"}

(* When a request decides, it holds the lock of every run and group that it *)
(* depends on by now, though it looked them up before it locked them and a  *)
(* worker or another review may have added some in between.  Corrections    *)
(* rely on it without looking a third time.                                 *)
LocksCover ==
  \A c \in Calls : pc[c] = "decide" =>
    /\ Needs(c) = found[c]
    /\ found[c].runs \subseteq RunsHeld(c)
    /\ found[c].groups \subseteq GroupsHeld(c)

(* Two approved records on the same fact never contradict each other when   *)
(* they come from runs that were compared: a run in common, or one group.   *)
Compared(x, y) ==
  \/ x.pins \cap y.pins # {}
  \/ \E g \in Groups : {x.origin, y.origin} \subseteq members[g]
ApprovalsAgree ==
  \A x, y \in records :
    Compared(x, y) /\ x.payload.fact = y.payload.fact =>
      x.payload.value = y.payload.value

(* A run that waits for review has something left to review, and one that   *)
(* succeeded has nothing left: no undecided proposal and no open conflict.  *)
SucceededIffReviewed ==
  \A r \in Runs :
    LET undecided == {p \in Proposals : RunOf[p] = r /\ state[p] = "needs_review"} IN
    /\ run[r] = "waiting_review" => undecided # {}
    /\ run[r] = "succeeded" =>
         /\ undecided = {}
         /\ \A g \in Groups : group[g] = "open" =>
              \A p \in members[g] : RunOf[p] # r

(* The proposals a worker found contradictory are never visible without     *)
(* their conflict group, whatever happens to the worker half way.           *)
ContradictionsGrouped ==
  \A p \in Proposals : state[p] # "absent" /\ GroupOf[p] # NoGroup =>
    p \in members[GroupOf[p]] /\ group[GroupOf[p]] # "absent"

(* An answer always comes from the commit of that very request, and a       *)
(* request that took effect is never refused, repeated or overtaken by its  *)
(* own retry as it may be.                                                  *)
ReplayExact ==
  [][\A c \in Calls :
       /\ pc[c] # "answered" /\ pc'[c] = "answered" =>
            receipts'[cmd[c].key] = cmd[c]
       /\ pc[c] # "refused" /\ pc'[c] = "refused" =>
            receipts[cmd[c].key] # cmd[c]]_vars

(* A resolved conflict keeps its members and its resolution: no worker adds *)
(* an unreviewed member and no later review decides again.                  *)
AdjudicationFinal ==
  [][\A g \in Groups : group[g] = "resolved" =>
       /\ group'[g] = "resolved" /\ members'[g] = members[g]
       /\ resolution'[g] = resolution[g]]_vars

(* Requests never wait for each other in a circle: all take receipt, runs   *)
(* in order, then groups in order.  (A worker writing groups that older     *)
(* runs share can close a circle with a review; the database breaks it.)    *)
RequestsNeverDeadlock == ~ \E S \in SUBSET (Waiting \cap Calls) : WaitCycle(S)

(* Locks are enough and not too many: requests decide under every lock they *)
(* depend on by now, and never wait for each other in a circle.             *)
LockingIsSound == LocksCover /\ RequestsNeverDeadlock

(* Every request that began is answered or refused.                         *)
EveryRequestAnswered ==
  \A c \in Calls : pc[c] = "begin" ~> pc[c] \in {"answered", "refused"}
=============================================================================
