----------------------------- MODULE Migrations -----------------------------
(* The checksummed migration ledger and its applier (scripts/db/migrate.py). *)
(*                                                                           *)
(* Several deploys may run the applier at once, each on its own checkout. It *)
(* reads the files before it connects, takes a session advisory lock, plans  *)
(* against the ledger, and applies what is pending, one transaction for each *)
(* file and its ledger row. A checkout is a sequence: the text of version i  *)
(* is its i-th element.                                                      *)
EXTENDS Integers, Sequences, FiniteSets

CONSTANTS
    Appliers,       \* runs of migrate.py
    Checkouts,      \* the sequences of texts a run may find
    Failing,        \* texts whose SQL fails
    Texts,          \* texts a file may be given while a run is under way
    MaxEdits,       \* bound: such edits
    NoApplier

ASSUME MigrationAssumption ==
    /\ MaxEdits \in Nat /\ NoApplier \notin Appliers
    /\ \A c \in Checkouts : c \in Seq({c[i] : i \in DOMAIN c})

VARIABLES
    tree,         \* each run's checkout
    applier,      \* each run: its mode, the checksums it read, its plan, its exit
    table,        \* whether schema_migrations is there
    ledgerRows,   \* schema_migrations: the set of [version, checksum]
    schema,       \* what was executed and committed, in order
    migrationLock,\* the advisory lock's owner
    edits         \* number of edits so far

migrationVars == <<tree, applier, table, ledgerRows, schema, migrationLock, edits>>

RunModes == {"apply", "check", "dry_run", "baseline"}

NewRun == [pc |-> "start", mode |-> "apply", found |-> <<>>, pending |-> {}, stale |-> {},
           saw |-> FALSE, exit |-> -1]

MigrationInit ==
    /\ tree \in [Appliers -> Checkouts]
    /\ applier = [a \in Appliers |-> NewRun]
    /\ table = FALSE /\ ledgerRows = {} /\ schema = <<>>
    /\ migrationLock = NoApplier /\ edits = 0

\* discover_migrations: the files and their checksums, before anything else.
DiscoverMigrations(a) ==
    /\ applier[a].pc = "start"
    /\ \E m \in RunModes :
         applier' = [applier EXCEPT ![a].pc = "ensuring", ![a].mode = m,
                                    ![a].found = tree[a], ![a].saw = table]
    /\ UNCHANGED <<tree, table, ledgerRows, schema, migrationLock, edits>>

\* A file is rewritten while a run that has read it is under way.
EditFile ==
    /\ edits < MaxEdits /\ edits' = edits + 1
    /\ \E a \in Appliers : \E i \in DOMAIN applier[a].found : \E t \in Texts :
         /\ applier[a].pc \in {"ensuring", "waiting", "applying"}
         /\ tree' = [tree EXCEPT ![a][i] = t]
         /\ applier' = [applier EXCEPT ![a].stale = @ \cup {i}]
    /\ UNCHANGED <<table, ledgerRows, schema, migrationLock>>

Exited(a, code) == [applier EXCEPT ![a].pc = "exited", ![a].exit = code]

\* ensure_ledger, outside the lock: of two that create the table one may fail.
EnsureLedger(a) ==
    /\ applier[a].pc = "ensuring" /\ table' = TRUE
    /\ \/ applier' = [applier EXCEPT ![a].pc = "waiting"]
       \/ table /\ ~applier[a].saw /\ applier' = Exited(a, 1)
    /\ UNCHANGED <<tree, ledgerRows, schema, migrationLock, edits>>

\* Nobody waits.
NoAdvisoryLockMutant(a) ==
    /\ applier[a].pc = "waiting"
    /\ migrationLock' = a /\ applier' = [applier EXCEPT ![a].pc = "planning"]
    /\ UNCHANGED <<tree, table, ledgerRows, schema, edits>>

AcquireLock(a) ==
    /\ applier[a].pc = "waiting" /\ migrationLock = NoApplier
    /\ migrationLock' = a /\ applier' = [applier EXCEPT ![a].pc = "planning"]
    /\ UNCHANGED <<tree, table, ledgerRows, schema, edits>>

LedgerRow(a, i) == [version |-> i, checksum |-> applier[a].found[i]]

\* build_plan.
PendingOf(a) == {i \in DOMAIN applier[a].found : \A r \in ledgerRows : r.version # i}
DriftedIn(a) == {i \in (DOMAIN applier[a].found) \ PendingOf(a) :
                   LedgerRow(a, i) \notin ledgerRows}

\* main, up to the first migration it applies.
PlanRun(a) ==
    /\ applier[a].pc = "planning"
    /\ LET mode == applier[a].mode
           over == DriftedIn(a) # {} \/ mode # "apply" \/ PendingOf(a) = {}
           code == IF DriftedIn(a) # {} THEN 3
                   ELSE IF mode = "check" /\ PendingOf(a) # {} THEN 2 ELSE 0
       IN  /\ applier' = IF over THEN Exited(a, code)
                         ELSE [applier EXCEPT ![a].pc = "applying", ![a].pending = PendingOf(a)]
           /\ migrationLock' = IF over THEN NoApplier ELSE migrationLock
           /\ ledgerRows' = IF mode = "baseline" /\ DriftedIn(a) = {}
                            THEN ledgerRows \cup {LedgerRow(a, i) : i \in PendingOf(a)}
                            ELSE ledgerRows
    /\ UNCHANGED <<tree, table, schema, edits>>

NextOf(a) == CHOOSE i \in applier[a].pending : \A j \in applier[a].pending : i <= j

\* apply_migration: the text as it is now, and the checksum read at the start.
ApplyMigration(a) ==
    /\ applier[a].pc = "applying"
    /\ LET i == NextOf(a)
       IN  /\ tree[a][i] \notin Failing
           /\ schema' = Append(schema, [version |-> i, text |-> tree[a][i],
                                        by |-> a, stale |-> i \in applier[a].stale])
           /\ ledgerRows' = ledgerRows \cup {LedgerRow(a, i)}
           /\ IF applier[a].pending = {i}
              THEN applier' = Exited(a, 0) /\ migrationLock' = NoApplier
              ELSE /\ applier' = [applier EXCEPT ![a].pending = @ \ {i}]
                   /\ UNCHANGED migrationLock
    /\ UNCHANGED <<tree, table, edits>>

\* Its transaction is rolled back, the file and its row together.
ApplyFails(a) ==
    /\ applier[a].pc = "applying" /\ tree[a][NextOf(a)] \in Failing
    /\ applier' = Exited(a, 4) /\ migrationLock' = NoApplier
    /\ UNCHANGED <<tree, table, ledgerRows, schema, edits>>

\* The process dies: the server ends its session and frees its lock.
KillApplier(a) ==
    /\ applier[a].pc \in {"waiting", "planning", "applying"}
    /\ applier' = [applier EXCEPT ![a].pc = "killed"]
    /\ migrationLock' = IF migrationLock = a THEN NoApplier ELSE migrationLock
    /\ UNCHANGED <<tree, table, ledgerRows, schema, edits>>

MigrationNext ==
    \/ EditFile
    \/ \E a \in Appliers :
         \/ DiscoverMigrations(a) \/ EnsureLedger(a) \/ AcquireLock(a) \/ PlanRun(a)
         \/ ApplyMigration(a) \/ ApplyFails(a) \/ KillApplier(a)

(* ------------------------------- properties ------------------------------- *)
Baselined == \E a \in Appliers : applier[a].mode = "baseline"

\* Whatever deploys overlap, die or come from older checkouts, a version is
\* executed once and in its order, the ledger records exactly what was executed
\* (the one exception, a file rewritten while its run was under way, is marked),
\* and a run that says the database is current leaves its whole checkout in the
\* ledger (apply_migration, build_plan, main).
SchemaFollowsLedger ==
    /\ \A i, j \in DOMAIN schema : i < j => schema[i].version < schema[j].version
    /\ \A i \in DOMAIN schema : \E r \in ledgerRows :
         r.version = schema[i].version /\ (schema[i].stale \/ r.checksum = schema[i].text)
    /\ Baselined \/ \A r \in ledgerRows : \E i \in DOMAIN schema : schema[i].version = r.version
    /\ \A a \in Appliers :
         applier[a].exit = 0 /\ applier[a].mode # "dry_run"
           => \A i \in DOMAIN applier[a].found : LedgerRow(a, i) \in ledgerRows
=============================================================================
