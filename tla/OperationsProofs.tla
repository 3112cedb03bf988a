--------------------------- MODULE OperationsProofs ---------------------------
(***************************************************************************)
(* What an operator relies on, for every number of deploys, checkouts,     *)
(* edits and every timing: the migration ledger says what the schema is, a *)
(* worker process is honest about its output and its health, and a run's   *)
(* trace and event stream can be read while its pipeline commits; and what *)
(* a client relies on: a walk over a listing misses none of its rows.      *)
(***************************************************************************)
EXTENDS Migrations, WorkerProcess, Reads, CollectionProofs, SequenceTheorems, TLAPS

(* ------------------------------ migrations ------------------------------- *)
MigrationSpec == MigrationInit /\ [][MigrationNext]_migrationVars

AllTexts == Texts \cup UNION {{c[i] : i \in DOMAIN c} : c \in Checkouts}

ApplierStates == {"start", "ensuring", "waiting", "planning", "applying", "exited", "killed"}

ApplierRun == [pc : ApplierStates, mode : RunModes, found : Seq(AllTexts), pending : SUBSET Nat,
               stale : SUBSET Nat, saw : BOOLEAN, exit : Int]

SchemaStep == [version : Nat, text : AllTexts, by : Appliers, stale : BOOLEAN]

\* The shape of the checkouts, the runs and the two tables.
MigrationTypeOK ==
  /\ tree \in [Appliers -> Seq(AllTexts)]
  /\ applier \in [Appliers -> ApplierRun]
  /\ table \in BOOLEAN
  /\ ledgerRows \subseteq [version : Nat, checksum : AllTexts]
  /\ schema \in Seq(SchemaStep)
  /\ migrationLock \in Appliers \cup {NoApplier}

\* The ledger has no gap: it records the versions up to some n.
LedgerIsPrefix ==
  \E n \in Nat : /\ \A r \in ledgerRows : r.version \in 1 .. n
                 /\ \A i \in 1 .. n : \E r \in ledgerRows : r.version = i

\* Runs plan and apply one at a time; while one applies, its plan is what is
\* missing from the ledger, and nothing it found has drifted.
RunsAreSerial ==
  \A a \in Appliers :
    /\ applier[a].pc \in {"planning", "applying"} => migrationLock = a
    /\ applier[a].pc = "applying" =>
         /\ applier[a].pending = PendingOf(a) /\ PendingOf(a) # {}
         /\ DriftedIn(a) = {}

\* A file differs from what its run read only if it was rewritten meanwhile.
FilesAreAsRead ==
  \A a \in Appliers :
    applier[a].pc # "start" =>
      /\ DOMAIN tree[a] = DOMAIN applier[a].found
      /\ \A i \in DOMAIN tree[a] : tree[a][i] = applier[a].found[i] \/ i \in applier[a].stale

RunsEndOnce ==
  \A a \in Appliers :
    /\ applier[a].exit = 0 => applier[a].pc = "exited"
    /\ applier[a].pc = "start" => applier[a].mode = "apply"

MigrationInv ==
  /\ MigrationTypeOK /\ LedgerIsPrefix /\ RunsAreSerial /\ FilesAreAsRead
  /\ RunsEndOnce /\ SchemaFollowsLedger

(* Every file of a checkout is a text.                                     *)
LEMMA CheckoutsAreTexts == Checkouts \subseteq Seq(AllTexts)
<1> SUFFICES ASSUME NEW c \in Checkouts PROVE c \in Seq(AllTexts)
  OBVIOUS
<1>1. c \in Seq({c[i] : i \in DOMAIN c})
  BY MigrationAssumption
<1>2. {c[i] : i \in DOMAIN c} \subseteq AllTexts
  BY DEF AllTexts
<1>3. QED
  BY <1>1, <1>2, SeqMonotonic

(* Every deploy starts from an empty database.                             *)
LEMMA MigrationInitInv == MigrationInit => MigrationInv
<1> SUFFICES ASSUME MigrationInit PROVE MigrationInv
  OBVIOUS
<1>1. NewRun \in ApplierRun /\ NewRun.pc = "start" /\ NewRun.mode = "apply" /\ NewRun.exit = -1
  BY EmptySeq DEF NewRun, ApplierRun, ApplierStates, RunModes
<1>2. schema = <<>> /\ DOMAIN schema = {}
  BY EmptySeq DEF MigrationInit
<1>3. MigrationTypeOK
  BY <1>1, <1>2, CheckoutsAreTexts, EmptySeq DEF MigrationInit, MigrationTypeOK
<1>4. LedgerIsPrefix
  <2>1. /\ \A r \in ledgerRows : r.version \in 1 .. 0
        /\ \A i \in 1 .. 0 : \E r \in ledgerRows : r.version = i
    BY DEF MigrationInit
  <2>2. QED
    BY <2>1 DEF LedgerIsPrefix
<1>5. RunsAreSerial /\ FilesAreAsRead /\ RunsEndOnce
  BY <1>1 DEF MigrationInit, RunsAreSerial, FilesAreAsRead, RunsEndOnce
<1>6. SchemaFollowsLedger
  BY <1>1, <1>2 DEF MigrationInit, SchemaFollowsLedger
<1>7. QED
  BY <1>3, <1>4, <1>5, <1>6 DEF MigrationInv

(* A step that writes neither the ledger nor the schema keeps the          *)
(* invariant, if the run it moves does not start to apply, keeps what it   *)
(* found, and claims no success.                                           *)
LEMMA QuietRunInv ==
  ASSUME MigrationInv, NEW a \in Appliers, NEW run \in ApplierRun,
         applier' = [applier EXCEPT ![a] = run],
         UNCHANGED <<tree, ledgerRows, schema>>, table' \in BOOLEAN,
         migrationLock' \in Appliers \cup {NoApplier},
         run.pc \notin {"start", "applying"}, run.exit # 0,
         run.found = IF applier[a].pc = "start" THEN tree[a] ELSE applier[a].found,
         applier[a].pc = "start" \/ run.mode = applier[a].mode,
         run.stale = applier[a].stale,
         run.pc = "planning" => migrationLock = NoApplier /\ migrationLock' = a,
         run.pc # "planning" => \/ migrationLock' = migrationLock
                                \/ migrationLock' = NoApplier /\ migrationLock = a
  PROVE  MigrationInv'
<1>1. MigrationTypeOK /\ NoApplier \notin Appliers
  BY MigrationAssumption DEF MigrationInv
<1>2. \A b \in Appliers : /\ b # a => applier'[b] = applier[b]
                          /\ b = a => applier'[b] = run
  BY <1>1 DEF MigrationTypeOK
<1>3. MigrationTypeOK'
  BY <1>1 DEF MigrationTypeOK
<1>4. LedgerIsPrefix'
  BY DEF MigrationInv, LedgerIsPrefix
<1>5. \A b \in Appliers : b # a => /\ PendingOf(b)' = PendingOf(b)
                                   /\ DriftedIn(b)' = DriftedIn(b)
                                   /\ \A i : LedgerRow(b, i)' = LedgerRow(b, i)
  BY <1>2 DEF PendingOf, DriftedIn, LedgerRow
<1>6. RunsAreSerial'
  BY <1>1, <1>2, <1>5 DEF MigrationInv, RunsAreSerial
<1>7. FilesAreAsRead'
  BY <1>2 DEF MigrationInv, FilesAreAsRead
<1>8. RunsEndOnce'
  BY <1>2 DEF MigrationInv, RunsEndOnce
<1>9. SchemaFollowsLedger'
  <2>1. Baselined => Baselined'
    BY <1>2 DEF Baselined, MigrationInv, RunsEndOnce
  <2>2. \A b \in Appliers : applier'[b].exit = 0 => b # a
    BY <1>2
  <2>3. QED
    BY <1>2, <1>5, <2>1, <2>2 DEF MigrationInv, SchemaFollowsLedger
<1>10. QED
  BY <1>3, <1>4, <1>6, <1>7, <1>8, <1>9 DEF MigrationInv

(* Reading the files, making the table, taking the lock, a failed file and *)
(* a killed process are such steps.                                        *)
LEMMA QuietStepsInv ==
  ASSUME MigrationInv, NEW a \in Appliers,
         DiscoverMigrations(a) \/ EnsureLedger(a) \/ AcquireLock(a) \/ ApplyFails(a)
           \/ KillApplier(a)
  PROVE  MigrationInv'
<1>1. MigrationTypeOK /\ RunsAreSerial /\ RunsEndOnce
  BY DEF MigrationInv
<1>2. /\ applier[a] \in ApplierRun /\ tree[a] \in Seq(AllTexts) /\ table \in BOOLEAN
      /\ migrationLock \in Appliers \cup {NoApplier}
  BY <1>1 DEF MigrationTypeOK
<1>3. CASE DiscoverMigrations(a)
  <2>1. PICK m \in RunModes :
          applier' = [applier EXCEPT ![a].pc = "ensuring", ![a].mode = m,
                                     ![a].found = tree[a], ![a].saw = table]
    BY <1>3 DEF DiscoverMigrations
  <2> DEFINE run == [applier[a] EXCEPT !.pc = "ensuring", !.mode = m, !.found = tree[a],
                                       !.saw = table]
  <2>2. run \in ApplierRun
    BY <1>2 DEF ApplierRun, ApplierStates
  <2>3. applier' = [applier EXCEPT ![a] = run]
    BY <2>1
  <2>4. /\ run.pc = "ensuring" /\ run.found = tree[a] /\ run.stale = applier[a].stale
        /\ run.exit = applier[a].exit
    BY <1>2 DEF ApplierRun
  <2>5. applier[a].pc = "start" /\ applier[a].exit # 0
        /\ UNCHANGED <<tree, table, ledgerRows, schema, migrationLock>>
    BY <1>1, <1>3 DEF DiscoverMigrations, RunsEndOnce
  <2> HIDE DEF run
  <2>6. QED
    BY <1>2, <2>2, <2>3, <2>4, <2>5, QuietRunInv
<1>4. ASSUME NEW pc \in {"waiting", "planning", "exited", "killed"}, NEW code \in Int,
             code # 0, applier[a].pc # "start",
             applier' = [applier EXCEPT ![a] = [applier[a] EXCEPT !.pc = pc, !.exit = code]],
             UNCHANGED <<tree, ledgerRows, schema>>, table' \in BOOLEAN,
             migrationLock' \in Appliers \cup {NoApplier},
             pc = "planning" => migrationLock = NoApplier /\ migrationLock' = a,
             pc # "planning" => \/ migrationLock' = migrationLock
                                \/ migrationLock' = NoApplier /\ migrationLock = a
      PROVE  MigrationInv'
  <2> DEFINE run == [applier[a] EXCEPT !.pc = pc, !.exit = code]
  <2>1. run \in ApplierRun
    BY <1>2, <1>4 DEF ApplierRun, ApplierStates
  <2>2. /\ run.pc = pc /\ run.exit = code /\ run.found = applier[a].found
        /\ run.mode = applier[a].mode /\ run.stale = applier[a].stale
    BY <1>2 DEF ApplierRun
  <2> HIDE DEF run
  <2>3. applier' = [applier EXCEPT ![a] = run]
    BY <1>4 DEF run
  <2>4. QED
    BY <1>4, <2>1, <2>2, <2>3, QuietRunInv
<1>5. applier[a] = [applier[a] EXCEPT !.exit = applier[a].exit]
  BY <1>2 DEF ApplierRun
<1>6. CASE EnsureLedger(a)
  <2>1. /\ applier[a].pc = "ensuring" /\ applier[a].exit # 0 /\ applier[a].exit \in Int
        /\ UNCHANGED <<tree, ledgerRows, schema, migrationLock>> /\ table' \in BOOLEAN
    BY <1>1, <1>2, <1>6 DEF EnsureLedger, RunsEndOnce, ApplierRun
  <2>2. CASE applier' = [applier EXCEPT ![a].pc = "waiting"]
    <3>1. applier' = [applier EXCEPT ![a] =
                        [applier[a] EXCEPT !.pc = "waiting", !.exit = applier[a].exit]]
      BY <1>2, <2>2 DEF ApplierRun
    <3>2. QED
      BY <1>2, <1>4, <2>1, <3>1
  <2>3. CASE applier' = Exited(a, 1)
    <3>1. applier' = [applier EXCEPT ![a] = [applier[a] EXCEPT !.pc = "exited", !.exit = 1]]
      BY <2>3 DEF Exited
    <3>2. PICK pc, code : pc = "exited" /\ code = 1
      OBVIOUS
    <3>3. pc \in {"waiting", "planning", "exited", "killed"} /\ pc # "planning"
          /\ code \in Int /\ code # 0
      BY <3>2
    <3>4. QED
      BY <1>2, <1>4, <2>1, <3>1, <3>2, <3>3
  <2>4. QED
    BY <1>6, <2>2, <2>3 DEF EnsureLedger
<1>7. CASE AcquireLock(a)
  <2>1. /\ applier[a].pc = "waiting" /\ applier[a].exit # 0 /\ applier[a].exit \in Int
        /\ UNCHANGED <<tree, table, ledgerRows, schema>>
        /\ migrationLock = NoApplier /\ migrationLock' = a
    BY <1>1, <1>2, <1>7 DEF AcquireLock, RunsEndOnce, ApplierRun
  <2>2. applier' = [applier EXCEPT ![a] =
                      [applier[a] EXCEPT !.pc = "planning", !.exit = applier[a].exit]]
    BY <1>2, <1>7 DEF AcquireLock, ApplierRun
  <2>3. QED
    BY <1>2, <1>4, <2>1, <2>2
<1>8. CASE ApplyFails(a)
  <2>1. /\ applier[a].pc = "applying" /\ migrationLock = a /\ migrationLock' = NoApplier
        /\ UNCHANGED <<tree, table, ledgerRows, schema>>
    BY <1>1, <1>8 DEF ApplyFails, RunsAreSerial
  <2>2. applier' = [applier EXCEPT ![a] = [applier[a] EXCEPT !.pc = "exited", !.exit = 4]]
    BY <1>8 DEF ApplyFails, Exited
  <2>3. PICK pc, code : pc = "exited" /\ code = 4
    OBVIOUS
  <2>4. pc \in {"waiting", "planning", "exited", "killed"} /\ pc # "planning"
        /\ code \in Int /\ code # 0
    BY <2>3
  <2>5. QED
    BY <1>2, <1>4, <2>1, <2>2, <2>3, <2>4
<1>9. CASE KillApplier(a)
  <2>1. /\ applier[a].pc \in {"waiting", "planning", "applying"} /\ applier[a].exit # 0
        /\ applier[a].exit \in Int
        /\ UNCHANGED <<tree, table, ledgerRows, schema>>
        /\ migrationLock' = IF migrationLock = a THEN NoApplier ELSE migrationLock
    BY <1>1, <1>2, <1>9 DEF KillApplier, RunsEndOnce, ApplierRun
  <2>2. applier' = [applier EXCEPT ![a] =
                      [applier[a] EXCEPT !.pc = "killed", !.exit = applier[a].exit]]
    BY <1>2, <1>9 DEF KillApplier, ApplierRun
  <2>3. QED
    BY <1>2, <1>4, <2>1, <2>2
<1>10. QED
  BY <1>3, <1>6, <1>7, <1>8, <1>9

(* A file that is rewritten under a run is marked as stale.                *)
LEMMA EditFileInv ==
  ASSUME MigrationInv, EditFile
  PROVE  MigrationInv'
<1>0. PICK a \in Appliers : \E i \in DOMAIN applier[a].found : \E t \in Texts :
        /\ applier[a].pc \in {"ensuring", "waiting", "applying"}
        /\ tree' = [tree EXCEPT ![a][i] = t]
        /\ applier' = [applier EXCEPT ![a].stale = @ \cup {i}]
  BY DEF EditFile
<1>1. PICK i \in DOMAIN applier[a].found, t \in Texts :
        /\ applier[a].pc \in {"ensuring", "waiting", "applying"}
        /\ tree' = [tree EXCEPT ![a][i] = t]
        /\ applier' = [applier EXCEPT ![a].stale = @ \cup {i}]
  BY <1>0
<1>2. UNCHANGED <<table, ledgerRows, schema, migrationLock>>
  BY DEF EditFile
<1>3. MigrationTypeOK /\ applier[a] \in ApplierRun /\ tree[a] \in Seq(AllTexts)
  BY DEF MigrationInv, MigrationTypeOK
<1>4. /\ DOMAIN tree[a] = DOMAIN applier[a].found /\ i \in 1 .. Len(tree[a])
      /\ i \in Nat /\ t \in AllTexts
  BY <1>1, <1>3, LenProperties DEF MigrationInv, FilesAreAsRead, AllTexts
<1> DEFINE file == [tree[a] EXCEPT ![i] = t]
           run == [applier[a] EXCEPT !.stale = @ \cup {i}]
<1>5. /\ file \in Seq(AllTexts) /\ DOMAIN file = DOMAIN tree[a]
      /\ \A j \in DOMAIN tree[a] : file[j] = IF j = i THEN t ELSE tree[a][j]
  BY <1>3, <1>4, ExceptSeq
<1>6. /\ run \in ApplierRun
      /\ run.pc = applier[a].pc /\ run.mode = applier[a].mode /\ run.found = applier[a].found
      /\ run.pending = applier[a].pending /\ run.exit = applier[a].exit
      /\ run.stale = applier[a].stale \cup {i}
  BY <1>3, <1>4 DEF ApplierRun
<1>7. tree' = [tree EXCEPT ![a] = file] /\ applier' = [applier EXCEPT ![a] = run]
  BY <1>1
<1> HIDE DEF file, run
<1>8. \A b \in Appliers : /\ b # a => applier'[b] = applier[b] /\ tree'[b] = tree[b]
                          /\ b = a => applier'[b] = run /\ tree'[b] = file
  BY <1>3, <1>7 DEF MigrationTypeOK
<1>9. \A b \in Appliers : /\ applier'[b].pc = applier[b].pc
                          /\ applier'[b].mode = applier[b].mode
                          /\ applier'[b].found = applier[b].found
                          /\ applier'[b].pending = applier[b].pending
                          /\ applier'[b].exit = applier[b].exit
  BY <1>6, <1>8
<1>10. MigrationTypeOK'
  BY <1>2, <1>3, <1>5, <1>6, <1>7 DEF MigrationTypeOK
<1>11. \A b \in Appliers : /\ PendingOf(b)' = PendingOf(b)
                           /\ DriftedIn(b)' = DriftedIn(b)
                           /\ \A j : LedgerRow(b, j)' = LedgerRow(b, j)
  BY <1>2, <1>9 DEF PendingOf, DriftedIn, LedgerRow
<1>12. LedgerIsPrefix'
  BY <1>2 DEF MigrationInv, LedgerIsPrefix
<1>13. RunsAreSerial'
  BY <1>2, <1>9, <1>11 DEF MigrationInv, RunsAreSerial
<1>14. FilesAreAsRead'
  BY <1>5, <1>6, <1>8 DEF MigrationInv, FilesAreAsRead
<1>15. RunsEndOnce'
  BY <1>9 DEF MigrationInv, RunsEndOnce
<1>16. SchemaFollowsLedger'
  <2>1. Baselined' <=> Baselined
    BY <1>9 DEF Baselined
  <2>2. QED
    BY <1>2, <1>9, <1>11, <2>1 DEF MigrationInv, SchemaFollowsLedger
<1>17. QED
  BY <1>10, <1>12, <1>13, <1>14, <1>15, <1>16 DEF MigrationInv

(* Rows are only added to the ledger, so what was recorded stays recorded; *)
(* another run's plan can change only while it applies nothing.            *)
LEMMA LedgerGrows ==
  ASSUME MigrationInv, NEW a \in Appliers, migrationLock = a,
         ledgerRows \subseteq ledgerRows', UNCHANGED tree,
         NEW run \in ApplierRun, applier' = [applier EXCEPT ![a] = run],
         ledgerRows' \subseteq [version : Nat, checksum : AllTexts],
         migrationLock' \in {a, NoApplier}, run.pc \in {"applying", "exited"},
         schema' \in Seq(SchemaStep), UNCHANGED table,
         run.pc = "applying" =>
           /\ migrationLock' = a
           /\ run.pending = PendingOf(a)' /\ PendingOf(a)' # {} /\ DriftedIn(a)' = {},
         run.found = applier[a].found, run.mode = applier[a].mode,
         run.stale = applier[a].stale, applier[a].pc # "start",
         run.exit = 0 => run.pc = "exited"
  PROVE  /\ (MigrationTypeOK /\ RunsAreSerial /\ FilesAreAsRead /\ RunsEndOnce)'
         /\ Baselined' <=> Baselined
         /\ \A b \in Appliers :
              b # a => /\ applier'[b] = applier[b]
                       /\ \A i : LedgerRow(b, i)' = LedgerRow(b, i)
<1>1. MigrationTypeOK /\ NoApplier \notin Appliers
  BY MigrationAssumption DEF MigrationInv
<1>2. \A b \in Appliers : /\ b # a => applier'[b] = applier[b]
                          /\ b = a => applier'[b] = run
  BY <1>1 DEF MigrationTypeOK
<1>3. MigrationTypeOK'
  BY <1>1 DEF MigrationTypeOK
<1>4. RunsAreSerial'
  <2>1. \A b \in Appliers : b # a => applier'[b].pc \notin {"planning", "applying"}
    BY <1>2 DEF MigrationInv, RunsAreSerial
  <2>2. applier'[a] = run
    BY <1>2
  <2>3. QED
    BY <2>1, <2>2 DEF RunsAreSerial
<1>5. FilesAreAsRead'
  BY <1>2 DEF MigrationInv, FilesAreAsRead
<1>6. RunsEndOnce'
  BY <1>2 DEF MigrationInv, RunsEndOnce
<1>7. Baselined' <=> Baselined
  BY <1>2 DEF Baselined
<1>8. \A b \in Appliers : b # a => \A i : LedgerRow(b, i)' = LedgerRow(b, i)
  BY <1>2 DEF LedgerRow
<1>9. QED
  BY <1>2, <1>3, <1>4, <1>5, <1>6, <1>7, <1>8

(* What a run finds missing are the versions after the last recorded one.  *)
LEMMA PendingIsSuffix ==
  ASSUME MigrationTypeOK, NEW a \in Appliers, NEW n \in Nat,
         \A r \in ledgerRows : r.version \in 1 .. n,
         \A i \in 1 .. n : \E r \in ledgerRows : r.version = i
  PROVE  /\ Len(applier[a].found) \in Nat
         /\ DOMAIN applier[a].found = 1 .. Len(applier[a].found)
         /\ \A i : i \in PendingOf(a) <=> i \in 1 .. Len(applier[a].found) /\ ~(i <= n)
<1>1. applier[a].found \in Seq(AllTexts)
  BY DEF MigrationTypeOK, ApplierRun
<1>2. /\ Len(applier[a].found) \in Nat
      /\ DOMAIN applier[a].found = 1 .. Len(applier[a].found)
  BY <1>1, LenProperties
<1>3. QED
  BY <1>2 DEF PendingOf

(* main plans under the lock, and exits or goes on to apply (migrate.py).  *)
LEMMA PlanRunInv ==
  ASSUME MigrationInv, NEW a \in Appliers, PlanRun(a)
  PROVE  MigrationInv'
<1> DEFINE mode == applier[a].mode
           drifted == DriftedIn(a) # {}
           over == drifted \/ mode # "apply" \/ PendingOf(a) = {}
           code == IF drifted THEN 3
                   ELSE IF mode = "check" /\ PendingOf(a) # {} THEN 2 ELSE 0
           run == IF over THEN [applier[a] EXCEPT !.pc = "exited", !.exit = code]
                  ELSE [applier[a] EXCEPT !.pc = "applying", !.pending = PendingOf(a)]
           found == applier[a].found
           rows == {LedgerRow(a, i) : i \in PendingOf(a)}
<1>1. /\ MigrationTypeOK /\ applier[a] \in ApplierRun
      /\ applier[a].pc = "planning" /\ migrationLock = a /\ applier[a].exit # 0
  BY DEF PlanRun, MigrationInv, MigrationTypeOK, RunsAreSerial, RunsEndOnce
<1>2. /\ UNCHANGED <<tree, table, schema>>
      /\ migrationLock' = IF over THEN NoApplier ELSE migrationLock
      /\ ledgerRows' = IF mode = "baseline" /\ ~drifted THEN ledgerRows \cup rows ELSE ledgerRows
  BY DEF PlanRun
<1>3. applier' = [applier EXCEPT ![a] = run]
  BY DEF PlanRun, Exited
<1>4. PICK n \in Nat : /\ \A r \in ledgerRows : r.version \in 1 .. n
                       /\ \A i \in 1 .. n : \E r \in ledgerRows : r.version = i
  BY DEF MigrationInv, LedgerIsPrefix
<1> DEFINE m == Len(found)
<1>5. /\ m \in Nat /\ DOMAIN found = 1 .. m
      /\ \A i : i \in PendingOf(a) <=> i \in 1 .. m /\ ~(i <= n)
  BY <1>1, <1>4, PendingIsSuffix
<1>6. PendingOf(a) \subseteq Nat
  BY <1>5
<1>7. /\ run \in ApplierRun
      /\ run.found = found /\ run.mode = mode /\ run.stale = applier[a].stale
      /\ run.pc = IF over THEN "exited" ELSE "applying"
      /\ over => run.exit = code
      /\ ~over => run.pending = PendingOf(a) /\ run.exit = applier[a].exit
  <2>1. CASE over
    <3>1. code \in Int /\ run = [applier[a] EXCEPT !.pc = "exited", !.exit = code]
      BY <2>1
    <3> HIDE DEF code, run, over
    <3>2. QED
      BY <1>1, <2>1, <3>1 DEF ApplierRun, ApplierStates
  <2>2. CASE ~over
    <3>1. run = [applier[a] EXCEPT !.pc = "applying", !.pending = PendingOf(a)]
      BY <2>2
    <3> HIDE DEF code, run, over
    <3>2. QED
      BY <1>1, <1>6, <2>2, <3>1 DEF ApplierRun, ApplierStates
  <2>3. QED
    BY <2>1, <2>2
<1>8. \A i : LedgerRow(a, i)' = LedgerRow(a, i)
  BY <1>1, <1>3, <1>7 DEF LedgerRow, MigrationTypeOK
<1>9. \A i \in DOMAIN found : found[i] \in AllTexts
  BY <1>1, <1>5, ElementOfSeq DEF ApplierRun
<1>10. rows \subseteq [version : Nat, checksum : AllTexts]
  BY <1>5, <1>6, <1>9 DEF LedgerRow
<1>11. /\ ledgerRows \subseteq ledgerRows'
       /\ ledgerRows' \subseteq [version : Nat, checksum : AllTexts]
  BY <1>1, <1>2, <1>10 DEF MigrationTypeOK
<1>12. ~over => /\ PendingOf(a)' = PendingOf(a) /\ DriftedIn(a)' = DriftedIn(a)
                /\ PendingOf(a) # {} /\ DriftedIn(a) = {}
  <2>1. applier'[a].found = found
    BY <1>1, <1>3, <1>7 DEF MigrationTypeOK
  <2>2. ~over => ledgerRows' = ledgerRows
    BY <1>2
  <2>3. QED
    BY <1>8, <2>1, <2>2 DEF PendingOf, DriftedIn
<1>13. LedgerIsPrefix'
  <2>1. CASE ledgerRows' = ledgerRows
    BY <2>1 DEF MigrationInv, LedgerIsPrefix
  <2>2. CASE ledgerRows' = ledgerRows \cup rows
    <3>1. \A r \in rows : \E i \in PendingOf(a) : r.version = i
      BY DEF LedgerRow
    <3>2. \A i \in PendingOf(a) : \E r \in rows : r.version = i
      <4>1. \A i \in PendingOf(a) : LedgerRow(a, i) \in rows
        OBVIOUS
      <4>2. \A i : LedgerRow(a, i).version = i
        BY DEF LedgerRow
      <4> HIDE DEF rows
      <4>3. QED
        BY <4>1, <4>2
    <3> DEFINE top == IF m <= n THEN n ELSE m
    <3>3. top \in Nat /\ n <= top /\ m <= top /\ (top = n \/ top = m)
      BY <1>5
    <3> HIDE DEF top, rows, m
    <3>4. \A r \in ledgerRows' : r.version \in 1 .. top
      BY <1>4, <1>5, <2>2, <3>1, <3>3
    <3>5. \A i \in 1 .. top : i \in 1 .. n \/ i \in PendingOf(a)
      BY <1>5, <3>3
    <3>6. \A i \in 1 .. top : \E r \in ledgerRows' : r.version = i
      BY <1>4, <2>2, <3>2, <3>5
    <3>7. QED
      BY <3>3, <3>4, <3>6 DEF LedgerIsPrefix
  <2>3. QED
    BY <1>2, <2>1, <2>2
<1>14. /\ (MigrationTypeOK /\ RunsAreSerial /\ FilesAreAsRead /\ RunsEndOnce)'
       /\ Baselined' <=> Baselined
       /\ \A b \in Appliers : b # a => /\ applier'[b] = applier[b]
                                       /\ \A i : LedgerRow(b, i)' = LedgerRow(b, i)
  <2>1. /\ run.exit = 0 => run.pc = "exited"
        /\ run.pc \in {"applying", "exited"}
        /\ run.pc = "applying" => ~over
    BY <1>1, <1>7
  <2>2. migrationLock' \in {a, NoApplier} /\ (~over => migrationLock' = a)
    BY <1>1, <1>2
  <2>3. schema' \in Seq(SchemaStep) /\ UNCHANGED <<tree, table>>
    BY <1>1, <1>2 DEF MigrationTypeOK
  <2> HIDE DEF run, over, mode, found
  <2>4. applier[a].pc # "start" /\ run.found = applier[a].found /\ run.mode = applier[a].mode
    BY <1>1, <1>7 DEF found, mode
  <2>5. QED
    BY <1>1, <1>3, <1>7, <1>11, <1>12, <2>1, <2>2, <2>3, <2>4, LedgerGrows
<1>15. SchemaFollowsLedger'
  <2>1. \A i, j \in DOMAIN schema' : i < j => schema'[i].version < schema'[j].version
    BY <1>2 DEF MigrationInv, SchemaFollowsLedger
  <2>2. \A i \in DOMAIN schema' : \E r \in ledgerRows' :
          r.version = schema'[i].version /\ (schema'[i].stale \/ r.checksum = schema'[i].text)
    BY <1>2, <1>11 DEF MigrationInv, SchemaFollowsLedger
  <2>3. Baselined' \/ \A r \in ledgerRows' : \E i \in DOMAIN schema' : schema'[i].version = r.version
    <3>1. CASE mode = "baseline"
      BY <1>14, <3>1 DEF Baselined
    <3>2. CASE mode # "baseline"
      BY <1>2, <1>14, <3>2 DEF MigrationInv, SchemaFollowsLedger
    <3>3. QED
      BY <3>1, <3>2
  <2>4. ASSUME NEW b \in Appliers, applier'[b].exit = 0, applier'[b].mode # "dry_run"
        PROVE  \A i \in DOMAIN applier'[b].found : LedgerRow(b, i)' \in ledgerRows'
    <3>1. CASE b # a
      BY <1>11, <1>14, <2>4, <3>1 DEF MigrationInv, SchemaFollowsLedger
    <3>2. CASE b = a
      <4>1. applier'[a] = run
        BY <1>1, <1>3 DEF MigrationTypeOK
      <4>2. over /\ code = 0 /\ mode # "dry_run"
        BY <1>1, <1>7, <2>4, <3>2, <4>1
      <4>3. ~drifted /\ (PendingOf(a) = {} \/ mode = "baseline")
        <5>1. mode \in {"apply", "check", "dry_run", "baseline"}
          BY <1>1 DEF ApplierRun, RunModes
        <5>2. QED
          BY <4>2, <5>1
      <4>4. \A i \in DOMAIN found : i \notin PendingOf(a) => LedgerRow(a, i) \in ledgerRows
        BY <4>3 DEF DriftedIn
      <4>5. \A i \in PendingOf(a) : LedgerRow(a, i) \in ledgerRows'
        BY <1>2, <4>3
      <4>6. QED
        BY <1>7, <1>8, <1>11, <3>2, <4>1, <4>4, <4>5
    <3>3. QED
      BY <3>1, <3>2
  <2>5. QED
    BY <2>1, <2>2, <2>3, <2>4 DEF SchemaFollowsLedger
<1>16. QED
  BY <1>13, <1>14, <1>15 DEF MigrationInv

(* A file is applied after every recorded one: the first of the plan is    *)
(* the version after the last of the ledger (apply_migration, migrate.py). *)
LEMMA ApplyMigrationInv ==
  ASSUME MigrationInv, NEW a \in Appliers, ApplyMigration(a)
  PROVE  MigrationInv'
<1> DEFINE v == NextOf(a)
           found == applier[a].found
           m == Len(found)
           last == applier[a].pending = {v}
           run == IF last THEN [applier[a] EXCEPT !.pc = "exited", !.exit = 0]
                  ELSE [applier[a] EXCEPT !.pending = @ \ {v}]
           step == [version |-> v, text |-> tree[a][v], by |-> a, stale |-> v \in applier[a].stale]
           row == LedgerRow(a, v)
<1>1. /\ MigrationTypeOK /\ applier[a] \in ApplierRun
      /\ applier[a].pc = "applying" /\ migrationLock = a /\ applier[a].exit # 0
      /\ applier[a].pending = PendingOf(a) /\ PendingOf(a) # {} /\ DriftedIn(a) = {}
  BY DEF ApplyMigration, MigrationInv, MigrationTypeOK, RunsAreSerial, RunsEndOnce
<1>2. /\ UNCHANGED <<tree, table>>
      /\ schema' = Append(schema, step)
      /\ ledgerRows' = ledgerRows \cup {row}
      /\ migrationLock' = IF last THEN NoApplier ELSE migrationLock
  BY DEF ApplyMigration
<1>3. applier' = [applier EXCEPT ![a] = run]
  BY DEF ApplyMigration, Exited
<1>4. PICK n \in Nat : /\ \A r \in ledgerRows : r.version \in 1 .. n
                       /\ \A i \in 1 .. n : \E r \in ledgerRows : r.version = i
  BY DEF MigrationInv, LedgerIsPrefix
<1>5. /\ m \in Nat /\ DOMAIN found = 1 .. m
      /\ \A i : i \in PendingOf(a) <=> i \in 1 .. m /\ ~(i <= n)
  BY <1>1, <1>4, PendingIsSuffix
<1>6. v = n + 1 /\ v \in PendingOf(a)
  <2>1. n + 1 \in PendingOf(a) /\ \A j \in PendingOf(a) : j \in Nat /\ n + 1 <= j
    BY <1>1, <1>5
  <2>2. v \in PendingOf(a) /\ \A j \in PendingOf(a) : v <= j
    BY <1>1, <2>1 DEF NextOf
  <2> HIDE DEF v
  <2>3. QED
    BY <2>1, <2>2
<1> HIDE DEF v
<1>7. v \in Nat /\ v \in DOMAIN found /\ v \in 1 .. m
  BY <1>5, <1>6
<1>8. /\ found \in Seq(AllTexts) /\ tree[a] \in Seq(AllTexts)
      /\ found[v] \in AllTexts /\ tree[a][v] \in AllTexts
      /\ tree[a][v] = found[v] \/ v \in applier[a].stale
  <2>1. found \in Seq(AllTexts) /\ tree[a] \in Seq(AllTexts)
    BY <1>1 DEF ApplierRun, MigrationTypeOK
  <2>2. /\ DOMAIN tree[a] = DOMAIN found
        /\ tree[a][v] = found[v] \/ v \in applier[a].stale
    BY <1>1, <1>7 DEF MigrationInv, FilesAreAsRead
  <2>3. v \in 1 .. Len(tree[a])
    BY <1>7, <2>1, <2>2, LenProperties
  <2>4. QED
    BY <1>7, <2>1, <2>2, <2>3, ElementOfSeq
<1>9. row = [version |-> v, checksum |-> found[v]]
  BY DEF LedgerRow
<1>10. /\ ledgerRows \subseteq ledgerRows'
       /\ ledgerRows' \subseteq [version : Nat, checksum : AllTexts]
  BY <1>1, <1>2, <1>7, <1>8, <1>9 DEF MigrationTypeOK
<1>11. step \in SchemaStep
  BY <1>7, <1>8 DEF SchemaStep
<1>12. schema \in Seq(SchemaStep)
  BY <1>1 DEF MigrationTypeOK
<1> DEFINE k == Len(schema)
<1>13. /\ schema' \in Seq(SchemaStep)
       /\ k \in Nat /\ DOMAIN schema = 1 .. k /\ DOMAIN schema' = 1 .. k + 1
       /\ \A i \in 1 .. k : schema'[i] = schema[i]
       /\ schema'[k + 1] = step
  BY <1>2, <1>11, <1>12, AppendProperties, LenProperties
<1>14. /\ run \in ApplierRun
       /\ run.found = found /\ run.mode = applier[a].mode /\ run.stale = applier[a].stale
       /\ run.pc = IF last THEN "exited" ELSE "applying"
       /\ run.exit = IF last THEN 0 ELSE applier[a].exit
       /\ ~last => run.pending = PendingOf(a) \ {v}
  <2>1. CASE last
    <3>1. PICK code \in Int : code = 0
      OBVIOUS
    <3>2. run = [applier[a] EXCEPT !.pc = "exited", !.exit = code]
      BY <2>1, <3>1
    <3> HIDE DEF run, last
    <3>3. run \in ApplierRun
      BY <1>1, <3>2 DEF ApplierRun, ApplierStates
    <3>4. QED
      BY <1>1, <2>1, <3>1, <3>2, <3>3 DEF ApplierRun
  <2>2. CASE ~last
    <3>1. run = [applier[a] EXCEPT !.pending = PendingOf(a) \ {v}]
      BY <1>1, <2>2
    <3> HIDE DEF run, last
    <3>2. PendingOf(a) \subseteq Nat
      BY <1>5
    <3>3. QED
      BY <1>1, <2>2, <3>1, <3>2 DEF ApplierRun, ApplierStates
  <2>3. QED
    BY <2>1, <2>2
<1> HIDE DEF run, step
<1>15. applier'[a] = run
  BY <1>1, <1>3 DEF MigrationTypeOK
<1>16. \A i : LedgerRow(a, i)' = LedgerRow(a, i)
  BY <1>14, <1>15 DEF LedgerRow
<1>17. PendingOf(a)' = PendingOf(a) \ {v}
  <2>1. \A i : (\A r \in ledgerRows' : r.version # i) <=> (\A r \in ledgerRows : r.version # i) /\ i # v
    BY <1>2, <1>9
  <2>2. QED
    BY <1>14, <1>15, <2>1 DEF PendingOf
<1>18. \A i \in DOMAIN found : i \notin PendingOf(a) \/ i = v => LedgerRow(a, i) \in ledgerRows'
  BY <1>1, <1>2 DEF DriftedIn
<1>19. DriftedIn(a)' = {}
  BY <1>14, <1>15, <1>16, <1>17, <1>18 DEF DriftedIn
<1>20. LedgerIsPrefix'
  <2>1. \A r \in ledgerRows' : r.version \in 1 .. n + 1
    BY <1>2, <1>4, <1>6, <1>9
  <2>2. \A i \in 1 .. n + 1 : \E r \in ledgerRows' : r.version = i
    <3>1. \A i \in 1 .. n + 1 : i \in 1 .. n \/ i = v
      BY <1>6
    <3>2. row \in ledgerRows' /\ row.version = v
      BY <1>2, <1>9
    <3>3. QED
      BY <1>2, <1>4, <3>1, <3>2
  <2>3. n + 1 \in Nat
    OBVIOUS
  <2>4. QED
    BY <2>1, <2>2, <2>3 DEF LedgerIsPrefix
<1>21. /\ (MigrationTypeOK /\ RunsAreSerial /\ FilesAreAsRead /\ RunsEndOnce)'
       /\ Baselined' <=> Baselined
       /\ \A b \in Appliers : b # a => /\ applier'[b] = applier[b]
                                       /\ \A i : LedgerRow(b, i)' = LedgerRow(b, i)
  <2>1. ~last => PendingOf(a)' # {}
    BY <1>1, <1>6, <1>17
  <2>2. /\ migrationLock' \in {a, NoApplier} /\ (~last => migrationLock' = a)
    BY <1>1, <1>2
  <2>3. /\ run.exit = 0 => run.pc = "exited"
        /\ run.pc \in {"applying", "exited"}
        /\ run.pc = "applying" => ~last
    BY <1>1, <1>14
  <2> HIDE DEF last, row
  <2>4. applier[a].pc # "start" /\ run.found = applier[a].found
    BY <1>1, <1>14
  <2>5. run.pc = "applying" =>
          /\ migrationLock' = a
          /\ run.pending = PendingOf(a)' /\ PendingOf(a)' # {} /\ DriftedIn(a)' = {}
    BY <1>14, <1>17, <1>19, <2>1, <2>2, <2>3
  <2>6. QED
    BY <1>1, <1>2, <1>3, <1>10, <1>13, <1>14, <2>2, <2>3, <2>4, <2>5, LedgerGrows
<1>22. SchemaFollowsLedger'
  <2>1. \A i \in 1 .. k : \E r \in ledgerRows :
          r.version = schema[i].version /\ (schema[i].stale \/ r.checksum = schema[i].text)
    BY <1>13 DEF MigrationInv, SchemaFollowsLedger
  <2>2. \A i \in 1 .. k : schema[i].version \in 1 .. n
    BY <1>4, <2>1
  <2>3. /\ step.version = v /\ step.text = tree[a][v] /\ step.stale = (v \in applier[a].stale)
        /\ row.version = v /\ row.checksum = found[v] /\ row \in ledgerRows'
    BY <1>2, <1>9 DEF step
  <2>4. \A i \in DOMAIN schema' : i \in 1 .. k \/ i = k + 1
    BY <1>13
  <2>5. \A i, j \in DOMAIN schema' : i < j => schema'[i].version < schema'[j].version
    <3> SUFFICES ASSUME NEW i \in DOMAIN schema', NEW j \in DOMAIN schema', i < j
                 PROVE  schema'[i].version < schema'[j].version
      OBVIOUS
    <3>1. i \in 1 .. k
      BY <1>13, <2>4
    <3>2. CASE j \in 1 .. k
      BY <1>13, <3>1, <3>2 DEF MigrationInv, SchemaFollowsLedger
    <3>3. CASE j = k + 1
      BY <1>6, <1>13, <2>2, <2>3, <3>1, <3>3
    <3>4. QED
      BY <2>4, <3>2, <3>3
  <2>6. \A i \in DOMAIN schema' : \E r \in ledgerRows' :
          r.version = schema'[i].version /\ (schema'[i].stale \/ r.checksum = schema'[i].text)
    <3> SUFFICES ASSUME NEW i \in DOMAIN schema'
                 PROVE  \E r \in ledgerRows' : /\ r.version = schema'[i].version
                                               /\ schema'[i].stale \/ r.checksum = schema'[i].text
      OBVIOUS
    <3>1. CASE i \in 1 .. k
      BY <1>10, <1>13, <2>1, <3>1
    <3>2. CASE i = k + 1
      BY <1>8, <1>13, <2>3, <3>2
    <3>3. QED
      BY <2>4, <3>1, <3>2
  <2>7. Baselined' \/ \A r \in ledgerRows' : \E i \in DOMAIN schema' : schema'[i].version = r.version
    <3>1. CASE Baselined
      BY <1>21, <3>1
    <3>2. CASE ~Baselined
      <4>1. \A r \in ledgerRows : \E i \in 1 .. k : schema[i].version = r.version
        BY <1>13, <3>2 DEF MigrationInv, SchemaFollowsLedger
      <4>2. \A r \in ledgerRows' : r \in ledgerRows \/ r = row
        BY <1>2
      <4>3. k + 1 \in DOMAIN schema' /\ \A i \in 1 .. k : i \in DOMAIN schema'
        BY <1>13
      <4>4. QED
        BY <1>13, <2>3, <4>1, <4>2, <4>3
    <3>3. QED
      BY <3>1, <3>2
  <2>8. ASSUME NEW b \in Appliers, applier'[b].exit = 0, applier'[b].mode # "dry_run"
        PROVE  \A i \in DOMAIN applier'[b].found : LedgerRow(b, i)' \in ledgerRows'
    <3>1. CASE b # a
      BY <1>10, <1>21, <2>8, <3>1 DEF MigrationInv, SchemaFollowsLedger
    <3>2. CASE b = a
      <4>1. last
        BY <1>1, <1>14, <1>15, <2>8, <3>2
      <4>2. \A i \in PendingOf(a) : i = v
        BY <1>1, <4>1
      <4>3. QED
        BY <1>14, <1>15, <1>16, <1>18, <3>2, <4>2
    <3>3. QED
      BY <3>1, <3>2
  <2>9. QED
    BY <2>5, <2>6, <2>7, <2>8 DEF SchemaFollowsLedger
<1>23. QED
  BY <1>20, <1>21, <1>22 DEF MigrationInv

(* The ledger says what the schema is, for any number of deploys on any    *)
(* checkouts, whatever dies, fails or is rewritten meanwhile: a version is *)
(* executed once and in its order, and a run that exits 0 has its whole    *)
(* checkout recorded (apply_migration, build_plan, main; migrate.py).      *)
THEOREM MigrationSpecFollowsLedger == MigrationSpec => []SchemaFollowsLedger
<1>1. MigrationInv /\ [MigrationNext]_migrationVars => MigrationInv'
  <2> SUFFICES ASSUME MigrationInv, [MigrationNext]_migrationVars PROVE MigrationInv'
    OBVIOUS
  <2>1. CASE UNCHANGED migrationVars
    <3>1. UNCHANGED <<tree, applier, table, ledgerRows, schema, migrationLock>>
      BY <2>1 DEF migrationVars
    <3>2. (MigrationTypeOK /\ LedgerIsPrefix)'
      BY <3>1 DEF MigrationInv, MigrationTypeOK, LedgerIsPrefix
    <3>3. (FilesAreAsRead /\ RunsEndOnce)'
      BY <3>1 DEF MigrationInv, FilesAreAsRead, RunsEndOnce
    <3>4. \A b \in Appliers : /\ PendingOf(b)' = PendingOf(b)
                              /\ DriftedIn(b)' = DriftedIn(b)
                              /\ \A i : LedgerRow(b, i)' = LedgerRow(b, i)
      BY <3>1 DEF PendingOf, DriftedIn, LedgerRow
    <3>5. RunsAreSerial'
      BY <3>1, <3>4 DEF MigrationInv, RunsAreSerial
    <3>6. SchemaFollowsLedger'
      BY <3>1, <3>4 DEF MigrationInv, SchemaFollowsLedger, Baselined
    <3>7. QED
      BY <3>2, <3>3, <3>5, <3>6 DEF MigrationInv
  <2>2. QED
    BY <2>1, EditFileInv, QuietStepsInv, PlanRunInv, ApplyMigrationInv DEF MigrationNext
<1>2. MigrationInv => SchemaFollowsLedger
  BY DEF MigrationInv
<1>3. QED
  BY <1>1, <1>2, MigrationInitInv, PTL DEF MigrationSpec

(* ---------------------------- worker process ----------------------------- *)
ProcessPhases == {"gate", "bind", "connect", "loop", "claim", "sec_filing_fetch",
                  "extraction_run", "exited", "killed"}

\* The shape of a process: its configuration, its phase and its clocks.
ProcessTypeOK ==
  /\ env \in [live : Flag, mock : Flag, fixture : Flag, llm : Flag, memory : Flag,
              storageDir : BOOLEAN, fixtureDir : BOOLEAN, userAgent : BOOLEAN,
              database : BOOLEAN, port : BOOLEAN, role : BOOLEAN, bounded : BOOLEAN,
              queue : {"ingestion", "extraction"}]
  /\ phase \in ProcessPhases /\ exitStatus \in {0, 1, 2}
  /\ bound \in [sec : {"none", "mock", "live", "fixture"}, storage : {"none", "memory", "disk"},
                llm : {"none", "mock"}]
  /\ clock \in Nat /\ touched \in Nat /\ nextCheck \in Nat /\ progress \in Nat

\* A process past the gate runs in exactly one mode, and what it is bound to
\* was asked for.
BoundAsAsked ==
  /\ phase = "bind" => ProviderModeResolves
  /\ bound.sec = "mock" => env.mock = "set" /\ env.live = "unset" /\ env.fixture = "unset"
  /\ bound.sec \in {"live", "fixture"} => bound.storage = "disk"
  /\ bound.llm = "mock" => env.llm = "set" /\ env.queue = "extraction"

\* Output comes from a provider the process is bound to.
AnswersAreBound ==
  /\ phase \in {"gate", "bind"} => answered = {}
  /\ answered \subseteq {bound.sec, bound.llm, "discarded"}

\* The watchdog sees what progress there is, and is never more than one
\* interval behind.
WatchdogKeepsUp ==
  /\ touched = progress
  /\ exitStatus # 0 => phase \in {"exited", "killed"}
  /\ phase = "killed" => clock - progress > MaxAge
  /\ Started => /\ progress <= clock /\ clock <= nextCheck
                /\ nextCheck - progress <= MaxAge + 1

ProcessInv == ProcessTypeOK /\ BoundAsAsked /\ AnswersAreBound /\ WatchdogKeepsUp

(* The two parts of ProcessIsHonest follow from the invariant.             *)
LEMMA ProcessInvSuffices == ProcessInv => ProcessIsHonest
<1> SUFFICES ASSUME ProcessInv PROVE ProcessIsHonest
  OBVIOUS
<1>1. FabricationIsOptedIn
  <2>1. bound.llm \notin {"live", "fixture"}
    BY DEF ProcessInv, ProcessTypeOK
  <2>2. answered \cap {"live", "fixture"} # {} => bound.sec \in {"live", "fixture"}
    BY <2>1 DEF ProcessInv, AnswersAreBound
  <2>3. "mock" \in answered => bound.sec = "mock" \/ bound.llm = "mock"
    BY DEF ProcessInv, AnswersAreBound
  <2>4. QED
    BY <2>2, <2>3 DEF ProcessInv, BoundAsAsked, FabricationIsOptedIn
<1>2. WatchdogIsExact
  BY ProcessAssumption
  DEF ProcessInv, ProcessTypeOK, WatchdogKeepsUp, WatchdogIsExact, Started
<1>3. QED
  BY <1>1, <1>2 DEF ProcessIsHonest

(* The gates let a process through with one mode, and bind that one        *)
(* (run_entry, build_run_providers, build_structured_llm).                 *)
LEMMA GatesInv ==
  ASSUME ProcessInv, Gate \/ Bind \/ Connect
  PROVE  ProcessInv'
<1> USE DEF ProcessInv
<1>1. CASE Gate
  <2>1. /\ phase = "gate" /\ phase' \in {"bind", "exited"} /\ exitStatus' \in {exitStatus, 2}
        /\ exitStatus' = 2 \/ exitStatus' = exitStatus
        /\ phase' = "bind" => ProviderModeResolves /\ exitStatus' = exitStatus
        /\ phase' = "exited" => exitStatus' = 2
        /\ UNCHANGED <<env, bound, answered, clock, touched, nextCheck, progress>>
    BY <1>1 DEF Gate, Exit, timers
  <2>2. ProcessTypeOK'
    BY <2>1 DEF ProcessTypeOK, ProcessPhases
  <2>3. BoundAsAsked'
    BY <2>1 DEF BoundAsAsked, ProviderModeResolves, Readable, Set
  <2>4. AnswersAreBound'
    BY <2>1 DEF AnswersAreBound
  <2>5. WatchdogKeepsUp'
    BY <2>1 DEF WatchdogKeepsUp, Started
  <2>6. QED
    BY <2>2, <2>3, <2>4, <2>5
<1>2. CASE Bind
  <2>1. CASE phase' = "exited" /\ exitStatus' = 2
    <3>1. UNCHANGED <<env, bound, answered, clock, touched, nextCheck, progress>>
      BY <1>2, <2>1 DEF Bind
    <3>2. ProcessTypeOK'
      BY <2>1, <3>1 DEF ProcessTypeOK, ProcessPhases
    <3>3. BoundAsAsked' /\ AnswersAreBound'
      BY <2>1, <3>1 DEF BoundAsAsked, AnswersAreBound
    <3>4. WatchdogKeepsUp'
      BY <2>1, <3>1 DEF WatchdogKeepsUp, Started
    <3>5. QED
      BY <3>2, <3>3, <3>4
  <2>2. CASE phase' = "connect" /\ exitStatus' = exitStatus
    <3>1. /\ bound' = [sec |-> Providers.sec, storage |-> Providers.storage,
                       llm |-> StructuredLlm]
          /\ touched' = clock /\ progress' = clock /\ nextCheck' = clock + 1
          /\ UNCHANGED <<env, answered, clock>> /\ phase = "bind" /\ ProviderModeResolves
      BY <1>2, <2>2 DEF Bind, Exit, BoundAsAsked
    <3>2. \/ Providers = [sec |-> "fixture", storage |-> "disk"]
          \/ Providers = [sec |-> "live", storage |-> "disk"]
          \/ /\ Providers = [sec |-> "mock", storage |-> "memory"]
             /\ ~Set("fixture") /\ ~Set("live")
      BY DEF Providers
    <3>3. /\ StructuredLlm \in {"none", "mock"}
          /\ StructuredLlm = "mock" => env.llm = "set" /\ env.queue = "extraction"
      BY DEF StructuredLlm, Set
    <3>4. /\ Providers.sec \in {"mock", "live", "fixture"}
          /\ Providers.storage \in {"memory", "disk"}
          /\ Providers.sec \in {"live", "fixture"} => Providers.storage = "disk"
          /\ Providers.sec = "mock" => ~Set("fixture") /\ ~Set("live")
      BY <3>2
    <3>5. ~Set("fixture") /\ ~Set("live") =>
            env.mock = "set" /\ env.live = "unset" /\ env.fixture = "unset"
      <4>1. env.live \in Flag /\ env.fixture \in Flag
        BY DEF ProcessTypeOK
      <4>2. ~Set("fixture") /\ ~Set("live") => Set("mock")
        BY <3>1 DEF ProviderModeResolves, Modes
      <4>3. env["live"] # "typo" /\ env["fixture"] # "typo"
        BY <3>1 DEF ProviderModeResolves, Readable, Modes
      <4>4. QED
        BY <4>1, <4>2, <4>3 DEF Set, Flag
    <3>6. ProcessTypeOK'
      BY <2>2, <3>1, <3>3, <3>4 DEF ProcessTypeOK, ProcessPhases
    <3>7. BoundAsAsked'
      BY <2>2, <3>1, <3>3, <3>4, <3>5 DEF BoundAsAsked
    <3>8. AnswersAreBound'
      BY <2>2, <3>1 DEF AnswersAreBound
    <3>9. WatchdogKeepsUp'
      BY <2>2, <3>1, ProcessAssumption DEF ProcessTypeOK, WatchdogKeepsUp, Started
    <3>10. QED
      BY <3>6, <3>7, <3>8, <3>9
  <2>3. QED
    BY <1>2, <2>1, <2>2 DEF Bind, Exit
<1>3. CASE Connect
  <2>1. /\ phase = "connect" /\ phase' \in {"loop", "exited"} /\ exitStatus' \in {exitStatus, 2}
        /\ phase' = "exited" => exitStatus' = 2
        /\ phase' = "loop" => exitStatus' = exitStatus
        /\ UNCHANGED <<env, bound, answered, clock, touched, nextCheck, progress>>
    BY <1>3 DEF Connect, Exit, timers
  <2>2. ProcessTypeOK'
    BY <2>1 DEF ProcessTypeOK, ProcessPhases
  <2>3. BoundAsAsked' /\ AnswersAreBound'
    BY <2>1 DEF BoundAsAsked, AnswersAreBound
  <2>4. WatchdogKeepsUp'
    BY <2>1 DEF WatchdogKeepsUp, Started
  <2>5. QED
    BY <2>2, <2>3, <2>4
<1>4. QED
  BY <1>1, <1>2, <1>3

(* The claim loop and the two threads keep the invariant.                  *)
LEMMA LoopAndThreadsInv ==
  ASSUME ProcessInv,
         \/ DatabaseFails \/ Turn \/ ClaimNothing \/ RefuseJob \/ StoreAnswer
         \/ \E permanent \in BOOLEAN : FinishJob(permanent)
         \/ WatchdogCheck \/ ProcessTick \/ RequestStop
         \/ \E kind \in Handlers : ClaimJob(kind)
         \/ \E outcome \in {"renewed", "lost", "hung"} : ThreadBeat(outcome)
  PROVE  ProcessInv'
<1> USE DEF ProcessInv
<1>1. /\ UNCHANGED <<env, bound>> /\ Started
      /\ phase' \in ProcessPhases \ {"gate", "bind"}
  BY DEF DatabaseFails, Turn, ClaimNothing, RefuseJob, StoreAnswer, FinishJob, WatchdogCheck,
         ProcessTick, RequestStop, ClaimJob, ThreadBeat, Handlers, Exit, Started, ProcessPhases,
         ProcessTypeOK, timers
<1>2. /\ \/ exitStatus' \in {exitStatus, 0}
         \/ exitStatus' = 1 /\ phase' \in {"exited", "killed"}
      /\ phase' = "killed" => clock - touched > MaxAge /\ UNCHANGED <<clock, touched, progress>>
  <2>1. CASE WatchdogCheck
    <3>1. clock - touched <= MaxAge \/ clock - touched > MaxAge
      BY ProcessAssumption DEF ProcessTypeOK
    <3>2. QED
      BY <1>1, <2>1, <3>1 DEF WatchdogCheck, Started
  <2>2. CASE DatabaseFails \/ Turn \/ ClaimNothing
    BY <1>1, <2>2 DEF DatabaseFails, Turn, ClaimNothing, Exit, Started
  <2>3. CASE \/ RefuseJob \/ StoreAnswer \/ ProcessTick \/ RequestStop
             \/ \E permanent \in BOOLEAN : FinishJob(permanent)
             \/ \E outcome \in {"renewed", "lost", "hung"} : ThreadBeat(outcome)
    BY <1>1, <2>3
    DEF RefuseJob, StoreAnswer, ProcessTick, RequestStop, FinishJob, ThreadBeat, Started
  <2>4. CASE \E kind \in Handlers : ClaimJob(kind)
    BY <2>4 DEF ClaimJob, Handlers
  <2>5. QED
    BY <2>1, <2>2, <2>3, <2>4
<1>3. /\ \/ touched' = touched /\ progress' = progress
         \/ touched' = clock /\ progress' = clock
      /\ \/ clock' = clock /\ nextCheck' = nextCheck
         \/ /\ clock' = clock + 1 /\ nextCheck' = nextCheck /\ clock < nextCheck
            /\ touched' = touched
         \/ /\ clock' = clock /\ nextCheck' = clock + 1 /\ clock - touched <= MaxAge
            /\ touched' = touched
  <2>1. CASE \/ DatabaseFails \/ Turn \/ ClaimNothing \/ RefuseJob \/ StoreAnswer
             \/ (\E permanent \in BOOLEAN : FinishJob(permanent)) \/ RequestStop
    BY <2>1 DEF DatabaseFails, Turn, ClaimNothing, RefuseJob, StoreAnswer, FinishJob, RequestStop,
                LoopTouch, timers
  <2>2. CASE WatchdogCheck \/ ProcessTick
    BY <2>2 DEF WatchdogCheck, ProcessTick
  <2>3. CASE \/ \E kind \in Handlers : ClaimJob(kind)
             \/ \E outcome \in {"renewed", "lost", "hung"} : ThreadBeat(outcome)
    BY <2>3 DEF ClaimJob, ThreadBeat, BeatTouch
  <2>4. QED
    BY <2>1, <2>2, <2>3
<1>4. exitStatus = 0
  BY <1>1 DEF WatchdogKeepsUp, Started
<1>5. ProcessTypeOK'
  BY <1>1, <1>2, <1>3, <1>4 DEF ProcessTypeOK
<1>6. BoundAsAsked'
  BY <1>1 DEF BoundAsAsked
<1>7. AnswersAreBound'
  <2>1. \/ answered' = answered
        \/ answered' = answered \cup {bound.sec}
        \/ answered' = answered \cup {bound.llm}
        \/ answered' = answered \cup {"discarded"}
    BY DEF DatabaseFails, Turn, ClaimNothing, RefuseJob, StoreAnswer, FinishJob, WatchdogCheck,
           ProcessTick, RequestStop, ClaimJob, ThreadBeat
  <2>2. QED
    BY <1>1, <2>1 DEF AnswersAreBound
<1>8. WatchdogKeepsUp'
  <2>1. /\ clock \in Nat /\ touched \in Nat /\ nextCheck \in Nat /\ progress \in Nat
        /\ touched = progress /\ progress <= clock /\ clock <= nextCheck
        /\ nextCheck - progress <= MaxAge + 1 /\ MaxAge \in Nat
    BY <1>1, ProcessAssumption DEF ProcessTypeOK, WatchdogKeepsUp
  <2>2. touched' = progress' /\ touched' \in Nat
    BY <1>3, <2>1
  <2>3. progress' <= clock' /\ clock' <= nextCheck' /\ nextCheck' - progress' <= MaxAge + 1
    BY <1>3, <2>1, <2>2
  <2>4. /\ exitStatus' # 0 => phase' \in {"exited", "killed"}
        /\ phase' = "killed" => clock' - progress' > MaxAge
    BY <1>2, <1>4, <2>1
  <2>5. QED
    BY <2>2, <2>3, <2>4 DEF WatchdogKeepsUp
<1>9. QED
  BY <1>5, <1>6, <1>7, <1>8

(* A worker process is honest about where its output comes from and about  *)
(* its health, under every configuration and for every timing of database, *)
(* handlers, beats and signals (run_entry, LivenessWatchdog).              *)
THEOREM ProcessSpecHonest == ProcessSpec => []ProcessIsHonest
<1>1. ProcessInit => ProcessInv
  BY ProcessAssumption
  DEF ProcessInit, ProcessInv, ProcessTypeOK, ProcessPhases, BoundAsAsked, AnswersAreBound,
      WatchdogKeepsUp, Started, Unbound
<1>2. ProcessInv /\ [ProcessNext]_processVars => ProcessInv'
  <2> SUFFICES ASSUME ProcessInv, [ProcessNext]_processVars PROVE ProcessInv'
    OBVIOUS
  <2>1. CASE UNCHANGED processVars
    BY <2>1
    DEF processVars, ProcessInv, ProcessTypeOK, BoundAsAsked, AnswersAreBound,
        WatchdogKeepsUp, Started, ProviderModeResolves, Readable, Set
  <2>2. QED
    BY <2>1, GatesInv, LoopAndThreadsInv DEF ProcessNext
<1>3. QED
  BY <1>1, <1>2, ProcessInvSuffices, PTL DEF ProcessSpec

(* -------------------------- traces and streams --------------------------- *)
TraceRows == [status : {"queued", "succeeded", "failed"}, events : Nat, claims : BOOLEAN]

\* The shape of the run, its readers and its stream.
TraceTypeOK ==
  /\ traceRow \in TraceRows
  /\ reading \in [pc : {"idle", "run", "probe", "events", "claims"}, view : TraceRows,
                  trace : TraceRows, high : Nat]
  /\ stream \in [pc : {"closed", "sending", "ended"}, after : Nat, high : Nat, page : Nat,
                 late : BOOLEAN]
  /\ got \in Seq(Nat)

\* What a trace request has put together so far is of the one state its
\* snapshot shows.
ReadingFollowsView ==
  /\ reading.view \in {QueuedRun, traceRow}
  /\ reading.trace.claims = FALSE
  /\ reading.pc = "run" => reading.trace.events = 0
  /\ reading.pc \in {"probe", "events", "claims"} => reading.trace.status = reading.view.status
  /\ reading.pc = "probe" => reading.trace.events = 0
  /\ reading.pc = "events" => /\ reading.high = reading.view.events
                              /\ reading.trace.events <= reading.high
  /\ reading.pc = "claims" => reading.trace.events = reading.view.events

\* A stream continues where the client's events end and goes no further than
\* the events there were when it was opened.
StreamFollowsClient ==
  stream.pc # "closed" =>
    /\ stream.after = Len(got) /\ stream.page <= stream.high /\ stream.high <= traceRow.events
    /\ stream.late => traceRow # QueuedRun /\ stream.high = traceRow.events
    /\ stream.pc = "ended" => stream.high <= stream.after

TraceInv ==
  TraceTypeOK /\ ReadingFollowsView /\ StreamFollowsClient /\ TraceIsWhole /\ ReplayIsExact

(* A page ends within the high water mark (_event_rows).                   *)
LEMMA PageEndBounds ==
  ASSUME NEW after \in Nat, NEW high \in Nat
  PROVE  /\ PageEnd(after, high) \in Nat /\ PageEnd(after, high) <= high
  BY TraceAssumption DEF PageEnd

(* The pipeline's one commit: whoever read the queued run read a state     *)
(* that was there, and the events a stream may replay only grow.           *)
LEMMA CommitTraceInv ==
  ASSUME TraceInv, CommitTrace
  PROVE  TraceInv'
<1> USE DEF TraceInv
<1>1. /\ traceRow = QueuedRun /\ traceRow' \in TraceRows /\ traceRow' # QueuedRun
      /\ UNCHANGED <<reading, served, stream, got>>
  <2>1. PICK n \in TraceLengths :
          \/ traceRow' = [status |-> "succeeded", events |-> n, claims |-> TRUE]
          \/ traceRow' = [status |-> "failed", events |-> 1, claims |-> FALSE]
    BY DEF CommitTrace
  <2>2. n \in Nat
    BY TraceAssumption
  <2>3. traceRow' \in TraceRows
    <3>1. CASE traceRow' = [status |-> "succeeded", events |-> n, claims |-> TRUE]
      BY <2>2, <3>1 DEF TraceRows
    <3>2. CASE traceRow' = [status |-> "failed", events |-> 1, claims |-> FALSE]
      <4>1. PICK one \in Nat : one = 1
        OBVIOUS
      <4>2. [status |-> "failed", events |-> one, claims |-> FALSE] \in TraceRows
        BY DEF TraceRows
      <4>3. QED
        BY <3>2, <4>1, <4>2
    <3>3. QED
      BY <2>1, <3>1, <3>2
  <2>4. traceRow'.status # QueuedRun.status
    BY <2>1 DEF QueuedRun
  <2>5. QED
    BY <2>3, <2>4 DEF CommitTrace
<1>2. traceRow.events = 0 /\ traceRow'.events \in Nat
  BY <1>1 DEF QueuedRun, TraceRows
<1>3. TraceTypeOK'
  BY <1>1 DEF TraceTypeOK
<1>4. ReadingFollowsView'
  BY <1>1 DEF ReadingFollowsView
<1>5. StreamFollowsClient'
  BY <1>1, <1>2 DEF StreamFollowsClient, TraceTypeOK
<1>6. TraceIsWhole'
  BY <1>1 DEF TraceIsWhole
<1>7. ReplayIsExact'
  <2>1. Len(got) \in Nat
    BY LenProperties DEF TraceTypeOK
  <2>2. QED
    BY <1>1, <1>2, <2>1 DEF ReplayIsExact, StreamFollowsClient
<1>8. QED
  BY <1>3, <1>4, <1>5, <1>6, <1>7

(* A trace request reads one snapshot from its first statement to its last *)
(* (tenant_connection(snapshot_read=True), get_retrieval_run).             *)
LEMMA TraceRequestInv ==
  ASSUME TraceInv, OpenTrace \/ ReadRun \/ ProbeEvents \/ ReadEvents \/ ServeTrace
  PROVE  TraceInv'
<1> USE DEF TraceInv
<1>1. UNCHANGED <<traceRow, stream, got>>
  BY DEF OpenTrace, ReadRun, ProbeEvents, ReadEvents, ServeTrace
<1>2. /\ NoRead.pc = "idle" /\ NoRead.view = QueuedRun /\ NoRead.trace = QueuedRun
      /\ QueuedRun \in TraceRows /\ QueuedRun.claims = FALSE /\ QueuedRun.events = 0
      /\ NoRead \in [pc : {"idle", "run", "probe", "events", "claims"}, view : TraceRows,
                     trace : TraceRows, high : Nat]
  BY DEF NoRead, QueuedRun, TraceRows
<1>3. StreamFollowsClient' /\ ReplayIsExact'
  BY <1>1 DEF StreamFollowsClient, ReplayIsExact
<1>4. ASSUME UNCHANGED served, TraceTypeOK', ReadingFollowsView'
      PROVE  TraceInv'
  BY <1>1, <1>3, <1>4 DEF TraceIsWhole
<1>5. CASE OpenTrace
  <2>1. /\ reading' = [NoRead EXCEPT !.pc = "run", !.view = traceRow] /\ UNCHANGED served
    BY <1>5 DEF OpenTrace
  <2>2. TraceTypeOK'
    BY <1>1, <1>2, <2>1 DEF TraceTypeOK
  <2>3. ReadingFollowsView'
    BY <1>1, <1>2, <2>1 DEF ReadingFollowsView, TraceTypeOK
  <2>4. QED
    BY <1>4, <2>1, <2>2, <2>3
<1>6. CASE ReadRun
  <2>1. /\ reading.pc = "run" /\ UNCHANGED served
        /\ reading' = [reading EXCEPT !.pc = "probe", !.trace.status = reading.view.status]
    BY <1>6 DEF ReadRun, Snapshot
  <2>2. /\ reading'.pc = "probe" /\ reading'.view = reading.view /\ reading'.high = reading.high
        /\ reading'.trace = [reading.trace EXCEPT !.status = reading.view.status]
        /\ reading' \in [pc : {"idle", "run", "probe", "events", "claims"}, view : TraceRows,
                         trace : TraceRows, high : Nat]
    BY <2>1 DEF TraceTypeOK, TraceRows
  <2>3. /\ reading'.trace.status = reading.view.status
        /\ reading'.trace.events = reading.trace.events
        /\ reading'.trace.claims = reading.trace.claims
    BY <2>2 DEF TraceTypeOK, TraceRows
  <2>4. TraceTypeOK'
    BY <1>1, <2>2 DEF TraceTypeOK
  <2>5. ReadingFollowsView'
    BY <1>1, <2>1, <2>2, <2>3 DEF ReadingFollowsView
  <2>6. QED
    BY <1>4, <2>1, <2>4, <2>5
<1>7. CASE ProbeEvents
  <2>1. reading.pc = "probe" /\ UNCHANGED served
    BY <1>7 DEF ProbeEvents
  <2>2. CASE reading' = NoRead
    <3>1. TraceTypeOK'
      BY <1>1, <1>2, <2>2 DEF TraceTypeOK
    <3>2. ReadingFollowsView'
      BY <1>1, <1>2, <2>2 DEF ReadingFollowsView
    <3>3. QED
      BY <1>4, <2>1, <3>1, <3>2
  <2>3. CASE reading' = [reading EXCEPT !.pc = "events", !.high = reading.view.events]
    <3>1. TraceTypeOK'
      BY <1>1, <2>3 DEF TraceTypeOK, TraceRows
    <3>2. ReadingFollowsView'
      BY <1>1, <2>1, <2>3 DEF ReadingFollowsView, TraceTypeOK, TraceRows
    <3>3. QED
      BY <1>4, <2>1, <3>1, <3>2
  <2>4. QED
    BY <1>7, <2>2, <2>3 DEF ProbeEvents, Snapshot
<1>8. CASE ReadEvents
  <2>1. reading.pc = "events" /\ UNCHANGED served
    BY <1>8 DEF ReadEvents
  <2>2. reading.trace.events \in Nat /\ reading.high \in Nat /\ reading.trace \in TraceRows
    BY DEF TraceTypeOK, TraceRows
  <2>3. CASE reading.trace.events < reading.high
    <3> DEFINE end == PageEnd(reading.trace.events, reading.high)
    <3>1. end \in Nat /\ end <= reading.high
      BY <2>2, PageEndBounds
    <3>2. reading' = [reading EXCEPT !.trace = [reading.trace EXCEPT !.events = end]]
      BY <1>8, <2>3 DEF ReadEvents
    <3> HIDE DEF end
    <3>3. /\ reading'.trace.events = end /\ reading'.trace.status = reading.trace.status
          /\ reading'.trace.claims = reading.trace.claims /\ reading'.pc = reading.pc
          /\ reading'.view = reading.view /\ reading'.high = reading.high
          /\ reading'.trace \in TraceRows
      BY <2>2, <3>1, <3>2 DEF TraceTypeOK, TraceRows
    <3>4. TraceTypeOK'
      BY <1>1, <3>1, <3>2 DEF TraceTypeOK, TraceRows
    <3>5. ReadingFollowsView'
      BY <1>1, <2>1, <3>1, <3>3 DEF ReadingFollowsView
    <3>6. QED
      BY <1>4, <2>1, <3>4, <3>5
  <2>4. CASE ~(reading.trace.events < reading.high)
    <3>1. reading' = [reading EXCEPT !.pc = "claims"]
      BY <1>8, <2>4 DEF ReadEvents
    <3>2. TraceTypeOK'
      BY <1>1, <3>1 DEF TraceTypeOK
    <3>3. reading.trace.events = reading.view.events
      BY <2>1, <2>2, <2>4 DEF ReadingFollowsView
    <3>4. ReadingFollowsView'
      BY <1>1, <2>1, <3>1, <3>3 DEF ReadingFollowsView, TraceTypeOK
    <3>5. QED
      BY <1>4, <2>1, <3>2, <3>4
  <2>5. QED
    BY <2>3, <2>4
<1>9. CASE ServeTrace
  <2>1. /\ reading.pc = "claims" /\ reading' = NoRead
        /\ served' = served \cup {[reading.trace EXCEPT !.claims = reading.view.claims]}
    BY <1>9 DEF ServeTrace, Snapshot
  <2>2. TraceTypeOK'
    BY <1>1, <1>2, <2>1 DEF TraceTypeOK
  <2>3. ReadingFollowsView'
    BY <1>1, <1>2, <2>1 DEF ReadingFollowsView
  <2>4. [reading.trace EXCEPT !.claims = reading.view.claims] = reading.view
    <3>1. /\ reading.trace \in TraceRows /\ reading.view \in TraceRows
          /\ reading.trace.status = reading.view.status
          /\ reading.trace.events = reading.view.events
      BY <2>1 DEF TraceTypeOK, ReadingFollowsView
    <3>2. QED
      BY <3>1 DEF TraceRows
  <2>5. TraceIsWhole'
    BY <1>1, <2>1, <2>4 DEF TraceIsWhole, ReadingFollowsView
  <2>6. QED
    BY <1>3, <2>2, <2>3, <2>5
<1>10. QED
  BY <1>5, <1>6, <1>7, <1>8, <1>9

(* A stream sends the next event the client lacks, up to its high water    *)
(* mark, over any number of cut connections (_sse_stream).                 *)
LEMMA StreamInv ==
  ASSUME TraceInv, OpenStream \/ SendRow \/ TurnPage \/ DropStream
  PROVE  TraceInv'
<1> USE DEF TraceInv
<1>1. UNCHANGED <<traceRow, reading, served>>
  BY DEF OpenStream, SendRow, TurnPage, DropStream
<1>2. ReadingFollowsView' /\ TraceIsWhole'
  BY <1>1 DEF ReadingFollowsView, TraceIsWhole
<1>3. Len(got) \in Nat /\ DOMAIN got = 1 .. Len(got) /\ traceRow.events \in Nat
  BY LenProperties DEF TraceTypeOK, TraceRows
<1>4. CASE OpenStream
  <2>1. /\ stream' = [pc |-> "sending", after |-> Len(got), high |-> traceRow.events,
                      page |-> PageEnd(Len(got), traceRow.events),
                      late |-> traceRow # QueuedRun]
        /\ UNCHANGED got
    BY <1>4 DEF OpenStream, LastEventId
  <2>2. /\ PageEnd(Len(got), traceRow.events) \in Nat
        /\ PageEnd(Len(got), traceRow.events) <= traceRow.events
    BY <1>3, PageEndBounds
  <2>3. TraceTypeOK'
    BY <1>1, <1>3, <2>1, <2>2 DEF TraceTypeOK
  <2>4. StreamFollowsClient'
    <3>1. /\ stream'.after = Len(got) /\ stream'.high = traceRow.events
          /\ stream'.page <= stream'.high /\ stream'.pc = "sending"
      BY <2>1, <2>2
    <3>2. stream'.late => traceRow # QueuedRun
      BY <2>1
    <3>3. QED
      BY <1>1, <1>3, <2>1, <3>1, <3>2 DEF StreamFollowsClient
  <2>5. ReplayIsExact'
    BY <1>1, <2>1 DEF ReplayIsExact
  <2>6. QED
    BY <1>2, <2>3, <2>4, <2>5
<1>5. CASE SendRow
  <2>1. /\ stream.pc = "sending" /\ stream.after < stream.page
        /\ got' = Append(got, stream.after + 1)
        /\ stream' = [stream EXCEPT !.after = stream.after + 1]
    BY <1>5 DEF SendRow
  <2>2. /\ stream.after = Len(got) /\ stream.page <= stream.high
        /\ stream.high <= traceRow.events /\ stream.high \in Nat /\ stream.page \in Nat
    BY <2>1 DEF StreamFollowsClient, TraceTypeOK
  <2>3. /\ got' \in Seq(Nat) /\ Len(got') = Len(got) + 1 /\ DOMAIN got' = 1 .. Len(got) + 1
        /\ \A i \in 1 .. Len(got) : got'[i] = got[i]
        /\ got'[Len(got) + 1] = Len(got) + 1
    BY <1>3, <2>1, <2>2, AppendProperties, LenProperties DEF TraceTypeOK
  <2>4. /\ stream'.pc = "sending" /\ stream'.after = Len(got) + 1 /\ stream'.page = stream.page
        /\ stream'.high = stream.high /\ stream'.late = stream.late
    BY <2>1, <2>2 DEF TraceTypeOK
  <2>5. TraceTypeOK'
    BY <1>1, <2>1, <2>3 DEF TraceTypeOK
  <2>6. StreamFollowsClient'
    BY <1>1, <2>1, <2>2, <2>3, <2>4 DEF StreamFollowsClient
  <2>7. ReplayIsExact'
    <3>1. \A i \in DOMAIN got' : i \in 1 .. Len(got) \/ i = Len(got) + 1
      BY <1>3, <2>3
    <3>2. \A i \in DOMAIN got' : got'[i] = i
      BY <1>3, <2>3, <3>1 DEF ReplayIsExact
    <3>3. Len(got') <= traceRow'.events
      BY <1>1, <1>3, <2>1, <2>2, <2>3
    <3>4. QED
      BY <2>4, <3>2, <3>3 DEF ReplayIsExact
  <2>8. QED
    BY <1>2, <2>5, <2>6, <2>7
<1>6. CASE TurnPage
  <2>1. /\ stream.pc = "sending" /\ stream.after >= stream.page /\ UNCHANGED got
        /\ \/ stream.after >= stream.high /\ stream' = [stream EXCEPT !.pc = "ended"]
           \/ stream' = [stream EXCEPT !.page = PageEnd(stream.after, stream.high)]
    BY <1>6 DEF TurnPage, ReplayOver
  <2>2. /\ PageEnd(stream.after, stream.high) \in Nat
        /\ PageEnd(stream.after, stream.high) <= stream.high
    BY PageEndBounds DEF TraceTypeOK
  <2>3. TraceTypeOK'
    BY <1>1, <2>1, <2>2 DEF TraceTypeOK
  <2>4. StreamFollowsClient'
    BY <1>1, <2>1, <2>2 DEF StreamFollowsClient, TraceTypeOK
  <2>5. ReplayIsExact'
    <3>1. (\A i \in DOMAIN got' : got'[i] = i) /\ Len(got') <= traceRow'.events
      BY <1>1, <2>1 DEF ReplayIsExact
    <3>2. stream'.pc = "ended" /\ stream'.late => Len(got') = traceRow'.events
      BY <1>1, <1>3, <2>1, <2>4, <3>1 DEF StreamFollowsClient, TraceTypeOK
    <3>3. QED
      BY <3>1, <3>2 DEF ReplayIsExact
  <2>6. QED
    BY <1>2, <2>3, <2>4, <2>5
<1>7. CASE DropStream
  <2>1. stream' = Shut /\ UNCHANGED got
    BY <1>7 DEF DropStream
  <2>2. TraceTypeOK'
    BY <1>1, <2>1 DEF TraceTypeOK, Shut
  <2>3. StreamFollowsClient' /\ ReplayIsExact'
    BY <1>1, <2>1 DEF StreamFollowsClient, ReplayIsExact, Shut
  <2>4. QED
    BY <1>2, <2>2, <2>3
<1>8. QED
  BY <1>4, <1>5, <1>6, <1>7

(* A trace is served whole, and a replay is exact, for every length of     *)
(* trace, page size and number of connections, whenever the pipeline       *)
(* commits between two statements (get_retrieval_run, _sse_stream).        *)
THEOREM TraceSpecSound == TraceSpec => [](TraceIsWhole /\ ReplayIsExact)
<1>1. TraceInit => TraceInv
  <2> SUFFICES ASSUME TraceInit PROVE TraceInv
    OBVIOUS
  <2>1. TraceTypeOK
    BY EmptySeq DEF TraceInit, TraceTypeOK, TraceRows, NoRead, QueuedRun, Shut
  <2>2. Len(got) = 0 /\ DOMAIN got = {}
    BY EmptySeq DEF TraceInit
  <2>3. ReadingFollowsView /\ StreamFollowsClient /\ TraceIsWhole /\ ReplayIsExact
    BY <2>2
    DEF TraceInit, ReadingFollowsView, StreamFollowsClient, TraceIsWhole, ReplayIsExact,
        NoRead, QueuedRun, Shut
  <2>4. QED
    BY <2>1, <2>3 DEF TraceInv
<1>2. TraceInv /\ [TraceNext]_traceVars => TraceInv'
  <2> SUFFICES ASSUME TraceInv, [TraceNext]_traceVars PROVE TraceInv'
    OBVIOUS
  <2>1. CASE UNCHANGED traceVars
    BY <2>1
    DEF traceVars, TraceInv, TraceTypeOK, ReadingFollowsView, StreamFollowsClient,
        TraceIsWhole, ReplayIsExact
  <2>2. QED
    BY <2>1, CommitTraceInv, TraceRequestInv, StreamInv DEF TraceNext
<1>3. TraceInv => TraceIsWhole /\ ReplayIsExact
  BY DEF TraceInv
<1>4. QED
  BY <1>1, <1>2, <1>3, PTL DEF TraceSpec

(* ------------------------------- listings -------------------------------- *)
(* A bounded set of naturals has a greatest element, which Max names.       *)
LEMMA MaxOfKeys ==
  ASSUME NEW S, S \subseteq 0 .. MaxKey, S # {}
  PROVE  Max(S) \in S /\ \A y \in S : y <= Max(S)
<1>0. MaxKey \in Nat
  BY PagesAssumption
<1>1. PICK T : T = {MaxKey - x : x \in S}
  OBVIOUS
<1>2. T \subseteq Nat /\ T # {}
  <2>1. \A x \in S : MaxKey - x \in Nat
    BY <1>0
  <2> QED BY <1>1, <2>1
<1>3. PICK t \in T : \A y \in T : t <= y
  BY <1>2, LeastNatural
<1>4. PICK x \in S : t = MaxKey - x
  BY <1>1
<1>5. \A y \in S : x >= y
  <2> SUFFICES ASSUME NEW y \in S PROVE x >= y
    OBVIOUS
  <2>1. MaxKey - x <= MaxKey - y
    BY <1>1, <1>3, <1>4
  <2> QED BY <1>0, <2>1
<1>6. Max(S) \in S /\ \A y \in S : Max(S) >= y
  BY <1>5, Zenon DEF Max
<1> QED BY <1>0, <1>6

(* A set of keys has a least element, which Min names.                       *)
LEMMA MinOfKeys ==
  ASSUME NEW S, S \subseteq 0 .. MaxKey, S # {}
  PROVE  Min(S) \in S /\ \A y \in S : Min(S) <= y
<1>1. S \subseteq Nat
  BY PagesAssumption
<1> QED BY <1>1, MinOfNaturals

\* The keys E, n of them, in ascending or descending order.
KeysInOrder(s, E, n, asc) ==
  /\ n \in Nat /\ s \in [1 .. n -> E] /\ \A x \in E : \E i \in 1 .. n : s[i] = x
  /\ \A i, j \in 1 .. n : i < j => IF asc THEN s[i] < s[j] ELSE s[i] > s[j]

(* ORDER BY key, or key DESC.                                               *)
LEMMA SortedKeys ==
  ASSUME NEW E \in SUBSET (1 .. MaxKey), NEW asc \in BOOLEAN,
         NEW s, s = [i \in 1 .. Cardinality(E) |-> CHOOSE x \in E :
                       Cardinality({y \in E : IF asc THEN y < x ELSE y > x}) = i - 1]
  PROVE  KeysInOrder(s, E, Cardinality(E), asc)
<1>1. IsFiniteSet(E) /\ Cardinality(E) \in Nat
  <2>1. 1 \in Int /\ MaxKey \in Int
    BY PagesAssumption
  <2>2. IsFiniteSet(1 .. MaxKey)
    BY <2>1, FS_Interval
  <2> QED BY <2>2, FS_Subset, FS_CardinalityType
<1>2. PICK n \in Nat : n = Cardinality(E)
  BY <1>1
<1>3. PICK R : R = {p \in E \X E : IF asc THEN p[1] < p[2] ELSE p[1] > p[2]}
  OBVIOUS
<1>4. \A x, y \in E : <<x, y>> \in R <=> IF asc THEN x < y ELSE x > y
  BY <1>3
<1>5. OrdersStrictly(R, E)
  <2>1. \A x \in E : x \in Int
    BY PagesAssumption
  <2> QED BY <1>4, <2>1 DEF OrdersStrictly
<1>6. s = [i \in 1 .. n |-> CHOOSE x \in E :
             Cardinality({y \in E : IF asc THEN y < x ELSE y > x}) = i - 1]
  BY <1>2
<1>7. PICK B : B = Before(R, E)
  OBVIOUS
<1>8. \A x \in E : {y \in E : IF asc THEN y < x ELSE y > x} = B[x]
  BY <1>4, <1>7 DEF Before
<1>9. ASSUME NEW i \in 1 .. n, NEW x \in E, Cardinality(B[x]) = i - 1
      PROVE  s[i] \in E /\ Cardinality(B[s[i]]) = i - 1
  <2>1. Cardinality({y \in E : IF asc THEN y < x ELSE y > x}) = i - 1
    BY <1>8, <1>9
  <2>2. s[i] = CHOOSE z \in E : Cardinality({y \in E : IF asc THEN y < z ELSE y > z}) = i - 1
    BY <1>6
  <2>3. s[i] \in E /\ Cardinality({y \in E : IF asc THEN y < s[i] ELSE y > s[i]}) = i - 1
    BY <2>1, <2>2, Zenon
  <2> QED BY <1>8, <2>3
<1>10. PlacedBy(s, B, E)
  <2>1. \A i \in 1 .. n : \A x \in E :
          Cardinality(B[x]) = i - 1 => s[i] \in E /\ Cardinality(B[s[i]]) = i - 1
    BY <1>9
  <2>2. s = [i \in 1 .. n |-> s[i]]
    BY <1>6
  <2> QED BY <1>2, <2>1, <2>2 DEF PlacedBy
<1>11. ListsInOrder(s, E, R)
  BY <1>1, <1>5, <1>7, <1>10, RanksOrder
<1> QED BY <1>1, <1>4, <1>11 DEF ListsInOrder, KeysInOrder

\* A cursor continues the walk from the end of the page it was handed out with.
ContinuesFrom(q, N, scope, order, high) ==
  /\ q \in Cursors /\ q.scope = scope /\ q.order = order /\ q.high = high /\ q.anchor \in N
  /\ \A x \in N : IF Ascending(q, order) THEN x <= q.anchor ELSE q.anchor <= x

\* What the rows of a page are: the next of those that are left, in order.
AreNext(rows, E, asc, forward) ==
  /\ rows \in Seq(E)
  /\ \A r \in E \ Range(rows) : \A x \in Range(rows) : IF asc THEN x < r ELSE r < x
  /\ \A i, j \in 1 .. Len(rows) :
       i < j => IF asc = forward THEN rows[i] < rows[j] ELSE rows[i] > rows[j]

(* read_page shows the next rows of those that are left, in the listing's    *)
(* order whichever way it reads them, and all of them unless one more exists. *)
LEMMA RowsAreNext ==
  ASSUME NEW V \in SUBSET (1 .. MaxKey), NEW c, c = NoCursor \/ c \in Cursors,
         NEW size \in Nat \ {0}, NEW order \in {"asc", "desc"},
         NEW E, E = Remaining(V, c, order), NEW rows, rows = RowsShown(V, c, size, order)
  PROVE  /\ AreNext(rows, E, Ascending(c, order), ~Backwards(c))
         /\ ~Overflows(V, c, size, order) => Range(rows) = E
<1>1. PICK n, asc : n = Cardinality(E) /\ asc = Ascending(c, order)
  OBVIOUS
<1>2. asc \in BOOLEAN /\ E \in SUBSET (1 .. MaxKey)
  BY <1>1 DEF Ascending, Remaining
<1>3. PICK s : s = InOrder(E, asc)
  OBVIOUS
<1>4. KeysInOrder(s, E, n, asc)
  <2>1. s = [i \in 1 .. Cardinality(E) |-> CHOOSE x \in E :
               Cardinality({y \in E : IF asc THEN y < x ELSE y > x}) = i - 1]
    BY <1>3, Zenon DEF InOrder, SortedBy
  <2>2. KeysInOrder(s, E, Cardinality(E), asc)
    BY <1>2, <2>1, SortedKeys
  <2> QED BY <1>1, <2>2
<1>5. s \in Seq(E) /\ Len(s) = n /\ n \in Nat
  BY <1>4 DEF KeysInOrder
<1>6. PICK over, taken : /\ over = Overflows(V, c, size, order)
                         /\ taken = (IF over THEN SubSeq(s, 1, size) ELSE s)
  OBVIOUS
<1>7. rows = (IF Backwards(c) THEN Reverse(taken) ELSE taken) /\ over = (n > size)
  BY <1>1, <1>3, <1>6 DEF RowsShown, Overflows
<1>8. PICK k \in Nat : /\ k <= n /\ taken \in Seq(E) /\ Len(taken) = k
                       /\ \A i \in 1 .. k : taken[i] = s[i]
                       /\ ~over => k = n
  <2>1. CASE over
    <3>1. size <= n /\ taken = SubSeq(s, 1, size)
      <4>1. n > size
        BY <1>7, <2>1, Zenon
      <4>2. taken = SubSeq(s, 1, size)
        BY <1>6, <2>1, Zenon
      <4> QED BY <1>5, <4>1, <4>2
    <3>2. taken \in Seq(E) /\ Len(taken) = size /\ \A i \in 1 .. size : taken[i] = s[i]
      <4>1. 1 \in Int /\ size \in Int /\ \A i \in 1 .. size : s[i] \in E
        BY <1>5, <3>1
      <4>2. /\ SubSeq(s, 1, size) \in Seq(E)
            /\ Len(SubSeq(s, 1, size)) = IF 1 <= size THEN size - 1 + 1 ELSE 0
            /\ \A i \in 1 .. size - 1 + 1 : SubSeq(s, 1, size)[i] = s[1 + i - 1]
        BY <4>1, SubSeqProperties
      <4>3. size - 1 + 1 = size /\ 1 <= size /\ \A i \in 1 .. size : 1 + i - 1 = i
        OBVIOUS
      <4> QED BY <3>1, <4>2, <4>3
    <3> QED BY <2>1, <3>1, <3>2
  <2>2. CASE ~over
    BY <1>5, <1>6, <2>2
  <2>3. over \in BOOLEAN
    BY <1>6 DEF Overflows
  <2> QED BY <2>1, <2>2, <2>3
<1>9. /\ rows \in Seq(E) /\ Len(rows) = k
      /\ \A i \in 1 .. k : rows[i] = IF Backwards(c) THEN taken[k - i + 1] ELSE taken[i]
  <2>1. CASE Backwards(c)
    <3>1. rows = [i \in 1 .. k |-> taken[(k - i) + 1]]
      BY <1>7, <1>8, <2>1 DEF Reverse
    <3>2. \A i \in 1 .. k : (k - i) + 1 \in 1 .. k
      BY <1>8
    <3> QED BY <1>8, <2>1, <3>1, <3>2
  <2>2. CASE ~Backwards(c)
    BY <1>7, <1>8, <2>2
  <2> QED BY <2>1, <2>2
<1>10. Range(rows) = {s[i] : i \in 1 .. k}
  <2>1. Range(rows) = {rows[i] : i \in 1 .. k}
    BY <1>9 DEF Range
  <2>2. \A i \in 1 .. k : k - i + 1 \in 1 .. k /\ k - (k - i + 1) + 1 = i
    BY <1>8
  <2> QED BY <1>8, <1>9, <2>1, <2>2
<1>11. ASSUME NEW i \in 1 .. n, NEW j \in 1 .. n, i < j
       PROVE  /\ IF asc THEN s[i] < s[j] ELSE s[i] > s[j]
              /\ s[i] \in Int /\ s[j] \in Int
  <2>1. s[i] \in E /\ s[j] \in E
    BY <1>4 DEF KeysInOrder
  <2> QED BY <1>2, <1>4, <1>11, <2>1 DEF KeysInOrder
<1>12. ASSUME NEW r \in E \ Range(rows), NEW x \in Range(rows)
       PROVE  IF asc THEN x < r ELSE r < x
  <2>1. PICK i \in 1 .. k : x = s[i]
    BY <1>10
  <2>2. PICK j \in 1 .. n : r = s[j]
    BY <1>4 DEF KeysInOrder
  <2>3. j \notin 1 .. k
    BY <1>10, <2>2
  <2>4. i \in 1 .. n /\ i < j
    BY <1>5, <1>8, <2>3
  <2> QED BY <1>11, <2>1, <2>2, <2>4
<1>13. ASSUME NEW i \in 1 .. k, NEW j \in 1 .. k, i < j
       PROVE  IF asc = ~Backwards(c) THEN rows[i] < rows[j] ELSE rows[i] > rows[j]
  <2>1. CASE Backwards(c)
    <3>1. /\ k - i + 1 \in 1 .. k /\ k - j + 1 \in 1 .. k /\ k - j + 1 < k - i + 1
          /\ k - i + 1 \in 1 .. n /\ k - j + 1 \in 1 .. n
      BY <1>5, <1>8, <1>13
    <3>2. rows[i] = s[k - i + 1] /\ rows[j] = s[k - j + 1]
      BY <1>8, <1>9, <2>1, <3>1
    <3> QED BY <1>2, <1>11, <2>1, <3>1, <3>2
  <2>2. CASE ~Backwards(c)
    <3>1. i \in 1 .. n /\ j \in 1 .. n
      BY <1>5, <1>8
    <3>2. rows[i] = s[i] /\ rows[j] = s[j]
      BY <1>8, <1>9, <2>2
    <3> QED BY <1>2, <1>11, <1>13, <2>2, <3>1, <3>2
  <2> QED BY <2>1, <2>2
<1>14. ~over => Range(rows) = E
  <2>1. ASSUME k = n PROVE {s[i] : i \in 1 .. k} = E
    BY <1>4, <2>1 DEF KeysInOrder
  <2> QED BY <1>8, <1>10, <2>1
<1> QED BY <1>1, <1>6, <1>9, <1>12, <1>13, <1>14 DEF AreNext

\* What an answer says of the rows E that are left after cursor c.
AnswersFor(p, E, c, scope, order, high) ==
  /\ p.kind = "page" /\ Range(p.rows) \subseteq E
  /\ \A r \in E \ Range(p.rows) : \A x \in Range(p.rows) :
       IF Ascending(c, order) THEN x < r ELSE r < x
  /\ p.next = NoCursor \/ ContinuesFrom(p.next, Range(p.rows), scope, order, high)
  /\ p.prev = NoCursor \/ ContinuesFrom(p.prev, Range(p.rows), scope, order, high)
  /\ p.rows # <<>> /\ p.next = NoCursor => ~Backwards(c) /\ Range(p.rows) = E
  /\ p.complete => c = NoCursor /\ Range(p.rows) = E
  /\ c = NoCursor => p.prev = NoCursor
  /\ p.complete \in BOOLEAN

(* The cursors of an answer continue from its two ends, with the scope and the *)
(* high-water key of the walk; none is missing while rows are left.           *)
LEMMA PageAnswers ==
  ASSUME NEW V \in SUBSET (1 .. MaxKey), NEW c, c = NoCursor \/ c \in Cursors,
         NEW size \in Nat \ {0}, NEW order \in {"asc", "desc"},
         NEW scope \in [asOf : Nat, version : Nat],
         NEW p, p = ReadPage(V, c, scope, size, order)
  PROVE  AnswersFor(p, Remaining(V, c, order), c, scope, order, HighWater(V, c))
<1>1. PICK E, rows, over, high, asc :
        /\ E = Remaining(V, c, order) /\ rows = RowsShown(V, c, size, order)
        /\ over = Overflows(V, c, size, order) /\ high = HighWater(V, c)
        /\ asc = Ascending(c, order)
  OBVIOUS
<1>2. AreNext(rows, E, asc, ~Backwards(c)) /\ (~over => Range(rows) = E)
  BY <1>1, RowsAreNext
<1>3. E \subseteq 1 .. MaxKey /\ E \subseteq Int /\ E \subseteq Nat
  <2>1. MaxKey \in Nat
    BY PagesAssumption
  <2>2. E \subseteq 1 .. MaxKey
    BY <1>1 DEF Remaining
  <2> QED BY <2>1, <2>2
<1>4. high \in Nat
  <2>1. CASE c = NoCursor
    <3>1. V \cup {0} \subseteq 0 .. MaxKey /\ V \cup {0} # {}
      BY PagesAssumption
    <3>2. Max(V \cup {0}) \in 0 .. MaxKey
      BY <3>1, MaxOfKeys
    <3> QED BY <1>1, <2>1, <3>2, PagesAssumption DEF HighWater
  <2>2. CASE c # NoCursor
    BY <1>1, <2>2 DEF HighWater, Cursors
  <2> QED BY <2>1, <2>2
<1>5. PICK next, prev :
        /\ next = MakeCursor(rows, "after", HasMore("after", c, over), scope, order, size, high)
        /\ prev = MakeCursor(rows, "before", HasMore("before", c, over), scope, order, size, high)
  OBVIOUS
<1>6. p = [kind |-> "page", rows |-> rows, next |-> next, prev |-> prev,
           complete |-> c = NoCursor /\ ~over]
  BY <1>1, <1>5, Zenon DEF ReadPage
<1>7. /\ rows \in Seq(E)
      /\ \A i \in 1 .. Len(rows) : rows[i] \in Range(rows)
      /\ \A x \in Range(rows) : \E i \in 1 .. Len(rows) : x = rows[i]
      /\ Range(rows) \subseteq E
      /\ rows # <<>> => 1 \in 1 .. Len(rows) /\ Len(rows) \in 1 .. Len(rows)
  BY <1>2 DEF AreNext, Range
<1>16. rows # <<>> => /\ rows[1] \in Range(rows) /\ rows[1] \in Nat
                      /\ rows[Len(rows)] \in Range(rows) /\ rows[Len(rows)] \in Nat
  <2>1. \A x \in Range(rows) : x \in Nat
    BY <1>3, <1>7
  <2>2. rows # <<>> => rows[1] \in Range(rows) /\ rows[Len(rows)] \in Range(rows)
    BY <1>7
  <2> QED BY <2>1, <2>2
<1>8. ASSUME NEW i \in 1 .. Len(rows), NEW j \in 1 .. Len(rows), i <= j
      PROVE  IF order = "asc" THEN rows[i] <= rows[j] ELSE rows[j] <= rows[i]
  <2>1. rows[i] \in Int /\ rows[j] \in Int
    BY <1>3, <1>7
  <2>2. CASE i = j
    BY <2>1, <2>2
  <2>3. CASE i # j
    <3>1. i < j
      BY <1>7, <1>8, <2>3
    <3>2. IF asc = ~Backwards(c) THEN rows[i] < rows[j] ELSE rows[i] > rows[j]
      BY <1>2, <3>1 DEF AreNext
    <3>3. (asc = ~Backwards(c)) <=> order = "asc"
      BY <1>1 DEF Ascending, Backwards
    <3> QED BY <2>1, <3>2, <3>3
  <2> QED BY <2>2, <2>3
<1>9. next = NoCursor \/ ContinuesFrom(next, Range(rows), scope, order, high)
  <2>1. SUFFICES ASSUME next # NoCursor PROVE ContinuesFrom(next, Range(rows), scope, order, high)
    OBVIOUS
  <2>2. /\ rows # <<>>
        /\ next = [scope |-> scope, order |-> order, limit |-> size, seek |-> "after",
                   high |-> high, anchor |-> rows[Len(rows)]]
    BY <1>5, <2>1 DEF MakeCursor, Anchor
  <2>3. rows[Len(rows)] \in Range(rows) /\ rows[Len(rows)] \in Nat
    BY <1>16, <2>2
  <2>4. next \in Cursors
    BY <1>4, <2>2, <2>3 DEF Cursors
  <2>5. Ascending(next, order) <=> order = "asc"
    BY <2>1, <2>2 DEF Ascending, Backwards
  <2>6. ASSUME NEW x \in Range(rows)
        PROVE  IF order = "asc" THEN x <= rows[Len(rows)] ELSE rows[Len(rows)] <= x
    <3>1. PICK i \in 1 .. Len(rows) : x = rows[i]
      BY <1>7
    <3>2. i <= Len(rows) /\ Len(rows) \in 1 .. Len(rows)
      BY <1>7, <2>2
    <3> QED BY <1>8, <3>1, <3>2
  <2> QED BY <2>2, <2>3, <2>4, <2>5, <2>6 DEF ContinuesFrom
<1>10. prev = NoCursor \/ ContinuesFrom(prev, Range(rows), scope, order, high)
  <2>1. SUFFICES ASSUME prev # NoCursor PROVE ContinuesFrom(prev, Range(rows), scope, order, high)
    OBVIOUS
  <2>2. /\ rows # <<>>
        /\ prev = [scope |-> scope, order |-> order, limit |-> size, seek |-> "before",
                   high |-> high, anchor |-> rows[1]]
    BY <1>5, <2>1 DEF MakeCursor, Anchor
  <2>3. rows[1] \in Range(rows) /\ rows[1] \in Nat
    BY <1>16, <2>2
  <2>4. prev \in Cursors
    BY <1>4, <2>2, <2>3 DEF Cursors
  <2>5. Ascending(prev, order) <=> order # "asc"
    BY <2>1, <2>2 DEF Ascending, Backwards
  <2>6. ASSUME NEW x \in Range(rows)
        PROVE  IF order = "asc" THEN rows[1] <= x ELSE x <= rows[1]
    <3>1. PICK i \in 1 .. Len(rows) : x = rows[i]
      BY <1>7
    <3>2. 1 <= i /\ 1 \in 1 .. Len(rows)
      BY <1>7, <2>2
    <3> QED BY <1>8, <3>1, <3>2
  <2> QED BY <2>2, <2>3, <2>4, <2>5, <2>6 DEF ContinuesFrom
<1>11. over \in BOOLEAN
  BY <1>1 DEF Overflows
<1>12. rows # <<>> /\ next = NoCursor => ~Backwards(c) /\ ~over
  <2>1. SUFFICES ASSUME rows # <<>>, HasMore("after", c, over) PROVE next # NoCursor
    BY <1>11 DEF HasMore
  <2>2. next = [scope |-> scope, order |-> order, limit |-> size, seek |-> "after",
                high |-> high, anchor |-> rows[Len(rows)]]
    BY <1>5, <2>1 DEF MakeCursor, Anchor
  <2>3. rows[Len(rows)] \in Nat
    BY <1>16, <2>1
  <2>4. next \in Cursors
    BY <1>4, <2>2, <2>3 DEF Cursors
  <2> QED BY <2>4, PagesAssumption
<1>13. c = NoCursor => prev = NoCursor
  BY <1>5 DEF MakeCursor, HasMore, Backwards
<1>14. /\ p.kind = "page" /\ p.rows = rows /\ p.next = next /\ p.prev = prev
       /\ p.complete = (c = NoCursor /\ ~over)
  BY <1>6
<1>15. \A r \in E \ Range(rows) : \A x \in Range(rows) : IF asc THEN x < r ELSE r < x
  BY <1>2 DEF AreNext
<1> QED
  BY <1>1, <1>2, <1>7, <1>9, <1>10, <1>11, <1>12, <1>13, <1>14, <1>15 DEF AnswersFor

(* ------------------------------- the walk -------------------------------- *)
\* A cursor the client holds: it was handed out with the last page, in the walk's
\* scope, and every row that was there all along is under its high-water key.
CursorFits(c) ==
  /\ c \in Cursors /\ pins = {c.scope} /\ c.anchor \in covered
  /\ \A r \in stable : r <= c.high /\ r <= c.scope.asOf
  /\ \A x \in Range(page.rows) :
       IF Ascending(c, c.order) THEN x <= c.anchor ELSE c.anchor <= x

\* Shown rows leave no gap: what lies between two of them was shown.
NoGap == \A r \in stable : \A x, y \in covered : x <= r /\ r <= y => r \in covered

\* The rows that were not shown are on the side that no previous page reached.
AllAfterShown ==
  \A r \in stable \ covered : \A x \in covered :
     IF page.prev.order = "asc" THEN r < x ELSE x < r

PagesInv ==
  /\ rowsNow \subseteq 1 .. MaxKey /\ newestKey \in Nat /\ versions \in Nat
  /\ stable \subseteq rowsNow /\ covered \subseteq 1 .. MaxKey
  /\ NoGap
  /\ \A c \in {page.next, page.prev} : c = NoCursor \/ CursorFits(c)
  /\ page.kind \in {"page", "all"} /\ page.complete => stable \subseteq covered
  /\ page.kind = "page" /\ page.rows # <<>> /\ page.next = NoCursor /\ page.prev # NoCursor
       => AllAfterShown
  /\ pins = {} \/ \E scope : pins = {scope}
  /\ repeated = FALSE

(* A first page starts a walk over the rows visible now.                      *)
LEMMA FirstPageKeeps ==
  ASSUME PagesInv, NEW size \in PageSizes, NEW order \in {"asc", "desc"}, FirstPage(size, order)
  PROVE  PagesInv'
<1>1. PICK V : V = Visible(newestKey)
  OBVIOUS
<1>2. V \in SUBSET (1 .. MaxKey) /\ V \subseteq rowsNow /\ \A r \in V : r <= newestKey
  BY <1>1 DEF Visible, PagesInv
<1>3. PICK scope : scope = [asOf |-> newestKey, version |-> LatestParsed]
  OBVIOUS
<1>4. scope \in [asOf : Nat, version : Nat] /\ scope.asOf = newestKey
  BY <1>3 DEF LatestParsed, PagesInv
<1>5. PICK p : p = ReadPage(V, NoCursor, scope, size, order)
  OBVIOUS
<1>6. PICK E, high : E = Remaining(V, NoCursor, order) /\ high = HighWater(V, NoCursor)
  OBVIOUS
<1>7. size \in Nat \ {0}
  BY PagesAssumption
<1>8. AnswersFor(p, E, NoCursor, scope, order, high)
  BY <1>2, <1>4, <1>5, <1>6, <1>7, PageAnswers
<1>9. E = V /\ \A r \in V : r <= high
  <2>1. high = Max(V \cup {0})
    BY <1>6 DEF HighWater
  <2>2. V \cup {0} \subseteq 0 .. MaxKey /\ V \cup {0} # {}
    BY <1>2, PagesAssumption
  <2>3. \A r \in V : r <= high
    BY <2>1, <2>2, MaxOfKeys
  <2>4. \A r \in V : r <= HighWater(V, NoCursor)
    BY <1>6, <2>3
  <2>5. E = V
    BY <1>6, <2>4 DEF Remaining
  <2> QED BY <2>3, <2>5
<1>10. PICK N : N = Range(p.rows)
  OBVIOUS
<1>11. /\ page' = p /\ stable' = V /\ covered' = N /\ pins' = {scope} /\ repeated' = FALSE
       /\ rowsNow' = rowsNow /\ newestKey' = newestKey /\ versions' = versions
  BY <1>1, <1>3, <1>5, <1>10 DEF FirstPage
<1>12. \A r \in V : r \in Int
  BY <1>2, PagesAssumption
<1>13. NoGap'
  <2>1. SUFFICES ASSUME NEW r \in V, NEW x \in N, NEW y \in N, x <= r, r <= y, r \notin N PROVE FALSE
    BY <1>11 DEF NoGap
  <2>2. IF Ascending(NoCursor, order) THEN y < r ELSE r < x
    BY <1>8, <1>9, <1>10, <2>1 DEF AnswersFor
  <2>3. x \in Int /\ y \in Int /\ r \in Int
    BY <1>8, <1>9, <1>10, <1>12 DEF AnswersFor
  <2> QED BY <2>1, <2>2, <2>3
<1>14. ASSUME NEW c, ContinuesFrom(c, N, scope, order, high) PROVE CursorFits(c)'
  <2>1. \A r \in V : r <= c.high /\ r <= c.scope.asOf
    BY <1>2, <1>4, <1>9, <1>14 DEF ContinuesFrom
  <2>2. /\ c \in Cursors /\ pins' = {c.scope} /\ c.anchor \in covered'
        /\ \A x \in N : IF Ascending(c, c.order) THEN x <= c.anchor ELSE c.anchor <= x
    BY <1>11, <1>14 DEF ContinuesFrom
  <2> QED BY <1>10, <1>11, <2>1, <2>2 DEF CursorFits
<1>15. \A c \in {page'.next, page'.prev} : c = NoCursor \/ CursorFits(c)'
  <2>1. \A c \in {p.next, p.prev} : c = NoCursor \/ ContinuesFrom(c, N, scope, order, high)
    BY <1>8, <1>10 DEF AnswersFor
  <2> QED BY <1>11, <1>14, <2>1
<1>16. N \subseteq V /\ (p.complete => N = V) /\ p.prev = NoCursor
  BY <1>8, <1>9, <1>10 DEF AnswersFor
<1>17. /\ page'.kind \in {"page", "all"} /\ page'.complete => stable' \subseteq covered'
       /\ ~(page'.prev # NoCursor)
  BY <1>11, <1>16
<1>18. covered' \subseteq 1 .. MaxKey /\ stable' \subseteq rowsNow'
  BY <1>2, <1>11, <1>16
<1> QED BY <1>11, <1>13, <1>15, <1>17, <1>18 DEF PagesInv

(* A page after a cursor starts where the pages before it end: a row that was  *)
(* there all along is on it, behind it or already shown.                      *)
LEMMA FollowKeeps ==
  ASSUME PagesInv, NEW c \in {page.next, page.prev}, Follow(c)
  PROVE  PagesInv'
<1>1. CursorFits(c) /\ c # NoCursor
  BY DEF PagesInv, Follow
<1>2. c \in Cursors /\ c.scope \in [asOf : Nat, version : Nat] /\ c.limit \in Nat \ {0}
      /\ c.order \in {"asc", "desc"} /\ c.anchor \in Nat
  BY <1>1 DEF CursorFits, Cursors
<1>3. PICK V : V = Visible(c.scope.asOf)
  OBVIOUS
<1>4. V \in SUBSET (1 .. MaxKey)
  BY <1>3 DEF Visible, PagesInv
<1>5. PICK p : p = ReadPage(V, c, c.scope, c.limit, c.order)
  OBVIOUS
<1>6. PICK E, asc : E = Remaining(V, c, c.order) /\ asc = Ascending(c, c.order)
  OBVIOUS
<1>7. HighWater(V, c) = c.high
  BY <1>1 DEF HighWater
<1>8. AnswersFor(p, E, c, c.scope, c.order, c.high)
  <2>1. AnswersFor(p, Remaining(V, c, c.order), c, c.scope, c.order, HighWater(V, c))
    BY <1>2, <1>4, <1>5, PageAnswers
  <2> QED BY <1>6, <1>7, <2>1
<1>9. PICK N : N = Range(p.rows)
  OBVIOUS
<1>10. /\ page' = p /\ covered' = covered \cup N /\ pins' = pins \cup {c.scope}
       /\ repeated' = (N \cap Range(page.rows) # {})
       /\ rowsNow' = rowsNow /\ newestKey' = newestKey /\ versions' = versions /\ stable' = stable
  BY <1>3, <1>5, <1>9 DEF Follow, PinnedScope
<1>11. /\ stable \subseteq rowsNow /\ rowsNow \subseteq 1 .. MaxKey
       /\ covered \subseteq 1 .. MaxKey /\ NoGap
  BY DEF PagesInv
<1>12. 1 .. MaxKey \subseteq Int
  BY PagesAssumption
<1>13. asc \in BOOLEAN
  BY <1>6 DEF Ascending
<1>14. /\ N \subseteq E /\ E \subseteq 1 .. MaxKey
       /\ \A r \in E : IF asc THEN r > c.anchor ELSE r < c.anchor
       /\ \A r \in E \ N : \A x \in N : IF asc THEN x < r ELSE r < x
  <2>1. E = {r \in V : /\ r <= HighWater(V, c)
                       /\ c # NoCursor => Beyond(r, c.anchor, Ascending(c, c.order))}
    BY <1>6 DEF Remaining
  <2>2. \A r \in E : r \in V /\ IF asc THEN r > c.anchor ELSE r < c.anchor
    BY <1>1, <1>6, <2>1 DEF Beyond
  <2>3. N \subseteq E /\ \A r \in E \ N : \A x \in N : IF asc THEN x < r ELSE r < x
    BY <1>6, <1>8, <1>9 DEF AnswersFor
  <2> QED BY <1>4, <2>2, <2>3
<1>15. ASSUME NEW r \in stable, IF asc THEN r > c.anchor ELSE r < c.anchor
       PROVE  r \in E
  <2>1. r <= c.high /\ r <= c.scope.asOf /\ r \in rowsNow
    BY <1>1, <1>11 DEF CursorFits
  <2>2. r \in V
    BY <1>3, <2>1 DEF Visible
  <2>3. Beyond(r, c.anchor, Ascending(c, c.order))
    BY <1>6, <1>15 DEF Beyond
  <2> QED BY <1>6, <1>7, <2>1, <2>2, <2>3 DEF Remaining
<1>16. c.anchor \in covered /\ c.anchor \in Int
  BY <1>1, <1>2 DEF CursorFits
<1>17. ASSUME NEW r \in stable, NEW x \in covered \cup N, NEW y \in covered \cup N,
              x <= r, r <= y, r \notin N
       PROVE  r \in covered
  <2>1. x \in Int /\ y \in Int /\ r \in Int
    BY <1>11, <1>12, <1>14
  <2>2. CASE IF asc THEN r > c.anchor ELSE r < c.anchor
    <3>1. r \in E \ N
      BY <1>15, <1>17, <2>2
    <3>2. \A z \in N : IF asc THEN z < r ELSE r < z
      BY <1>14, <3>1
    <3>3. CASE asc
      <4>1. y \in covered
        BY <1>17, <2>1, <3>2, <3>3
      <4>2. c.anchor <= r
        BY <1>16, <2>1, <2>2, <3>3
      <4> QED BY <1>11, <1>16, <1>17, <4>1, <4>2 DEF NoGap
    <3>4. CASE ~asc
      <4>1. x \in covered
        BY <1>17, <2>1, <3>2, <3>4
      <4>2. r <= c.anchor
        BY <1>16, <2>1, <2>2, <3>4
      <4> QED BY <1>11, <1>16, <1>17, <4>1, <4>2 DEF NoGap
    <3> QED BY <1>13, <3>3, <3>4
  <2>3. CASE ~(IF asc THEN r > c.anchor ELSE r < c.anchor)
    <3>1. CASE asc
      <4>1. r <= c.anchor
        BY <1>16, <2>1, <2>3, <3>1
      <4>2. x \notin N
        BY <1>14, <1>16, <1>17, <2>1, <3>1, <4>1
      <4> QED BY <1>11, <1>16, <1>17, <4>1, <4>2 DEF NoGap
    <3>2. CASE ~asc
      <4>1. c.anchor <= r
        BY <1>16, <2>1, <2>3, <3>2
      <4>2. y \notin N
        BY <1>14, <1>16, <1>17, <2>1, <3>2, <4>1
      <4> QED BY <1>11, <1>16, <1>17, <4>1, <4>2 DEF NoGap
    <3> QED BY <1>13, <3>1, <3>2
  <2> QED BY <2>2, <2>3
<1>18. NoGap'
  BY <1>10, <1>17 DEF NoGap
<1>19. pins' = {c.scope} /\ pins = {c.scope}
  BY <1>1, <1>10 DEF CursorFits
<1>20. ASSUME NEW q, ContinuesFrom(q, N, c.scope, c.order, c.high) PROVE CursorFits(q)'
  <2>1. q.scope = c.scope /\ q.high = c.high /\ q.order = c.order
    BY <1>20 DEF ContinuesFrom
  <2>2. \A r \in stable : r <= q.high /\ r <= q.scope.asOf
    BY <1>1, <2>1 DEF CursorFits
  <2>3. /\ q \in Cursors /\ q.anchor \in N
        /\ \A x \in N : IF Ascending(q, q.order) THEN x <= q.anchor ELSE q.anchor <= x
    BY <1>20 DEF ContinuesFrom
  <2> QED BY <1>9, <1>10, <1>19, <2>1, <2>2, <2>3 DEF CursorFits
<1>21. \A q \in {page'.next, page'.prev} : q = NoCursor \/ CursorFits(q)'
  <2>1. \A q \in {p.next, p.prev} :
          q = NoCursor \/ ContinuesFrom(q, N, c.scope, c.order, c.high)
    BY <1>8, <1>9 DEF AnswersFor
  <2> QED BY <1>10, <1>20, <2>1
<1>22. ~page'.complete
  BY <1>1, <1>8, <1>10 DEF AnswersFor
<1>23. repeated' = FALSE
  <2>1. ASSUME NEW x \in N, x \in Range(page.rows) PROVE FALSE
    <3>1. IF asc THEN x > c.anchor ELSE x < c.anchor
      BY <1>14
    <3>2. IF asc THEN x <= c.anchor ELSE c.anchor <= x
      BY <1>1, <1>6, <2>1 DEF CursorFits
    <3>3. x \in Int
      BY <1>12, <1>14
    <3> QED BY <1>13, <1>16, <3>1, <3>2, <3>3
  <2> QED BY <1>10, <2>1
<1>24. ASSUME p.rows # <<>>, p.next = NoCursor, p.prev # NoCursor PROVE AllAfterShown'
  <2>1. ~Backwards(c) /\ N = E
    BY <1>8, <1>9, <1>24 DEF AnswersFor
  <2>2. p.prev.order = c.order
    BY <1>8, <1>24 DEF AnswersFor, ContinuesFrom
  <2>3. asc <=> c.order = "asc"
    BY <1>6, <2>1 DEF Ascending, Backwards
  <2>4. SUFFICES ASSUME NEW r \in stable, r \notin covered, r \notin N, NEW x \in covered \cup N
                 PROVE  IF asc THEN r < x ELSE x < r
    BY <1>10, <2>2, <2>3 DEF AllAfterShown
  <2>5. r \in Int /\ x \in Int
    BY <1>11, <1>12, <1>14
  <2>6. ~(IF asc THEN r > c.anchor ELSE r < c.anchor)
    BY <1>15, <2>1, <2>4
  <2>7. CASE asc
    <3>1. r <= c.anchor
      BY <1>16, <2>5, <2>6, <2>7
    <3>2. ~(x <= r)
      BY <1>16, <1>17, <2>4, <3>1
    <3> QED BY <2>5, <2>7, <3>2
  <2>8. CASE ~asc
    <3>1. c.anchor <= r
      BY <1>16, <2>5, <2>6, <2>8
    <3>2. ~(r <= x)
      BY <1>16, <1>17, <2>4, <3>1
    <3> QED BY <2>5, <2>8, <3>2
  <2> QED BY <1>13, <2>7, <2>8
<1>25. covered' \subseteq 1 .. MaxKey /\ stable' \subseteq rowsNow'
  BY <1>10, <1>11, <1>14
<1>26. newestKey \in Nat /\ versions \in Nat
  BY DEF PagesInv
<1>27. rowsNow' \subseteq 1 .. MaxKey /\ newestKey' \in Nat /\ versions' \in Nat
  BY <1>10, <1>11, <1>26
<1>28. page'.kind = "page" /\ page'.rows # <<>> /\ page'.next = NoCursor /\ page'.prev # NoCursor
         => AllAfterShown'
  BY <1>10, <1>24
<1> QED BY <1>18, <1>19, <1>21, <1>22, <1>23, <1>25, <1>27, <1>28 DEF PagesInv

(* Every step keeps the walk's invariant.                                     *)
LEMMA PagesStep ==
  ASSUME PagesInv, PagesNext
  PROVE  PagesInv'
<1>1. ASSUME NEW size \in PageSizes, NEW order \in {"asc", "desc"}, FirstPage(size, order)
      PROVE  PagesInv'
  BY <1>1, FirstPageKeeps
<1>2. ASSUME NEW c \in {page.next, page.prev}, Follow(c) PROVE PagesInv'
  BY <1>2, FollowKeeps
<1>3. ASSUME NEW c, FollowElsewhere(c) PROVE PagesInv'
  <2>1. /\ page'.next = NoCursor /\ page'.prev = NoCursor /\ page'.kind = "refused"
    BY <1>3 DEF FollowElsewhere, Blank
  <2>2. /\ rowsNow' = rowsNow /\ newestKey' = newestKey /\ versions' = versions
        /\ stable' = stable /\ covered' = covered /\ pins' = pins /\ repeated' = FALSE
    BY <1>3 DEF FollowElsewhere
  <2> QED BY <2>1, <2>2 DEF PagesInv, NoGap
<1>4. ASSUME ReadAll PROVE PagesInv'
  <2>1. PICK V : V = Visible(newestKey)
    OBVIOUS
  <2>2. V \subseteq rowsNow
    BY <2>1 DEF Visible
  <2>3. /\ page'.next = NoCursor /\ page'.prev = NoCursor
        /\ \/ page'.kind = "all" /\ covered' = V
           \/ page'.kind = "refused" /\ covered' = {}
    BY <1>4, <2>1 DEF ReadAll, Blank
  <2>4. /\ rowsNow' = rowsNow /\ newestKey' = newestKey /\ versions' = versions
        /\ stable' = V /\ pins' = {} /\ repeated' = FALSE
    BY <1>4, <2>1 DEF ReadAll
  <2> QED BY <2>2, <2>3, <2>4 DEF PagesInv, NoGap
<1>5. ASSUME NEW r \in 1 .. MaxKey, Appear(r) \/ Disappear(r) PROVE PagesInv'
  <2>1. /\ rowsNow' \subseteq 1 .. MaxKey /\ stable' \subseteq rowsNow' /\ stable' \subseteq stable
        /\ newestKey' = newestKey /\ versions' = versions /\ page' = page /\ covered' = covered
        /\ pins' = pins /\ repeated' = repeated
    BY <1>5 DEF Appear, Disappear, PagesInv
  <2>2. \A c : CursorFits(c) => CursorFits(c)'
    BY <2>1 DEF CursorFits
  <2>3. NoGap' /\ (AllAfterShown => AllAfterShown')
    BY <2>1 DEF PagesInv, NoGap, AllAfterShown
  <2> QED BY <2>1, <2>2, <2>3 DEF PagesInv
<1>6. ASSUME Publish \/ Reparse PROVE PagesInv'
  <2>1. /\ rowsNow' = rowsNow /\ stable' = stable /\ page' = page /\ covered' = covered
        /\ pins' = pins /\ repeated' = repeated /\ newestKey' \in Nat /\ versions' \in Nat
    BY <1>6 DEF Publish, Reparse, PagesInv
  <2>2. \A c : CursorFits(c) => CursorFits(c)'
    BY <2>1 DEF CursorFits
  <2>3. NoGap' /\ (AllAfterShown => AllAfterShown')
    BY <2>1 DEF PagesInv, NoGap, AllAfterShown
  <2> QED BY <2>1, <2>2, <2>3 DEF PagesInv
<1> QED BY <1>1, <1>2, <1>3, <1>4, <1>5, <1>6 DEF PagesNext

(* It holds before the first page.                                            *)
LEMMA PagesStart ==
  ASSUME PagesInit
  PROVE  PagesInv
<1>1. rowsNow \subseteq 1 .. MaxKey /\ newestKey \in Nat
  <2>1. MaxKey \in Nat \ {0}
    BY PagesAssumption
  <2>2. rowsNow \subseteq 1 .. MaxKey - 1 /\ newestKey = MaxKey - 1
    BY DEF PagesInit
  <2> QED BY <2>1, <2>2
<1>2. page.next = NoCursor /\ page.prev = NoCursor /\ page.kind = "blank"
  BY DEF PagesInit, Blank
<1>3. stable = {} /\ covered = {} /\ pins = {} /\ repeated = FALSE /\ versions = 1
  BY DEF PagesInit
<1> QED BY <1>1, <1>2, <1>3 DEF PagesInv, NoGap

(* It says what a walk promises.                                              *)
LEMMA PagesInvSound == PagesInv => WalkIsSound
<1> SUFFICES ASSUME PagesInv PROVE WalkIsSound
  OBVIOUS
<1>1. covered # {} => /\ Min(covered) \in covered /\ \A y \in covered : Min(covered) <= y
                      /\ Max(covered) \in covered /\ \A y \in covered : y <= Max(covered)
  <2>1. covered \subseteq 0 .. MaxKey
    BY PagesAssumption DEF PagesInv
  <2> QED BY <2>1, MinOfKeys, MaxOfKeys
<1>6. covered \subseteq Int /\ stable \subseteq Int
  <2>1. 1 .. MaxKey \subseteq Int
    BY PagesAssumption
  <2> QED BY <2>1 DEF PagesInv
<1>2. ASSUME NEW r \in stable, covered # {}, r >= Min(covered), r <= Max(covered)
      PROVE  r \in covered
  <2>1. Min(covered) <= r
    <3>1. Min(covered) \in Int /\ r \in Int
      BY <1>1, <1>2, <1>6
    <3> QED BY <1>2, <3>1
  <2> QED BY <1>1, <1>2, <2>1 DEF PagesInv, NoGap
<1>3. ASSUME page.kind = "page", page.rows # <<>>, page.next = NoCursor, page.prev # NoCursor
      PROVE  \A r \in stable \ covered : \/ r < Min(covered) /\ page.prev.order = "asc"
                                         \/ r > Max(covered) /\ page.prev.order = "desc"
  <2>1. AllAfterShown
    BY <1>3 DEF PagesInv
  <2>2. CursorFits(page.prev)
    BY <1>3 DEF PagesInv
  <2>3. covered # {} /\ page.prev.order \in {"asc", "desc"}
    BY <2>2 DEF CursorFits, Cursors
  <2>4. SUFFICES ASSUME NEW r \in stable \ covered
                 PROVE  \/ r < Min(covered) /\ page.prev.order = "asc"
                        \/ r > Max(covered) /\ page.prev.order = "desc"
    OBVIOUS
  <2>5. r \in Int /\ Max(covered) \in Int
    BY <1>1, <1>6, <2>3
  <2>6. IF page.prev.order = "asc" THEN r < Min(covered) ELSE Max(covered) < r
    BY <1>1, <2>1, <2>3 DEF AllAfterShown
  <2> QED BY <2>3, <2>5, <2>6
<1>4. WalkMissesNothing
  BY <1>2, <1>3 DEF PagesInv, WalkMissesNothing
<1>5. WalkIsPinned
  <2>1. CASE pins = {}
    <3>1. Cardinality(pins) = 0
      BY <2>1, FS_EmptySet
    <3> QED BY <3>1 DEF WalkIsPinned, PagesInv
  <2>2. CASE \E scope : pins = {scope}
    <3>1. Cardinality(pins) = 1
      BY <2>2, FS_Singleton
    <3> QED BY <3>1 DEF WalkIsPinned, PagesInv
  <2> QED BY <2>1, <2>2 DEF PagesInv
<1> QED BY <1>4, <1>5 DEF WalkIsSound

(* A client that walks a listing by its cursors, back and forth, while rows    *)
(* appear, leave and are published, misses none that was there all along and   *)
(* reads every page at the cutoff and version of the first (read_page).        *)
THEOREM PagesSpecSound == PagesSpec => []WalkIsSound
<1>1. PagesInv /\ [PagesNext]_pageVars => PagesInv'
  <2>1. ASSUME PagesInv, UNCHANGED pageVars PROVE PagesInv'
    <3>1. /\ rowsNow' = rowsNow /\ stable' = stable /\ page' = page /\ covered' = covered
          /\ pins' = pins /\ repeated' = repeated /\ newestKey' = newestKey /\ versions' = versions
      BY <2>1 DEF pageVars
    <3>2. \A c : CursorFits(c) => CursorFits(c)'
      BY <3>1 DEF CursorFits
    <3> QED BY <2>1, <3>1, <3>2 DEF PagesInv, NoGap, AllAfterShown
  <2> QED BY <2>1, PagesStep
<1> QED BY <1>1, PagesStart, PagesInvSound, PTL DEF PagesSpec

(* Walks and traces together: reads of evidence are consistent and leave     *)
(* nothing out, for every page size, key, number of events and interleaving. *)
THEOREM ReadsSpecSound == ReadsSpec => []ReadsAreSound
BY PagesSpecSound, TraceSpecSound, PTL DEF ReadsSpec, ReadsAreSound
=============================================================================
