----------------------------- MODULE Publication -----------------------------
(* Building retrieval index versions and making a version the active one      *)
(* (packages/retrieval/fel_retrieval/index_build.py), with the publication of *)
(* corpus versions, which has the same shape (workers ingestion/pipeline.py). *)
(*                                                                            *)
(* Builders share nothing but the database. Staging runs statement by         *)
(* statement, each committed at once; the flip of the active pointer is a     *)
(* READ COMMITTED transaction of two updates: an update finds its rows in the *)
(* snapshot of its own start, waits for the ones another transaction has      *)
(* changed and then looks at them again.                                      *)
EXTENDS Integers, FiniteSets

CONSTANTS
    Builders,
    Versions,
    Target,        \* the version a builder makes
    Kind,          \* "index" or "corpus"
    Activating,    \* builders that also make their version the active one
    StagedRows,    \* items and embeddings of an index version; none in a corpus version
    BuildFaults    \* a subset of {"crash", "exception"}

ASSUME PublicationAssumption ==
    /\ Target \in [Builders -> Versions] /\ Kind \in [Versions -> {"index", "corpus"}]
    /\ Activating \subseteq Builders
    /\ \A b \in Builders : Kind[Target[b]] = "corpus" => b \in Activating
    /\ StagedRows \in Nat /\ BuildFaults \subseteq {"crash", "exception"}

VARIABLES
    versionRow,    \* committed: status and is_active of each version
    staged,        \* committed: how many rows of an index version are there
    builder,       \* per builder: where it is and how many rows it has seen staged
    flip,          \* per builder: what its open transaction has changed
    everActive     \* history: kinds that have had an active version

publishVars == <<versionRow, staged, builder, flip, everActive>>

NoFlip == [snap |-> {}, demoted |-> {}, promoted |-> {}]

PublicationInit ==
    /\ versionRow = [v \in Versions |-> [status |-> "absent", active |-> FALSE]]
    /\ staged = [v \in Versions |-> 0]
    /\ builder = [b \in Builders |-> [pc |-> "idle", row |-> 0]]
    /\ flip = [b \in Builders |-> NoFlip]
    /\ everActive = {}

RowsOf(v) == IF Kind[v] = "index" THEN StagedRows ELSE 0

(* -------------------------------- building -------------------------------- *)
Goto(b, pc) == builder' = [builder EXCEPT ![b].pc = pc]

\* The insert of the draft row, ON CONFLICT DO NOTHING; a corpus version is
\* inserted with its documents and its caller goes on to publish it.
CreateVersion(b) ==
    LET v == Target[b]
    IN  /\ builder[b].pc = "idle"
        /\ versionRow' = IF versionRow[v].status = "absent"
                           THEN [versionRow EXCEPT ![v].status = "draft"] ELSE versionRow
        /\ Goto(b, IF Kind[v] = "corpus" THEN "built" ELSE "resuming")
        /\ UNCHANGED <<staged, flip, everActive>>

\* Statuses whose version is returned as it is.
Reusable(status) == status \in {"ready", "superseded"}

\* Reuse, refuse a failed version, or move a draft to building and stage rows.
\* build_and_publish publishes whatever comes back as "building".
ResumeBuild(b) ==
    LET v == Target[b]
        status == versionRow[v].status
    IN  /\ builder[b].pc = "resuming"
        /\ IF status = "draft" THEN versionRow' = [versionRow EXCEPT ![v].status = "building"]
                               ELSE UNCHANGED versionRow
        /\ Goto(b, CASE Reusable(status) /\ status = "building" -> "built"
                     [] Reusable(status) \/ status = "failed" -> "done"
                     [] OTHER -> "staging")
        /\ UNCHANGED <<staged, flip, everActive>>

\* One insert, ON CONFLICT DO NOTHING; the guard of retrieval_items lets rows
\* into a building version only, and the exception it raises marks the build.
StageRow(b) ==
    LET v == Target[b]
        next == builder[b].row + 1
    IN  /\ builder[b].pc = "staging" /\ builder[b].row < RowsOf(v)
        /\ IF versionRow[v].status = "building"
             THEN /\ staged' = [staged EXCEPT ![v] = IF @ < next THEN next ELSE @]
                  /\ builder' = [builder EXCEPT ![b].row = next]
             ELSE Goto(b, "raised") /\ UNCHANGED staged
        /\ UNCHANGED <<versionRow, flip, everActive>>

Staged(b) ==
    /\ builder[b].pc = "staging" /\ builder[b].row = RowsOf(Target[b])
    /\ Goto(b, "built")
    /\ UNCHANGED <<versionRow, staged, flip, everActive>>

\* The chunker, the embedding provider or an insert raises.
RaiseInBuild(b) ==
    /\ "exception" \in BuildFaults /\ builder[b].pc = "staging"
    /\ Goto(b, "raised")
    /\ UNCHANGED <<versionRow, staged, flip, everActive>>

Locked(v, b) == \E c \in Builders \ {b} : v \in flip[c].demoted \cup flip[c].promoted

\* UPDATE ... SET status = 'failed' ... WHERE status = 'building', then re-raise.
MarkFailed(b) ==
    LET v == Target[b]
    IN  /\ builder[b].pc = "raised" /\ ~Locked(v, b)
        /\ versionRow' = IF versionRow[v].status = "building"
                           THEN [versionRow EXCEPT ![v].status = "failed"] ELSE versionRow
        /\ Goto(b, "done")
        /\ UNCHANGED <<staged, flip, everActive>>

(* ------------------------------- publishing ------------------------------- *)
ActiveOf(kind) == {v \in Versions : Kind[v] = kind /\ versionRow[v].active}

\* The first update starts: the rows with is_active in its snapshot.
BeginFlip(b) ==
    /\ builder[b].pc = "built" /\ b \in Activating
    /\ flip' = [flip EXCEPT ![b].snap = ActiveOf(Kind[Target[b]]) \ {Target[b]}]
    /\ Goto(b, "demoting")
    /\ UNCHANGED <<versionRow, staged, everActive>>

\* Its rows are free: the ones still active are superseded.
Demote(b) ==
    /\ builder[b].pc = "demoting"
    /\ \A v \in flip[b].snap : ~Locked(v, b)
    /\ flip' = [flip EXCEPT ![b].demoted = {v \in flip[b].snap : versionRow[v].active}]
    /\ Goto(b, "promoting")
    /\ UNCHANGED <<versionRow, staged, everActive>>

\* A corpus version is published out of draft, an index version out of building.
Publishable(v) == versionRow[v].status = IF Kind[v] = "corpus" THEN "draft" ELSE "building"

\* activate=False is the second update alone: the version is published and not
\* active. A version in another status raises, and nothing is changed.
PublishInactive(b) ==
    LET v == Target[b]
    IN  /\ builder[b].pc = "built" /\ b \notin Activating /\ ~Locked(v, b)
        /\ versionRow' = IF Publishable(v)
                           THEN [versionRow EXCEPT ![v] = [status |-> "ready", active |-> FALSE]]
                           ELSE versionRow
        /\ Goto(b, "done")
        /\ UNCHANGED <<staged, flip, everActive>>

Rivals(b) ==
    {v \in ActiveOf(Kind[Target[b]]) \ flip[b].demoted : v # Target[b]}
        \cup {v \in Versions : Kind[v] = Kind[Target[b]]
                                 /\ \E c \in Builders \ {b} : v \in flip[c].promoted}

HalfFlipMutant(b) ==
    [v \in Versions |->
        IF v \in flip[b].demoted THEN [status |-> "superseded", active |-> FALSE]
                                 ELSE versionRow[v]]

\* What is left of the table when the transaction of b is rolled back.
RolledBack(b) == versionRow

\* The second update. The partial unique index makes it wait for a transaction
\* that has activated, or is deactivating, another version; a version that is
\* then active is a unique violation (PublishConflictError), a target in another
\* status raises too, and both roll the first update back.
Promote(b) ==
    LET v == Target[b]
    IN  /\ builder[b].pc = "promoting" /\ ~Locked(v, b)
        /\ IF ~Publishable(v)
             THEN /\ versionRow' = RolledBack(b)
                  /\ flip' = [flip EXCEPT ![b] = NoFlip] /\ Goto(b, "done")
             ELSE /\ \A r \in Rivals(b) : ~Locked(r, b)
                  /\ IF Rivals(b) # {}
                       THEN /\ versionRow' = RolledBack(b)
                            /\ flip' = [flip EXCEPT ![b] = NoFlip] /\ Goto(b, "done")
                       ELSE /\ flip' = [flip EXCEPT ![b].promoted = {v}] /\ Goto(b, "flipped")
                            /\ UNCHANGED versionRow
        /\ UNCHANGED <<staged, everActive>>

CommitFlip(b) ==
    LET v == Target[b]
    IN  /\ builder[b].pc = "flipped"
        /\ versionRow' = [w \in Versions |->
             IF w = v THEN [status |-> IF Kind[v] = "corpus" THEN "active" ELSE "ready",
                            active |-> TRUE]
             ELSE IF w \in flip[b].demoted THEN [status |-> "superseded", active |-> FALSE]
             ELSE versionRow[w]]
        /\ flip' = [flip EXCEPT ![b] = NoFlip] /\ Goto(b, "done")
        /\ everActive' = everActive \cup {Kind[v]}
        /\ UNCHANGED staged

\* The builder dies; its transaction is rolled back. Another run of the same
\* build starts over.
CrashBuild(b) ==
    /\ "crash" \in BuildFaults /\ builder[b].pc \notin {"idle", "done"}
    /\ versionRow' = RolledBack(b)
    /\ flip' = [flip EXCEPT ![b] = NoFlip]
    /\ builder' = [builder EXCEPT ![b] = [pc |-> "done", row |-> 0]]
    /\ UNCHANGED <<staged, everActive>>

PublicationNext ==
    \E b \in Builders :
        \/ CreateVersion(b) \/ ResumeBuild(b) \/ StageRow(b) \/ Staged(b)
        \/ RaiseInBuild(b) \/ MarkFailed(b)
        \/ PublishInactive(b)
        \/ BeginFlip(b) \/ Demote(b) \/ Promote(b) \/ CommitFlip(b) \/ CrashBuild(b)

(* ------------------------------- properties ------------------------------- *)
\* Readers always find exactly one active version of a kind once there has been
\* one, "never zero or two", whatever publishers race, lose or die
\* (publish_corpus_version, publish_index_version).
OneActiveVersion ==
    \A kind \in {"index", "corpus"} :
        /\ Cardinality(ActiveOf(kind)) <= 1
        /\ kind \in everActive => ActiveOf(kind) # {}

\* A version that was published, active or not, holds every row of its build, also when the build
\* was resumed after a crash, or two builders made it together (build_index).
PublishedIsComplete ==
    \A v \in Versions :
        versionRow[v].status \in {"ready", "superseded"} /\ Kind[v] = "index" =>
            staged[v] = StagedRows

\* Readers find one version of each kind, and all of it: the two above together.
OneCompleteVersion == OneActiveVersion /\ PublishedIsComplete
=============================================================================
