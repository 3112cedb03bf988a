--------------------------- MODULE EvidenceProofs ---------------------------
(***************************************************************************)
(* The evidence the system works on, for any builders, calls, documents    *)
(* and sources.                                                            *)
(*                                                                         *)
(* Publication: readers are never left with none or two versions of a      *)
(* kind, or with a part of one. A publisher that has passed the unique     *)
(* index is alone with its kind, and everything active is what its         *)
(* transaction demotes (FlipsAreGuarded).                                  *)
(*                                                                         *)
(* Ingestion: what was ingested stays what it was. A call that works on a  *)
(* job is alone with it, and its document row is its own or was there with *)
(* the same bytes (CallOK, CallsApart).                                    *)
(*                                                                         *)
(* Sources: a request stays within its limits. The attempts of a delivery  *)
(* are counted by the job, and what is left of a listing is what has no    *)
(* fetch job yet (FetchAttempts, FetchBody).                               *)
(*                                                                         *)
(* Answers: what is rendered is grounded and fusion is fair. Every list,   *)
(* order and context is drawn from the sources within the plan's pins      *)
(* (AnsInv); a reciprocal-rank term falls strictly with the rank, so who   *)
(* beats another in every lane has the higher sum.                         *)
(***************************************************************************)
EXTENDS Publication, Ingestion, SourceFetch, Answer, CollectionProofs, SequenceTheorems

PublicationSpec == PublicationInit /\ [][PublicationNext]_publishVars

BuilderPhases == {"idle", "resuming", "staging", "raised", "built", "demoting", "promoting",
                  "flipped", "done"}
VersionStatuses == {"absent", "draft", "building", "failed", "ready", "active", "superseded"}

\* The shape of the version rows and of the builders' transactions.
PublicationTypeOK ==
  /\ versionRow \in [Versions -> [status : VersionStatuses, active : BOOLEAN]]
  /\ staged \in [Versions -> Nat]
  /\ builder \in [Builders -> [pc : BuilderPhases, row : Nat]]
  /\ flip \in [Builders -> [snap : SUBSET Versions, demoted : SUBSET Versions,
                            promoted : SUBSET Versions]]

Complete(v) == staged[v] = RowsOf(v)

\* What a builder has staged is there, and a build that goes on to publish has
\* staged everything.
BuildsAreCounted ==
  /\ \A v \in Versions : staged[v] <= RowsOf(v)
  /\ \A b \in Builders :
       /\ builder[b].row <= staged[Target[b]]
       /\ builder[b].pc \in {"built", "demoting", "promoting", "flipped"} => Complete(Target[b])

\* An active version has been published, and a published one is complete.
PublishedRows ==
  \A v \in Versions :
    /\ versionRow[v].active
         => versionRow[v].status = IF Kind[v] = "corpus" THEN "active" ELSE "ready"
    /\ versionRow[v].status \in {"ready", "active", "superseded"} => Complete(v)

\* A transaction past the unique index is the only one of its kind, and demotes
\* whatever is active.
FlipsAreGuarded ==
  /\ \A b \in Builders :
       /\ flip[b].promoted = IF builder[b].pc = "flipped" THEN {Target[b]} ELSE {}
       /\ \A v \in flip[b].snap \cup flip[b].demoted : Kind[v] = Kind[Target[b]]
       /\ \A v \in flip[b].demoted : Complete(v)
       /\ builder[b].pc = "flipped" => ActiveOf(Kind[Target[b]]) \subseteq flip[b].demoted
  /\ \A b, c \in Builders :
       builder[b].pc = "flipped" /\ builder[c].pc = "flipped"
         /\ Kind[Target[b]] = Kind[Target[c]] => b = c

\* One version of a kind is active, from the first one on.
OneOfAKind ==
  /\ \A v, w \in Versions :
       versionRow[v].active /\ versionRow[w].active /\ Kind[v] = Kind[w] => v = w
  /\ \A kind \in everActive : ActiveOf(kind) # {}

PublicationInv ==
  PublicationTypeOK /\ BuildsAreCounted /\ PublishedRows /\ FlipsAreGuarded /\ OneOfAKind

-----------------------------------------------------------------------------
\* A step of builder b that stages nothing and activates nothing.
QuietBuild(b) ==
  /\ UNCHANGED <<staged, everActive>>
  /\ versionRow' \in [Versions -> [status : VersionStatuses, active : BOOLEAN]]
  /\ \A v \in Versions :
       versionRow'[v] # versionRow[v] =>
         /\ ~versionRow[v].active /\ ~versionRow'[v].active
         /\ versionRow'[v].status \in {"draft", "building", "failed"} \/ Complete(v)
  /\ builder' \in [Builders -> [pc : BuilderPhases, row : Nat]]
  /\ flip' \in [Builders -> [snap : SUBSET Versions, demoted : SUBSET Versions,
                             promoted : SUBSET Versions]]
  /\ \A c \in Builders : c # b => builder'[c] = builder[c] /\ flip'[c] = flip[c]
  /\ builder'[b].pc # "flipped" /\ builder'[b].row <= staged[Target[b]]
  /\ builder'[b].pc \in {"built", "demoting", "promoting"} => Complete(Target[b])
  /\ flip'[b].promoted = {}
  /\ \A v \in flip'[b].snap \cup flip'[b].demoted : Kind[v] = Kind[Target[b]]
  /\ \A v \in flip'[b].demoted : Complete(v)

\* Such a step keeps what readers find.
LEMMA QuietBuildStep ==
  ASSUME PublicationInv, NEW b \in Builders, QuietBuild(b)
  PROVE  PublicationInv'
<1>1. PublicationTypeOK'
  BY DEF PublicationInv, PublicationTypeOK, QuietBuild
<1>2. staged' = staged /\ \A v \in Versions : Complete(v)' <=> Complete(v)
  BY DEF QuietBuild, Complete, RowsOf
<1>3. \A v \in Versions : versionRow'[v].active <=> versionRow[v].active
  BY DEF QuietBuild
<1>4. \A kind : ActiveOf(kind)' = ActiveOf(kind)
  BY <1>3 DEF ActiveOf
<1>5. \A c \in Builders : Target[c] \in Versions
  BY PublicationAssumption
<1>6. BuildsAreCounted'
  <2>1. \A v \in Versions : staged'[v] <= RowsOf(v)
    BY <1>2 DEF PublicationInv, BuildsAreCounted
  <2>2. \A c \in Builders :
          /\ builder'[c].row <= staged'[Target[c]]
          /\ builder'[c].pc \in {"built", "demoting", "promoting", "flipped"} => Complete(Target[c])
    BY <1>2 DEF PublicationInv, BuildsAreCounted, QuietBuild
  <2> QED BY <1>2, <1>5, <2>1, <2>2 DEF BuildsAreCounted, RowsOf
<1>7. PublishedRows'
  BY <1>2, <1>3 DEF PublicationInv, PublishedRows, QuietBuild
<1>8. FlipsAreGuarded'
  <2>1. ASSUME NEW c \in Builders
        PROVE  /\ flip'[c].promoted = IF builder'[c].pc = "flipped" THEN {Target[c]} ELSE {}
               /\ \A v \in flip'[c].snap \cup flip'[c].demoted : Kind[v] = Kind[Target[c]]
               /\ \A v \in flip'[c].demoted : Complete(v)
               /\ builder'[c].pc = "flipped" => ActiveOf(Kind[Target[c]]) \subseteq flip'[c].demoted
    BY <2>1 DEF PublicationInv, FlipsAreGuarded, QuietBuild
  <2>2. \A c \in Builders : flip'[c].demoted \subseteq Versions BY DEF QuietBuild
  <2>3. \A c, d \in Builders :
          builder'[c].pc = "flipped" /\ builder'[d].pc = "flipped"
            /\ Kind[Target[c]] = Kind[Target[d]] => c = d
    BY DEF PublicationInv, FlipsAreGuarded, QuietBuild
  <2> QED BY <1>2, <1>4, <2>1, <2>2, <2>3 DEF FlipsAreGuarded
<1>9. OneOfAKind'
  BY <1>3, <1>4 DEF PublicationInv, OneOfAKind, QuietBuild
<1> QED BY <1>1, <1>6, <1>7, <1>8, <1>9 DEF PublicationInv

\* What holds of a builder's own rows.
LEMMA BuilderFacts ==
  ASSUME PublicationInv, NEW b \in Builders
  PROVE  /\ Target[b] \in Versions /\ builder[b] \in [pc : BuilderPhases, row : Nat]
         /\ builder \in [Builders -> [pc : BuilderPhases, row : Nat]]
         /\ flip \in [Builders -> [snap : SUBSET Versions, demoted : SUBSET Versions,
                                   promoted : SUBSET Versions]]
         /\ versionRow \in [Versions -> [status : VersionStatuses, active : BOOLEAN]]
         /\ staged \in [Versions -> Nat]
         /\ builder[b].row <= staged[Target[b]] /\ staged[Target[b]] <= RowsOf(Target[b])
         /\ RowsOf(Target[b]) \in Nat
         /\ builder[b].pc \in {"built", "demoting", "promoting", "flipped"} => Complete(Target[b])
         /\ builder[b].pc # "flipped" => flip[b].promoted = {}
         /\ \A v \in flip[b].snap \cup flip[b].demoted : Kind[v] = Kind[Target[b]]
         /\ \A v \in flip[b].demoted : Complete(v)
BY PublicationAssumption DEF PublicationInv, PublicationTypeOK, BuildsAreCounted, FlipsAreGuarded,
     RowsOf

\* build_index up to its rows: the draft, its reuse or resumption, an exception
\* and its mark, the end of staging.
LEMMA BuildSteps ==
  ASSUME PublicationInv, NEW b \in Builders,
         CreateVersion(b) \/ ResumeBuild(b) \/ Staged(b) \/ RaiseInBuild(b) \/ MarkFailed(b)
  PROVE  PublicationInv'
<1>0. /\ Target[b] \in Versions /\ builder[b].row \in Nat
      /\ builder \in [Builders -> [pc : BuilderPhases, row : Nat]]
      /\ flip \in [Builders -> [snap : SUBSET Versions, demoted : SUBSET Versions,
                                promoted : SUBSET Versions]]
      /\ versionRow \in [Versions -> [status : VersionStatuses, active : BOOLEAN]]
      /\ staged \in [Versions -> Nat]
      /\ builder[b].row <= staged[Target[b]] /\ staged[Target[b]] <= RowsOf(Target[b])
      /\ RowsOf(Target[b]) \in Nat
      /\ builder[b].pc # "flipped" => flip[b].promoted = {}
      /\ \A v \in flip[b].snap \cup flip[b].demoted : Kind[v] = Kind[Target[b]]
      /\ \A v \in flip[b].demoted : Complete(v)
  BY BuilderFacts
<1>1. UNCHANGED <<staged, flip, everActive>>
  BY <1>0 DEF CreateVersion, ResumeBuild, Staged, RaiseInBuild, MarkFailed
<1>2. PICK pc \in BuilderPhases \ {"demoting", "promoting", "flipped"} :
        /\ Goto(b, pc) /\ builder[b].pc # "flipped"
        /\ pc = "built" => Kind[Target[b]] = "corpus" \/ builder[b].row = RowsOf(Target[b])
  <2>1. CASE CreateVersion(b)
    BY <1>0, <2>1 DEF CreateVersion, BuilderPhases
  <2>2. CASE ResumeBuild(b)
    BY <1>0, <2>2 DEF ResumeBuild, BuilderPhases, Reusable
  <2>3. CASE Staged(b)
    BY <1>0, <2>3 DEF Staged, BuilderPhases
  <2>4. CASE RaiseInBuild(b)
    BY <1>0, <2>4 DEF RaiseInBuild, BuilderPhases
  <2>5. CASE MarkFailed(b)
    BY <1>0, <2>5 DEF MarkFailed, BuilderPhases
  <2> QED BY <1>0, <2>1, <2>2, <2>3, <2>4, <2>5
<1>3. /\ builder' \in [Builders -> [pc : BuilderPhases, row : Nat]]
      /\ builder'[b].pc = pc /\ builder'[b].row = builder[b].row
      /\ \A c \in Builders : c # b => builder'[c] = builder[c]
  BY <1>0, <1>2 DEF Goto
<1>4. pc = "built" => Complete(Target[b])
  <2>1. CASE Kind[Target[b]] = "corpus"
    <3>1. RowsOf(Target[b]) = 0 BY <1>0, <2>1 DEF RowsOf
    <3> QED BY <1>0, <3>1 DEF Complete
  <2>2. CASE builder[b].row = RowsOf(Target[b])
    <3>1. /\ builder[b].row \in Nat /\ staged[Target[b]] \in Nat /\ RowsOf(Target[b]) \in Nat
          /\ builder[b].row <= staged[Target[b]] /\ staged[Target[b]] <= RowsOf(Target[b])
      BY <1>0
    <3>2. staged[Target[b]] = RowsOf(Target[b]) BY <2>2, <3>1
    <3> QED BY <3>2 DEF Complete
  <2> QED BY <1>0, <1>2, <2>1, <2>2
<1>5. \/ versionRow' = versionRow
      \/ \E st \in {"draft", "building", "failed"} :
           /\ versionRow' = [versionRow EXCEPT ![Target[b]].status = st]
           /\ versionRow[Target[b]].status \in {"absent", "draft", "building"}
  BY <1>0 DEF CreateVersion, ResumeBuild, Staged, RaiseInBuild, MarkFailed
<1>6. ~versionRow[Target[b]].active \/ versionRow[Target[b]].status \in {"ready", "active"}
  BY <1>0 DEF PublicationInv, PublishedRows
<1>7. /\ versionRow' \in [Versions -> [status : VersionStatuses, active : BOOLEAN]]
      /\ \A v \in Versions :
           versionRow'[v] # versionRow[v] =>
             /\ ~versionRow[v].active /\ ~versionRow'[v].active
             /\ versionRow'[v].status \in {"draft", "building", "failed"}
  <2>1. CASE versionRow' = versionRow BY <1>0, <2>1
  <2>2. ASSUME NEW st \in {"draft", "building", "failed"},
               versionRow' = [versionRow EXCEPT ![Target[b]].status = st],
               versionRow[Target[b]].status \in {"absent", "draft", "building"}
        PROVE  <1>7!:
    <3>1. PICK row : row = [versionRow[Target[b]] EXCEPT !.status = st] OBVIOUS
    <3>2. /\ row \in [status : VersionStatuses, active : BOOLEAN] /\ row.status = st
          /\ row.active = versionRow[Target[b]].active
      BY <1>0, <2>2, <3>1 DEF VersionStatuses
    <3>3. versionRow' = [versionRow EXCEPT ![Target[b]] = row] BY <1>0, <2>2, <3>1
    <3>4. ~versionRow[Target[b]].active BY <1>0, <1>6, <2>2
    <3> QED BY <1>0, <2>2, <3>2, <3>3, <3>4
  <2> QED BY <1>0, <1>5, <2>1, <2>2
<1>8. flip'[b].promoted = {}
  BY <1>0, <1>1, <1>2
<1>9. QuietBuild(b)
  BY <1>0, <1>1, <1>2, <1>3, <1>4, <1>7, <1>8 DEF QuietBuild, BuilderPhases
<1> QED BY <1>0, <1>9, QuietBuildStep

\* One insert into retrieval_items, by one of several builders of the version.
LEMMA StageRowStep ==
  ASSUME PublicationInv, NEW b \in Builders, StageRow(b)
  PROVE  PublicationInv'
<1>0. /\ Target[b] \in Versions /\ builder[b].row \in Nat
      /\ builder \in [Builders -> [pc : BuilderPhases, row : Nat]]
      /\ flip \in [Builders -> [snap : SUBSET Versions, demoted : SUBSET Versions,
                                promoted : SUBSET Versions]]
      /\ versionRow \in [Versions -> [status : VersionStatuses, active : BOOLEAN]]
      /\ staged \in [Versions -> Nat]
      /\ builder[b].row <= staged[Target[b]] /\ staged[Target[b]] <= RowsOf(Target[b])
      /\ RowsOf(Target[b]) \in Nat
      /\ builder[b].pc # "flipped" => flip[b].promoted = {}
      /\ \A v \in flip[b].snap \cup flip[b].demoted : Kind[v] = Kind[Target[b]]
      /\ \A v \in flip[b].demoted : Complete(v)
  BY BuilderFacts
<1>1. PICK v, next : v = Target[b] /\ next = builder[b].row + 1
  OBVIOUS
<1>2. /\ builder[b].pc = "staging" /\ builder[b].row < RowsOf(v)
      /\ UNCHANGED <<versionRow, flip, everActive>>
  BY <1>0, <1>1 DEF StageRow
<1>3. CASE versionRow[v].status = "building"
  <2>1. /\ staged' = [staged EXCEPT ![v] = IF @ < next THEN next ELSE @]
        /\ builder' = [builder EXCEPT ![b].row = next]
    BY <1>0, <1>1, <1>3 DEF StageRow
  <2>2. next \in Nat /\ next <= RowsOf(v) /\ staged[v] \in Nat /\ v \in Versions
    BY <1>0, <1>1, <1>2
  <2>3. /\ staged' \in [Versions -> Nat] /\ staged'[v] \in Nat
        /\ staged[v] <= staged'[v] /\ next <= staged'[v] /\ staged'[v] <= RowsOf(v)
        /\ \A w \in Versions : w # v => staged'[w] = staged[w]
    BY <1>0, <1>1, <2>1, <2>2
  <2>4. /\ builder' \in [Builders -> [pc : BuilderPhases, row : Nat]]
        /\ builder'[b].row = next /\ \A c \in Builders : builder'[c].pc = builder[c].pc
        /\ \A c \in Builders : c # b => builder'[c].row = builder[c].row
    BY <1>0, <2>1, <2>2
  <2>5. \A w \in Versions : RowsOf(w)' = RowsOf(w) /\ RowsOf(w) \in Nat
    BY PublicationAssumption DEF RowsOf
  <2>6. \A w \in Versions : Complete(w) => Complete(w)'
    <3>1. SUFFICES ASSUME NEW w \in Versions, staged[w] = RowsOf(w) PROVE staged'[w] = RowsOf(w)
      BY <1>0, <2>5 DEF Complete
    <3>2. CASE w = v
      <4>1. RowsOf(v) \in Nat /\ staged[v] = RowsOf(v) BY <1>0, <2>2, <2>5, <3>1, <3>2
      <4>2. staged'[v] = RowsOf(v) BY <2>3, <4>1
      <4> QED BY <3>2, <4>2
    <3> QED BY <1>0, <2>3, <3>1, <3>2
  <2>7. \A c \in Builders : Target[c] \in Versions
    BY PublicationAssumption
  <2>8. PublicationTypeOK'
    BY <1>0, <1>2, <2>3, <2>4 DEF PublicationInv, PublicationTypeOK
  <2>9. BuildsAreCounted'
    <3>1. \A w \in Versions : staged'[w] <= RowsOf(w)
      BY <1>0, <2>3 DEF PublicationInv, BuildsAreCounted
    <3>2. \A c \in Builders : builder'[c].row <= staged'[Target[c]]
      <4>1. SUFFICES ASSUME NEW c \in Builders, c # b PROVE builder'[c].row <= staged'[Target[c]]
        BY <1>0, <1>1, <2>3, <2>4
      <4>2. builder[c].row \in Nat /\ builder[c].row <= staged[Target[c]] /\ staged[Target[c]] \in Nat
        BY <2>7, BuilderFacts
      <4>3. staged[Target[c]] <= staged'[Target[c]] /\ staged'[Target[c]] \in Nat
        <5>1. CASE Target[c] = v BY <2>3, <5>1
        <5>2. CASE Target[c] # v BY <2>3, <2>7, <4>2, <5>2
        <5> QED BY <5>1, <5>2
      <4> QED BY <1>0, <2>4, <4>1, <4>2, <4>3
    <3>3. \A c \in Builders :
            builder'[c].pc \in {"built", "demoting", "promoting", "flipped"} => Complete(Target[c])'
      BY <1>0, <2>4, <2>6, <2>7 DEF PublicationInv, BuildsAreCounted
    <3> QED BY <1>0, <2>5, <3>1, <3>2, <3>3 DEF BuildsAreCounted
  <2>10. PublishedRows'
    BY <1>0, <1>2, <2>6 DEF PublicationInv, PublishedRows
  <2>11. \A kind : ActiveOf(kind)' = ActiveOf(kind)
    BY <1>0, <1>2 DEF ActiveOf
  <2>12. FlipsAreGuarded'
    <3>1. \A c \in Builders : flip[c].demoted \subseteq Versions
      BY <1>0 DEF PublicationInv, PublicationTypeOK
    <3> QED BY <1>0, <1>2, <2>4, <2>6, <2>11, <3>1 DEF PublicationInv, FlipsAreGuarded
  <2>13. OneOfAKind'
    BY <1>0, <1>2, <2>11 DEF PublicationInv, OneOfAKind
  <2> QED BY <1>0, <2>8, <2>9, <2>10, <2>12, <2>13 DEF PublicationInv
<1>4. CASE versionRow[v].status # "building"
  <2>1. Goto(b, "raised") /\ staged' = staged
    BY <1>0, <1>1, <1>4 DEF StageRow
  <2>2. /\ builder' \in [Builders -> [pc : BuilderPhases, row : Nat]]
        /\ builder'[b].pc = "raised" /\ builder'[b].row = builder[b].row
        /\ \A c \in Builders : c # b => builder'[c] = builder[c]
    BY <1>0, <2>1 DEF Goto, BuilderPhases
  <2>3. QuietBuild(b)
    BY <1>0, <1>2, <2>1, <2>2 DEF QuietBuild
  <2> QED BY <1>0, <2>3, QuietBuildStep
<1> QED BY <1>0, <1>3, <1>4

-----------------------------------------------------------------------------
\* What is published and not made active is complete, and readers see nothing of
\* it.
LEMMA PublishInactiveStep ==
  ASSUME PublicationInv, NEW b \in Builders, PublishInactive(b)
  PROVE  PublicationInv'
<1>0. /\ Target[b] \in Versions /\ builder[b].row \in Nat
      /\ builder \in [Builders -> [pc : BuilderPhases, row : Nat]]
      /\ flip \in [Builders -> [snap : SUBSET Versions, demoted : SUBSET Versions,
                                promoted : SUBSET Versions]]
      /\ versionRow \in [Versions -> [status : VersionStatuses, active : BOOLEAN]]
      /\ builder[b].row <= staged[Target[b]]
      /\ builder[b].pc \in {"built", "demoting", "promoting", "flipped"} => Complete(Target[b])
      /\ builder[b].pc # "flipped" => flip[b].promoted = {}
      /\ \A v \in flip[b].snap \cup flip[b].demoted : Kind[v] = Kind[Target[b]]
      /\ \A v \in flip[b].demoted : Complete(v)
  BY BuilderFacts
<1>1. PICK v \in Versions : v = Target[b]
  BY <1>0
<1>2. /\ builder[b].pc = "built" /\ Complete(v) /\ Goto(b, "done")
      /\ UNCHANGED <<staged, flip, everActive>>
      /\ versionRow' = IF Publishable(v)
                         THEN [versionRow EXCEPT ![v] = [status |-> "ready", active |-> FALSE]]
                         ELSE versionRow
  BY <1>0, <1>1 DEF PublishInactive
<1>3. /\ builder' \in [Builders -> [pc : BuilderPhases, row : Nat]]
      /\ builder'[b].pc = "done" /\ builder'[b].row = builder[b].row
      /\ \A c \in Builders : c # b => builder'[c] = builder[c]
  BY <1>0, <1>2 DEF Goto, BuilderPhases
<1>4. Publishable(v) => ~versionRow[v].active
  BY <1>1 DEF PublicationInv, PublishedRows, Publishable
<1>5. /\ versionRow' \in [Versions -> [status : VersionStatuses, active : BOOLEAN]]
      /\ \A w \in Versions :
           versionRow'[w] # versionRow[w] =>
             /\ ~versionRow[w].active /\ ~versionRow'[w].active
             /\ versionRow'[w].status \in {"draft", "building", "failed"} \/ Complete(w)
  BY <1>0, <1>1, <1>2, <1>4 DEF VersionStatuses
<1>6. QuietBuild(b)
  BY <1>0, <1>2, <1>3, <1>5 DEF QuietBuild
<1> QED BY <1>6, QuietBuildStep

\* The flip up to its second update, its rollback, and a crash: readers see
\* nothing of it.
LEMMA FlipSteps ==
  ASSUME PublicationInv, NEW b \in Builders,
         \/ BeginFlip(b) \/ Demote(b) \/ CrashBuild(b)
         \/ Promote(b) /\ flip' = [flip EXCEPT ![b] = NoFlip]
  PROVE  PublicationInv'
<1>0. /\ Target[b] \in Versions /\ builder[b].row \in Nat
      /\ builder \in [Builders -> [pc : BuilderPhases, row : Nat]]
      /\ flip \in [Builders -> [snap : SUBSET Versions, demoted : SUBSET Versions,
                                promoted : SUBSET Versions]]
      /\ versionRow \in [Versions -> [status : VersionStatuses, active : BOOLEAN]]
      /\ staged \in [Versions -> Nat] /\ builder[b].row <= staged[Target[b]]
      /\ builder[b].pc \in {"built", "demoting", "promoting", "flipped"} => Complete(Target[b])
      /\ builder[b].pc # "flipped" => flip[b].promoted = {}
      /\ \A v \in flip[b].snap \cup flip[b].demoted : Kind[v] = Kind[Target[b]]
      /\ \A v \in flip[b].demoted : Complete(v)
  BY BuilderFacts
<1>1. UNCHANGED <<versionRow, staged, everActive>>
  <2>1. CASE BeginFlip(b) \/ Demote(b) \/ CrashBuild(b)
    BY <2>1 DEF BeginFlip, Demote, CrashBuild, RolledBack
  <2>2. CASE Promote(b)
    BY <2>2 DEF Promote, RolledBack
  <2> QED BY <2>1, <2>2
<1>2. CASE BeginFlip(b) \/ Demote(b)
  <2>1. PICK pc \in {"demoting", "promoting"} :
          /\ builder[b].pc \in {"built", "demoting"} /\ Goto(b, pc)
    BY <1>2 DEF BeginFlip, Demote
  <2>2. /\ builder' \in [Builders -> [pc : BuilderPhases, row : Nat]]
        /\ builder'[b].pc = pc /\ builder'[b].row = builder[b].row
        /\ \A c \in Builders : c # b => builder'[c] = builder[c]
    BY <1>0, <2>1 DEF Goto, BuilderPhases
  <2>3. PICK S \in SUBSET Versions :
          /\ \A v \in S : Kind[v] = Kind[Target[b]]
          /\ \/ flip' = [flip EXCEPT ![b].snap = S]
             \/ flip' = [flip EXCEPT ![b].demoted = S] /\ \A v \in S : Complete(v)
    <3>1. CASE BeginFlip(b)
      <4>1. PICK S : S = ActiveOf(Kind[Target[b]]) \ {Target[b]} OBVIOUS
      <4>2. S \in SUBSET Versions /\ \A v \in S : Kind[v] = Kind[Target[b]]
        BY <4>1 DEF ActiveOf
      <4>3. flip' = [flip EXCEPT ![b].snap = S] BY <3>1, <4>1 DEF BeginFlip
      <4> QED BY <4>2, <4>3
    <3>2. CASE Demote(b)
      <4>1. PICK S : S = {v \in flip[b].snap : versionRow[v].active} OBVIOUS
      <4>2. S \in SUBSET Versions /\ \A v \in S : Kind[v] = Kind[Target[b]]
        BY <1>0, <4>1
      <4>3. \A v \in S : Complete(v)
        <5>1. \A v \in S : versionRow[v].status \in {"ready", "active"}
          BY <4>1, <4>2 DEF PublicationInv, PublishedRows
        <5> QED BY <4>2, <5>1 DEF PublicationInv, PublishedRows
      <4>4. flip' = [flip EXCEPT ![b].demoted = S] BY <3>2, <4>1 DEF Demote
      <4> QED BY <4>2, <4>3, <4>4
    <3> QED BY <1>2, <3>1, <3>2
  <2>4. /\ flip' \in [Builders -> [snap : SUBSET Versions, demoted : SUBSET Versions,
                                   promoted : SUBSET Versions]]
        /\ \A c \in Builders : c # b => flip'[c] = flip[c]
        /\ flip'[b].promoted = flip[b].promoted
        /\ flip'[b].snap \in {S, flip[b].snap} /\ flip'[b].demoted \in {S, flip[b].demoted}
        /\ \A v \in flip'[b].demoted : Complete(v)
    <3>0. S \in SUBSET Versions /\ \A v \in flip[b].demoted : Complete(v)
      BY <1>0, <2>3
    <3>1. CASE flip' = [flip EXCEPT ![b].snap = S]
      <4>1. PICK row : row = [flip[b] EXCEPT !.snap = S] OBVIOUS
      <4>2. /\ row \in [snap : SUBSET Versions, demoted : SUBSET Versions, promoted : SUBSET Versions]
            /\ row.snap = S /\ row.demoted = flip[b].demoted /\ row.promoted = flip[b].promoted
        BY <1>0, <3>0, <4>1
      <4>3. flip' = [flip EXCEPT ![b] = row] BY <1>0, <3>1, <4>1
      <4>4. flip'[b] = row BY <1>0, <4>3
      <4>5. /\ flip' \in [Builders -> [snap : SUBSET Versions, demoted : SUBSET Versions,
                                       promoted : SUBSET Versions]]
            /\ \A c \in Builders : c # b => flip'[c] = flip[c]
        BY <1>0, <4>2, <4>3
      <4> QED BY <3>0, <4>2, <4>4, <4>5
    <3>2. CASE flip' = [flip EXCEPT ![b].demoted = S] /\ \A v \in S : Complete(v)
      <4>1. PICK row : row = [flip[b] EXCEPT !.demoted = S] OBVIOUS
      <4>2. /\ row \in [snap : SUBSET Versions, demoted : SUBSET Versions, promoted : SUBSET Versions]
            /\ row.snap = flip[b].snap /\ row.demoted = S /\ row.promoted = flip[b].promoted
        BY <1>0, <3>0, <4>1
      <4>3. flip' = [flip EXCEPT ![b] = row] BY <1>0, <3>2, <4>1
      <4>4. flip'[b] = row BY <1>0, <4>3
      <4>5. /\ flip' \in [Builders -> [snap : SUBSET Versions, demoted : SUBSET Versions,
                                       promoted : SUBSET Versions]]
            /\ \A c \in Builders : c # b => flip'[c] = flip[c]
        BY <1>0, <4>2, <4>3
      <4> QED BY <3>2, <4>2, <4>4, <4>5
    <3> QED BY <2>3, <3>1, <3>2
  <2>5. QuietBuild(b)
    BY <1>0, <1>1, <2>1, <2>2, <2>3, <2>4 DEF QuietBuild
  <2> QED BY <2>5, QuietBuildStep
<1>3. CASE CrashBuild(b) \/ (Promote(b) /\ flip' = [flip EXCEPT ![b] = NoFlip])
  <2>1. flip' = [flip EXCEPT ![b] = NoFlip] BY <1>3 DEF CrashBuild
  <2>2. /\ NoFlip \in [snap : SUBSET Versions, demoted : SUBSET Versions, promoted : SUBSET Versions]
        /\ NoFlip.snap = {} /\ NoFlip.demoted = {} /\ NoFlip.promoted = {}
    BY DEF NoFlip
  <2>3. /\ flip' \in [Builders -> [snap : SUBSET Versions, demoted : SUBSET Versions,
                                   promoted : SUBSET Versions]]
        /\ flip'[b] = NoFlip /\ \A c \in Builders : c # b => flip'[c] = flip[c]
    BY <1>0, <2>1, <2>2
  <2>4. /\ builder' \in [Builders -> [pc : BuilderPhases, row : Nat]]
        /\ builder'[b].pc = "done" /\ builder'[b].row <= staged[Target[b]]
        /\ \A c \in Builders : c # b => builder'[c] = builder[c]
    <3>1. CASE CrashBuild(b)
      <4>1. PICK row \in [pc : BuilderPhases, row : Nat] : row.pc = "done" /\ row.row = 0
              /\ row = [pc |-> "done", row |-> 0]
        <5>1. PICK n \in Nat : n = 0 OBVIOUS
        <5>2. [pc |-> "done", row |-> n] \in [pc : BuilderPhases, row : Nat] BY <5>1 DEF BuilderPhases
        <5> QED BY <5>1, <5>2
      <4>2. builder' = [builder EXCEPT ![b] = row] BY <3>1, <4>1 DEF CrashBuild
      <4>3. 0 <= staged[Target[b]] BY <1>0
      <4> QED BY <1>0, <4>1, <4>2, <4>3
    <3>2. CASE Promote(b) /\ flip' = [flip EXCEPT ![b] = NoFlip]
      <4>1. Goto(b, "done")
        <5>1. CASE flip' = [flip EXCEPT ![b].promoted = {Target[b]}]
          <6>1. flip'[b].promoted = {Target[b]} BY <1>0, <5>1
          <6> QED BY <2>2, <2>3, <6>1
        <5>2. CASE ~(flip' = [flip EXCEPT ![b].promoted = {Target[b]}])
          BY <3>2, <5>2 DEF Promote
        <5> QED BY <5>1, <5>2
      <4> QED BY <1>0, <4>1 DEF Goto, BuilderPhases
    <3> QED BY <1>3, <3>1, <3>2
  <2>5. QuietBuild(b)
    BY <1>0, <1>1, <2>2, <2>3, <2>4 DEF QuietBuild
  <2> QED BY <2>5, QuietBuildStep
<1> QED BY <1>2, <1>3

\* The second update goes through: no other version of the kind is active once
\* this transaction commits, and no other transaction has got this far.
LEMMA PromoteStep ==
  ASSUME PublicationInv, NEW b \in Builders, Promote(b), ~(flip' = [flip EXCEPT ![b] = NoFlip])
  PROVE  PublicationInv'
<1>0. /\ Target[b] \in Versions
      /\ builder \in [Builders -> [pc : BuilderPhases, row : Nat]]
      /\ flip \in [Builders -> [snap : SUBSET Versions, demoted : SUBSET Versions,
                                promoted : SUBSET Versions]]
      /\ versionRow \in [Versions -> [status : VersionStatuses, active : BOOLEAN]]
  BY BuilderFacts
<1>1. /\ builder[b].pc = "promoting" /\ Publishable(Target[b]) /\ Rivals(b) = {}
      /\ flip' = [flip EXCEPT ![b].promoted = {Target[b]}] /\ Goto(b, "flipped")
      /\ UNCHANGED <<versionRow, staged, everActive>>
  BY DEF Promote
<1>2. /\ flip' \in [Builders -> [snap : SUBSET Versions, demoted : SUBSET Versions,
                                 promoted : SUBSET Versions]]
      /\ flip'[b].promoted = {Target[b]} /\ flip'[b].snap = flip[b].snap
      /\ flip'[b].demoted = flip[b].demoted /\ \A c \in Builders : c # b => flip'[c] = flip[c]
  BY <1>0, <1>1
<1>3. /\ builder' \in [Builders -> [pc : BuilderPhases, row : Nat]]
      /\ builder'[b].pc = "flipped" /\ builder'[b].row = builder[b].row
      /\ \A c \in Builders : c # b => builder'[c] = builder[c]
  BY <1>0, <1>1 DEF Goto, BuilderPhases
<1>4. PublicationTypeOK'
  BY <1>1, <1>2, <1>3 DEF PublicationInv, PublicationTypeOK
<1>5. \A v \in Versions : Complete(v)' <=> Complete(v)
  BY <1>1 DEF Complete, RowsOf
<1>6. \A kind : ActiveOf(kind)' = ActiveOf(kind)
  BY <1>1 DEF ActiveOf
<1>7. \A c \in Builders : Target[c] \in Versions
  BY PublicationAssumption
<1>8. BuildsAreCounted'
  <2>1. \A c \in Builders :
          /\ builder'[c].row <= staged[Target[c]]
          /\ builder'[c].pc \in {"built", "demoting", "promoting", "flipped"} => Complete(Target[c])
    BY <1>1, <1>3 DEF PublicationInv, BuildsAreCounted
  <2> QED BY <1>1, <1>5, <1>7, <2>1 DEF PublicationInv, BuildsAreCounted, RowsOf
<1>9. PublishedRows' /\ OneOfAKind'
  BY <1>1, <1>5, <1>6 DEF PublicationInv, PublishedRows, OneOfAKind
<1>10. FlipsAreGuarded'
  <2>1. ~versionRow[Target[b]].active
    BY <1>0, <1>1, PublicationAssumption DEF Publishable, PublicationInv, PublishedRows
  <2>2. ActiveOf(Kind[Target[b]]) \subseteq flip[b].demoted
    BY <1>1, <2>1 DEF Rivals, ActiveOf
  <2>3. \A c \in Builders : c # b /\ builder[c].pc = "flipped" => Kind[Target[c]] # Kind[Target[b]]
    <3>1. SUFFICES ASSUME NEW c \in Builders, c # b, builder[c].pc = "flipped",
                          Kind[Target[c]] = Kind[Target[b]]
                   PROVE  FALSE
      OBVIOUS
    <3>2. flip[c].promoted = {Target[c]} BY <3>1 DEF PublicationInv, FlipsAreGuarded
    <3>3. Target[c] \in Rivals(b) BY <1>7, <3>1, <3>2 DEF Rivals
    <3> QED BY <1>1, <3>3
  <2>4. ASSUME NEW c \in Builders
        PROVE  /\ flip'[c].promoted = IF builder'[c].pc = "flipped" THEN {Target[c]} ELSE {}
               /\ \A v \in flip'[c].snap \cup flip'[c].demoted : Kind[v] = Kind[Target[c]]
               /\ \A v \in flip'[c].demoted : Complete(v)
               /\ builder'[c].pc = "flipped" => ActiveOf(Kind[Target[c]]) \subseteq flip'[c].demoted
    <3>1. CASE c = b
      <4>1. /\ \A v \in flip[b].snap \cup flip[b].demoted : Kind[v] = Kind[Target[b]]
            /\ \A v \in flip[b].demoted : Complete(v)
        BY BuilderFacts
      <4> QED BY <1>2, <1>3, <2>2, <3>1, <4>1
    <3>2. CASE c # b
      <4>1. flip'[c] = flip[c] /\ builder'[c] = builder[c] BY <1>2, <1>3, <2>4, <3>2
      <4> QED BY <2>4, <4>1 DEF PublicationInv, FlipsAreGuarded
    <3> QED BY <3>1, <3>2
  <2>5. \A c \in Builders : flip'[c].demoted \subseteq Versions BY <1>2
  <2>6. \A c, d \in Builders :
          builder'[c].pc = "flipped" /\ builder'[d].pc = "flipped"
            /\ Kind[Target[c]] = Kind[Target[d]] => c = d
    BY <1>3, <2>3 DEF PublicationInv, FlipsAreGuarded
  <2> QED BY <1>5, <1>6, <2>4, <2>5, <2>6 DEF FlipsAreGuarded
<1> QED BY <1>4, <1>8, <1>9, <1>10 DEF PublicationInv

\* The flip commits: the target replaces whatever was active of its kind.
LEMMA CommitFlipStep ==
  ASSUME PublicationInv, NEW b \in Builders, CommitFlip(b)
  PROVE  PublicationInv'
<1>0. /\ Target[b] \in Versions
      /\ builder \in [Builders -> [pc : BuilderPhases, row : Nat]]
      /\ flip \in [Builders -> [snap : SUBSET Versions, demoted : SUBSET Versions,
                                promoted : SUBSET Versions]]
      /\ versionRow \in [Versions -> [status : VersionStatuses, active : BOOLEAN]]
      /\ builder[b].pc = "flipped" => Complete(Target[b])
      /\ \A v \in flip[b].demoted : Kind[v] = Kind[Target[b]] /\ Complete(v)
  BY BuilderFacts
<1>1. PICK v, kind, D : v = Target[b] /\ kind = Kind[v] /\ D = flip[b].demoted
  OBVIOUS
<1>2. /\ builder[b].pc = "flipped" /\ Goto(b, "done") /\ flip' = [flip EXCEPT ![b] = NoFlip]
      /\ versionRow' = [w \in Versions |->
             IF w = v THEN [status |-> IF kind = "corpus" THEN "active" ELSE "ready",
                            active |-> TRUE]
             ELSE IF w \in D THEN [status |-> "superseded", active |-> FALSE]
             ELSE versionRow[w]]
      /\ everActive' = everActive \cup {kind} /\ staged' = staged
  BY <1>1 DEF CommitFlip
<1>3. /\ v \in Versions /\ D \subseteq Versions /\ Complete(v)
      /\ \A w \in D : Kind[w] = kind /\ Complete(w)
      /\ \A w \in Versions : versionRow[w].active /\ Kind[w] = kind => w \in D
      /\ \A c \in Builders : c # b /\ builder[c].pc = "flipped" => Kind[Target[c]] # kind
  BY <1>0, <1>1, <1>2 DEF PublicationInv, FlipsAreGuarded, ActiveOf
<1>4. /\ versionRow' \in [Versions -> [status : VersionStatuses, active : BOOLEAN]]
      /\ versionRow'[v].active /\ versionRow'[v].status = IF kind = "corpus" THEN "active" ELSE "ready"
      /\ \A w \in Versions : w # v =>
           \/ w \in D /\ ~versionRow'[w].active /\ versionRow'[w].status = "superseded"
           \/ w \notin D /\ versionRow'[w] = versionRow[w]
  <2>1. PICK new : new = [status |-> IF kind = "corpus" THEN "active" ELSE "ready", active |-> TRUE]
    OBVIOUS
  <2>2. /\ new \in [status : VersionStatuses, active : BOOLEAN] /\ new.active
        /\ new.status = IF kind = "corpus" THEN "active" ELSE "ready"
    BY <2>1 DEF VersionStatuses
  <2>3. PICK old : old = [status |-> "superseded", active |-> FALSE] OBVIOUS
  <2>4. /\ old \in [status : VersionStatuses, active : BOOLEAN] /\ ~old.active
        /\ old.status = "superseded"
    BY <2>3 DEF VersionStatuses
  <2>5. versionRow' = [w \in Versions |-> IF w = v THEN new ELSE IF w \in D THEN old ELSE versionRow[w]]
    BY <1>2, <2>1, <2>3
  <2> QED BY <1>0, <1>3, <2>2, <2>4, <2>5
<1>5. /\ NoFlip \in [snap : SUBSET Versions, demoted : SUBSET Versions, promoted : SUBSET Versions]
      /\ NoFlip.snap = {} /\ NoFlip.demoted = {} /\ NoFlip.promoted = {}
  BY DEF NoFlip
<1>6. /\ flip' \in [Builders -> [snap : SUBSET Versions, demoted : SUBSET Versions,
                                 promoted : SUBSET Versions]]
      /\ flip'[b] = NoFlip /\ \A c \in Builders : c # b => flip'[c] = flip[c]
  BY <1>0, <1>2, <1>5
<1>7. /\ builder' \in [Builders -> [pc : BuilderPhases, row : Nat]]
      /\ builder'[b].pc = "done" /\ builder'[b].row = builder[b].row
      /\ \A c \in Builders : c # b => builder'[c] = builder[c]
  BY <1>0, <1>2 DEF Goto, BuilderPhases
<1>8. PublicationTypeOK'
  BY <1>2, <1>4, <1>6, <1>7 DEF PublicationInv, PublicationTypeOK
<1>9. \A w \in Versions : Complete(w)' <=> Complete(w)
  BY <1>2 DEF Complete, RowsOf
<1>10. \A c \in Builders : Target[c] \in Versions
  BY PublicationAssumption
<1>11. BuildsAreCounted'
  <2>1. \A c \in Builders :
          /\ builder'[c].row <= staged[Target[c]]
          /\ builder'[c].pc \in {"built", "demoting", "promoting", "flipped"} => Complete(Target[c])
    BY <1>7 DEF PublicationInv, BuildsAreCounted
  <2> QED BY <1>2, <1>9, <1>10, <2>1 DEF PublicationInv, BuildsAreCounted, RowsOf
<1>12. PublishedRows'
  <2>1. ASSUME NEW w \in Versions
        PROVE  /\ versionRow'[w].active
                    => versionRow'[w].status = IF Kind[w] = "corpus" THEN "active" ELSE "ready"
               /\ versionRow'[w].status \in {"ready", "active", "superseded"} => Complete(w)
    <3>1. CASE w = v BY <1>1, <1>3, <1>4, <3>1
    <3>2. CASE w # v /\ w \in D BY <1>3, <1>4, <3>2
    <3>3. CASE w # v /\ w \notin D BY <1>4, <2>1, <3>3 DEF PublicationInv, PublishedRows
    <3> QED BY <3>1, <3>2, <3>3
  <2> QED BY <1>9, <2>1 DEF PublishedRows
<1>13. \A w \in Versions : Kind[w] # kind => w # v /\ w \notin D /\ versionRow'[w] = versionRow[w]
  BY <1>1, <1>3, <1>4
<1>14. \A k : k # kind => ActiveOf(k)' = ActiveOf(k)
  BY <1>13 DEF ActiveOf
<1>15. FlipsAreGuarded'
  <2>1. ASSUME NEW c \in Builders
        PROVE  /\ flip'[c].promoted = IF builder'[c].pc = "flipped" THEN {Target[c]} ELSE {}
               /\ \A w \in flip'[c].snap \cup flip'[c].demoted : Kind[w] = Kind[Target[c]]
               /\ \A w \in flip'[c].demoted : Complete(w)
               /\ builder'[c].pc = "flipped" => ActiveOf(Kind[Target[c]])' \subseteq flip'[c].demoted
    <3>1. CASE c = b BY <1>5, <1>6, <1>7, <3>1
    <3>2. CASE c # b
      <4>1. builder'[c] = builder[c] /\ flip'[c] = flip[c] BY <1>6, <1>7, <2>1, <3>2
      <4>2. builder[c].pc = "flipped" => Kind[Target[c]] # kind BY <1>3, <2>1, <3>2
      <4> QED BY <1>14, <2>1, <4>1, <4>2 DEF PublicationInv, FlipsAreGuarded
    <3> QED BY <3>1, <3>2
  <2>2. \A c \in Builders : flip'[c].demoted \subseteq Versions BY <1>6
  <2>3. \A c, d \in Builders :
          builder'[c].pc = "flipped" /\ builder'[d].pc = "flipped"
            /\ Kind[Target[c]] = Kind[Target[d]] => c = d
    BY <1>7 DEF PublicationInv, FlipsAreGuarded
  <2> QED BY <1>9, <2>1, <2>2, <2>3 DEF FlipsAreGuarded
<1>16. OneOfAKind'
  <2>1. \A w \in Versions : versionRow'[w].active /\ Kind[w] = kind => w = v
    BY <1>3, <1>4
  <2>2. \A w, x \in Versions :
          versionRow'[w].active /\ versionRow'[x].active /\ Kind[w] = Kind[x] => w = x
    BY <1>13, <2>1 DEF PublicationInv, OneOfAKind
  <2>3. v \in ActiveOf(kind)' BY <1>1, <1>3, <1>4 DEF ActiveOf
  <2>4. \A k \in everActive' : ActiveOf(k)' # {}
    BY <1>2, <1>14, <2>3 DEF PublicationInv, OneOfAKind
  <2> QED BY <2>2, <2>4 DEF OneOfAKind
<1> QED BY <1>8, <1>11, <1>12, <1>15, <1>16 DEF PublicationInv

\* No version exists and nobody builds.
LEMMA PublicationInitInv == PublicationInit => PublicationInv
<1>1. SUFFICES ASSUME PublicationInit PROVE PublicationInv
  OBVIOUS
<1>2. /\ versionRow = [v \in Versions |-> [status |-> "absent", active |-> FALSE]]
      /\ staged = [v \in Versions |-> 0] /\ builder = [b \in Builders |-> [pc |-> "idle", row |-> 0]]
      /\ flip = [b \in Builders |-> NoFlip] /\ everActive = {}
  BY <1>1 DEF PublicationInit
<1>3. \A v \in Versions : RowsOf(v) \in Nat /\ 0 <= RowsOf(v)
  BY PublicationAssumption DEF RowsOf
<1>4. PublicationTypeOK
  BY <1>2 DEF PublicationTypeOK, VersionStatuses, BuilderPhases, NoFlip
<1>5. BuildsAreCounted
  BY <1>2, <1>3, PublicationAssumption DEF BuildsAreCounted
<1>6. PublishedRows /\ FlipsAreGuarded /\ OneOfAKind
  BY <1>2 DEF PublishedRows, FlipsAreGuarded, OneOfAKind, NoFlip
<1> QED BY <1>4, <1>5, <1>6 DEF PublicationInv

\* Every step of every builder keeps the invariant.
LEMMA PublicationNextInv == PublicationInv /\ [PublicationNext]_publishVars => PublicationInv'
<1>1. SUFFICES ASSUME PublicationInv, [PublicationNext]_publishVars PROVE PublicationInv'
  OBVIOUS
<1>2. ASSUME NEW b \in Builders,
             CreateVersion(b) \/ ResumeBuild(b) \/ Staged(b) \/ RaiseInBuild(b) \/ MarkFailed(b)
      PROVE  PublicationInv'
  BY <1>1, <1>2, BuildSteps
<1>3. ASSUME NEW b \in Builders, StageRow(b) PROVE PublicationInv'
  BY <1>1, <1>3, StageRowStep
<1>4. ASSUME NEW b \in Builders, BeginFlip(b) \/ Demote(b) \/ Promote(b) \/ CrashBuild(b)
      PROVE  PublicationInv'
  BY <1>1, <1>4, FlipSteps, PromoteStep
<1>5. ASSUME NEW b \in Builders, CommitFlip(b) PROVE PublicationInv'
  BY <1>1, <1>5, CommitFlipStep
<1>6. ASSUME NEW b \in Builders, PublishInactive(b) PROVE PublicationInv'
  BY <1>1, <1>6, PublishInactiveStep
<1>7. CASE UNCHANGED publishVars
  <2>1. \A v : Complete(v)' <=> Complete(v) BY <1>7 DEF publishVars, Complete, RowsOf
  <2>2. \A k : ActiveOf(k)' = ActiveOf(k) BY <1>7 DEF publishVars, ActiveOf
  <2>3. \A v : RowsOf(v)' = RowsOf(v) BY DEF RowsOf
  <2> QED BY <1>1, <1>7, <2>1, <2>2, <2>3 DEF publishVars, PublicationInv, PublicationTypeOK,
            BuildsAreCounted, PublishedRows, FlipsAreGuarded, OneOfAKind
<1> QED BY <1>1, <1>2, <1>3, <1>4, <1>5, <1>6, <1>7 DEF PublicationNext

\* Readers find one complete version of a kind from the first one on, "never
\* zero or two", whatever builders race, lose or die (publish_index_version,
\* publish_corpus_version).
THEOREM PublicationSpecComplete == PublicationSpec => []OneCompleteVersion
<1>1. PublicationInv => OneCompleteVersion
  <2>1. SUFFICES ASSUME PublicationInv PROVE OneActiveVersion /\ PublishedIsComplete
    BY DEF OneCompleteVersion
  <2>2. OneActiveVersion
    <3>1. ASSUME NEW kind \in {"index", "corpus"}
          PROVE  /\ Cardinality(ActiveOf(kind)) <= 1
                 /\ kind \in everActive => ActiveOf(kind) # {}
      <4>1. \A v, w \in ActiveOf(kind) : v = w
        BY <2>1 DEF PublicationInv, OneOfAKind, ActiveOf
      <4>2. ActiveOf(kind) = {} \/ \E v : ActiveOf(kind) = {v}
        <5>1. CASE ActiveOf(kind) # {}
          <6>1. PICK v \in ActiveOf(kind) : TRUE BY <5>1
          <6>2. ActiveOf(kind) = {v} BY <4>1, <6>1
          <6> QED BY <6>2
        <5> QED BY <5>1
      <4>3. Cardinality(ActiveOf(kind)) = 0 \/ Cardinality(ActiveOf(kind)) = 1
        BY <4>2, FS_EmptySet, FS_Singleton
      <4> QED BY <2>1, <4>3 DEF PublicationInv, OneOfAKind
    <3> QED BY <3>1 DEF OneActiveVersion
  <2>3. PublishedIsComplete
    BY <2>1 DEF PublicationInv, PublishedRows, PublishedIsComplete, Complete, RowsOf
  <2> QED BY <2>2, <2>3
<1> QED BY <1>1, PublicationInitInv, PublicationNextInv, PTL DEF PublicationSpec

-----------------------------------------------------------------------------
(* Ingestion.                                                               *)

IngestSpec == IngestInit /\ [][IngestNext]_ingestVars

CallPhases == {"idle", "putting", "recording", "parsing", "refused", "persisting", "writing",
               "done"}

\* The transaction of a call, whatever its facts are.
CallShape(r) ==
  /\ r = [pc |-> r.pc, born |-> r.born, inserted |-> r.inserted, facts |-> r.facts,
          returned |-> r.returned]
  /\ r.pc \in CallPhases /\ r.born \in Nat /\ r.inserted \in BOOLEAN

\* The facts an entity has from an accession restate facts it has from the
\* versions D, published earlier.
RestatesIn(D, e, a, facts) ==
  \A i \in DOMAIN facts :
    facts[i].restates # NoLink =>
      /\ Channel[a] = "filing"
      /\ \E w \in D : \E j \in Canonical(w) :
            /\ facts[i].restates = FactId(w, j)
            /\ w.facts[j].key = facts[i].key /\ w.facts[j].value # facts[i].value
            /\ PublishedAt[w.accession] < PublishedAt[a]
            /\ Channel[w.accession] = "filing" /\ w.entity = e

\* A call that works on a job is the first to finish it; its document row is its
\* own, still invisible to others, or was there with the very same bytes.
CallOK(c) ==
  /\ CallShape(call[c])
  /\ call[c].pc \in {"idle", "putting", "recording", "done"} => ~call[c].inserted
  /\ call[c].pc # "done" => call[c].returned = "nothing"
  /\ Ingesting(c) => JobKey(c) \notin DOMAIN ledger /\ call[c].born < began
  /\ call[c].pc \in {"recording", "parsing", "refused", "persisting", "writing"} =>
       RawBlob(CallBytes[c]) \in blobs
  /\ call[c].pc = "writing" => TextBlob(CallBytes[c], CallParser[c]) \in blobs
  /\ call[c].inserted => document[Accession(c)] = NoBytes
  /\ call[c].pc \in {"parsing", "persisting", "writing"} /\ ~call[c].inserted =>
       document[Accession(c)] = CallBytes[c]
  /\ call[c].pc \in {"persisting", "writing"} => RestatesIn(derived, CallEntity[c], Accession(c), call[c].facts)
  /\ call[c].returned \notin {"nothing", "error"} =>
       JobKey(c) \in DOMAIN ledger /\ ledger[JobKey(c)].status = call[c].returned
  /\ call[c].returned = "error" =>
       \E v \in derived : /\ v.accession = Accession(c) /\ v.bytes = CallBytes[c]
                          /\ v.parser = CallParser[c] /\ v.entity # CallEntity[c]

\* One call at a time works on a job, and one has inserted a document row.
CallsApart ==
  \A c, d \in Calls : c # d =>
    /\ Ingesting(c) /\ Ingesting(d) => JobKey(c) # JobKey(d)
    /\ call[c].inserted /\ call[d].inserted => Accession(c) # Accession(d)

VersionOK(v) ==
  /\ v.accession \in Accessions /\ v.bytes # NoBytes /\ v.born \in Nat /\ v.born < began
  /\ document[v.accession] = v.bytes
  /\ RawBlob(v.bytes) \in blobs /\ TextBlob(v.bytes, v.parser) \in blobs
  /\ RestatesIn(derived, v.entity, v.accession, v.facts)

OneVersionPerParse ==
  \A v, w \in derived : v.accession = w.accession /\ v.parser = w.parser => v = w

LedgerMatches ==
  /\ {k \in DOMAIN ledger : ledger[k].status = "succeeded"}
       = {<<v.entity, v.accession, v.bytes, v.parser>> : v \in derived}
  /\ \A k \in DOMAIN ledger : ledger[k].status \in {"succeeded", "quarantined"}

IngestInv ==
  /\ call = [c \in Calls |-> call[c]] /\ document = [a \in Accessions |-> document[a]]
  /\ began \in Nat
  /\ \A c \in Calls : CallOK(c)
  /\ CallsApart
  /\ \A v \in derived : VersionOK(v)
  /\ OneVersionPerParse /\ LedgerMatches

(* Among facts of bounded dates there is a latest one.                      *)
LEMMA LatestExists ==
  ASSUME NEW S, S # {}, NEW A \in Nat, NEW B \in Nat,
         \A p \in S : p.at \in Nat /\ p.at <= A /\ p.born \in Nat /\ p.born <= B
  PROVE  \E p \in S : \A q \in S : q.at < p.at \/ (q.at = p.at /\ q.born <= p.born)
<1>1. PICK T : T = {A - p.at : p \in S}
  OBVIOUS
<1>2. T \subseteq Nat /\ T # {}
  BY <1>1
<1>3. PICK t \in T : \A y \in T : t <= y
  BY <1>2, LeastNatural
<1>4. PICK last \in S : t = A - last.at
  BY <1>1
<1>5. \A q \in S : q.at <= last.at
  <2> SUFFICES ASSUME NEW q \in S PROVE q.at <= last.at
    OBVIOUS
  <2>1. A - q.at \in T
    BY <1>1
  <2>2. A - last.at <= A - q.at
    BY <1>3, <1>4, <2>1
  <2>3. QED
    BY <2>2
<1>6. PICK S2 : S2 = {p \in S : p.at = last.at}
  OBVIOUS
<1>7. PICK T2 : T2 = {B - p.born : p \in S2}
  OBVIOUS
<1>8. T2 \subseteq Nat /\ T2 # {}
  BY <1>6, <1>7
<1>9. PICK t2 \in T2 : \A y \in T2 : t2 <= y
  BY <1>8, LeastNatural
<1>10. PICK p \in S2 : t2 = B - p.born
  BY <1>7
<1>11. ASSUME NEW q \in S PROVE q.at < p.at \/ (q.at = p.at /\ q.born <= p.born)
  <2>1. CASE q.at = last.at
    <3>1. B - q.born \in T2
      BY <1>6, <1>7, <2>1
    <3>2. B - p.born <= B - q.born
      BY <1>9, <1>10, <3>1
    <3>3. p \in S
      BY <1>6
    <3>4. QED
      BY <1>6, <2>1, <3>2, <3>3
  <2>2. CASE q.at # last.at
    BY <1>5, <1>6, <2>2
  <2>3. QED
    BY <2>1, <2>2
<1>12. QED
  BY <1>6, <1>11

LEMMA RestatesGrow ==
  ASSUME NEW D, NEW E, D \subseteq E, NEW e, NEW a, NEW facts, RestatesIn(D, e, a, facts)
  PROVE  RestatesIn(E, e, a, facts)
  BY DEF RestatesIn

(* What a call relies on while others step.                                 *)
LEMMA CallKept ==
  ASSUME NEW d \in Calls, CallOK(d), call'[d] = call[d],
         began \in Nat, began' \in Nat, began <= began',
         blobs \subseteq blobs', derived \subseteq derived',
         Ingesting(d) => JobKey(d) \notin DOMAIN ledger',
         JobKey(d) \in DOMAIN ledger =>
           JobKey(d) \in DOMAIN ledger' /\ ledger'[JobKey(d)] = ledger[JobKey(d)],
         call[d].inserted \/ call[d].pc \in {"parsing", "persisting", "writing"} =>
           document'[Accession(d)] = document[Accession(d)]
  PROVE  CallOK(d)'
<1>1. Ingesting(d)' <=> Ingesting(d)
  BY DEF Ingesting
<1>2. Ingesting(d) => call[d].born < began'
  BY DEF CallOK, CallShape
<1>3. call[d].pc \in {"persisting", "writing"} => RestatesIn(derived', CallEntity[d], Accession(d), call[d].facts)
  BY RestatesGrow DEF CallOK
<1>4. QED
  BY <1>1, <1>2, <1>3 DEF CallOK

LEMMA VersionKept ==
  ASSUME NEW v \in derived, VersionOK(v),
         began \in Nat, began' \in Nat, began <= began',
         blobs \subseteq blobs', derived \subseteq derived',
         document'[v.accession] = document[v.accession]
  PROVE  VersionOK(v)'
<1>1. RestatesIn(derived', v.entity, v.accession, v.facts)
  BY RestatesGrow DEF VersionOK
<1>2. QED
  BY <1>1 DEF VersionOK

(* A step inside a transaction changes nothing others see but the storage.  *)
LEMMA QuietStep ==
  ASSUME IngestInv, NEW c \in Calls, UNCHANGED <<ledger, document, derived>>,
         blobs \subseteq blobs', began' \in Nat, began <= began',
         NEW row, call' = [call EXCEPT ![c] = row], CallOK(c)',
         row.pc \notin {"idle", "done"} =>
           \A d \in Calls \ {c} : Ingesting(d) => JobKey(d) # JobKey(c),
         row.inserted => \A d \in Calls \ {c} : call[d].inserted => Accession(d) # Accession(c)
  PROVE  IngestInv'
<1>0. /\ call = [d \in Calls |-> call[d]] /\ began \in Nat /\ CallsApart
      /\ document = [a \in Accessions |-> document[a]]
      /\ \A d \in Calls : CallOK(d)
      /\ \A v \in derived : VersionOK(v)
      /\ OneVersionPerParse /\ LedgerMatches
  BY DEF IngestInv
<1>1. call'[c] = row /\ \A d \in Calls \ {c} : call'[d] = call[d]
  BY <1>0
<1>2. call' = [d \in Calls |-> call'[d]]
  BY <1>0
<1>3. ASSUME NEW d \in Calls PROVE CallOK(d)'
  <2>1. CASE d = c
    BY <2>1
  <2>2. CASE d # c
    <3>1. call'[d] = call[d] /\ CallOK(d)
      BY <1>0, <1>1, <2>2
    <3>2. Ingesting(d) => JobKey(d) \notin DOMAIN ledger
      BY <3>1 DEF CallOK
    <3>3. QED
      BY <1>0, <3>1, <3>2, CallKept
  <2>3. QED
    BY <2>1, <2>2
<1>4. CallsApart'
  <2>1. ASSUME NEW a \in Calls, NEW b \in Calls, a # b
        PROVE  /\ Ingesting(a)' /\ Ingesting(b)' => JobKey(a) # JobKey(b)
               /\ call'[a].inserted /\ call'[b].inserted => Accession(a) # Accession(b)
    BY <1>0, <1>1, <2>1 DEF CallsApart, Ingesting
  <2>2. QED
    BY <2>1 DEF CallsApart, JobKey, Accession
<1>5. ASSUME NEW v \in derived' PROVE VersionOK(v)'
  BY <1>0, <1>5, VersionKept
<1>6. OneVersionPerParse' /\ LedgerMatches'
  BY <1>0 DEF OneVersionPerParse, LedgerMatches
<1>7. document' = [a \in Accessions |-> document'[a]]
  BY <1>0
<1>8. QED
  BY <1>2, <1>3, <1>4, <1>5, <1>6, <1>7 DEF IngestInv

(* A fact restates a prior fact that exists.                                *)
LEMMA PriorFactExists ==
  ASSUME IngestInv, NEW c \in Calls, NEW key, PriorCanonicalFact(c, key) # NoLink
  PROVE  PriorCanonicalFact(c, key) \in PriorFacts(c, key)
<1>0. PICK a \in Accessions : a = Accession(c)
  BY IngestionAssumption DEF Accession
<1>1. PICK prior : prior = PriorFacts(c, key)
  BY Zenon
<1>2. prior # {}
  BY <1>1 DEF PriorCanonicalFact
<1>3. began \in Nat /\ PublishedAt[a] \in Nat
  BY IngestionAssumption DEF IngestInv
<1>4. ASSUME NEW p \in prior
      PROVE  p.at \in Nat /\ p.at <= PublishedAt[a] /\ p.born \in Nat /\ p.born <= began
  <2>1. PICK v \in derived : \E i \in Canonical(v) :
          /\ v.accession \in Restatable(a)
          /\ p = [id |-> FactId(v, i), value |-> v.facts[i].value,
                  at |-> PublishedAt[v.accession], born |-> v.born]
    BY <1>0, <1>1, <1>4 DEF PriorFacts
  <2>2. v.accession \in Accessions /\ v.born \in Nat /\ v.born < began
    BY <2>1 DEF IngestInv, VersionOK
  <2>3. PublishedAt[v.accession] \in Nat /\ PublishedAt[v.accession] < PublishedAt[a]
    BY <2>1, <2>2, IngestionAssumption DEF Restatable
  <2>4. p.at = PublishedAt[v.accession] /\ p.born = v.born
    BY <2>1
  <2>5. QED
    BY <1>3, <2>2, <2>3, <2>4
<1>5. \E p \in prior : \A q \in prior : q.at < p.at \/ (q.at = p.at /\ q.born <= p.born)
  BY <1>2, <1>3, <1>4, LatestExists
<1>6. PriorCanonicalFact(c, key) =
        CHOOSE p \in prior : \A q \in prior : q.at < p.at \/ (q.at = p.at /\ q.born <= p.born)
  BY <1>1, <1>2, Zenon DEF PriorCanonicalFact
<1>7. QED
  BY <1>1, <1>5, <1>6

(* So what normalisation links is true when it is linked.                   *)
LEMMA NormalizedRestates ==
  ASSUME IngestInv, NEW c \in Calls
  PROVE  RestatesIn(derived, CallEntity[c], Accession(c), NormalizedFacts(c))
<1>1. PICK a \in Accessions : a = Accession(c)
  BY IngestionAssumption DEF Accession
<1>2. PICK facts : facts = Valued(FactsIn[CallParser[c]][CallBytes[c]])
  BY Zenon
<1>3. PICK plain : plain = NormalizeCompanyFacts(facts)
  BY Zenon
<1>4. /\ DOMAIN plain = DOMAIN facts
      /\ \A i \in DOMAIN facts : /\ plain[i].key = facts[i][1] /\ plain[i].value = facts[i][2]
                                 /\ plain[i].restates = NoLink
                                 /\ DOMAIN plain[i] = {"key", "value", "duplicateOf", "restates"}
  BY <1>3 DEF NormalizeCompanyFacts
<1>5. CASE Channel[a] # "filing"
  <2>1. NormalizedFacts(c) = plain
    BY <1>1, <1>2, <1>3, <1>5, Zenon DEF NormalizedFacts
  <2>2. QED
    BY <1>1, <1>4, <2>1 DEF RestatesIn
<1>6. CASE Channel[a] = "filing"
  <2>1. PICK linked : linked = NormalizeFacts(c, facts)
    BY Zenon
  <2>2. NormalizedFacts(c) = linked
    BY <1>1, <1>2, <1>6, <2>1, Zenon DEF NormalizedFacts
  <2>3. DOMAIN linked = DOMAIN facts
    BY <2>1 DEF NormalizeFacts
  <2>4. ASSUME NEW i \in DOMAIN facts, linked[i].restates # NoLink
        PROVE  \E w \in derived : \E j \in Canonical(w) :
                 /\ linked[i].restates = FactId(w, j)
                 /\ w.facts[j].key = linked[i].key /\ w.facts[j].value # linked[i].value
                 /\ PublishedAt[w.accession] < PublishedAt[a]
                 /\ Channel[w.accession] = "filing" /\ w.entity = CallEntity[c]
    <3>1. PICK key : key = facts[i][1]
      OBVIOUS
    <3>2. PICK prior : prior = PriorCanonicalFact(c, key)
      BY Zenon
    <3>3. linked[i] = [plain[i] EXCEPT !.restates =
                         IF prior # NoLink /\ prior.value # facts[i][2] THEN prior.id ELSE NoLink]
      BY <1>3, <2>1, <3>1, <3>2 DEF NormalizeFacts
    <3>4. /\ linked[i].key = key /\ linked[i].value = facts[i][2]
          /\ prior # NoLink /\ prior.value # facts[i][2] /\ linked[i].restates = prior.id
      BY <1>4, <2>4, <3>1, <3>3
    <3>5. prior \in PriorFacts(c, key)
      BY <3>2, <3>4, PriorFactExists
    <3>6. PICK w \in derived : \E j \in Canonical(w) :
            /\ w.entity = CallEntity[c]
            /\ w.accession \in Restatable(a) /\ w.facts[j].key = key
            /\ prior = [id |-> FactId(w, j), value |-> w.facts[j].value,
                        at |-> PublishedAt[w.accession], born |-> w.born]
      BY <1>1, <3>5 DEF PriorFacts
    <3>7. PICK j \in Canonical(w) :
            /\ w.entity = CallEntity[c]
            /\ w.accession \in Restatable(a) /\ w.facts[j].key = key
            /\ prior = [id |-> FactId(w, j), value |-> w.facts[j].value,
                        at |-> PublishedAt[w.accession], born |-> w.born]
      BY <3>6
    <3>8. prior.id = FactId(w, j) /\ prior.value = w.facts[j].value
      BY <3>7
    <3>9. /\ PublishedAt[w.accession] < PublishedAt[a]
          /\ Channel[w.accession] = "filing" /\ w.entity = CallEntity[c]
      BY <1>1, <3>7 DEF Restatable
    <3>10. QED
      BY <3>4, <3>7, <3>8, <3>9
  <2>5. QED
    BY <1>1, <1>6, <2>2, <2>3, <2>4 DEF RestatesIn
<1>7. QED
  BY <1>5, <1>6

(* The end of a transaction: its document row and its ledger row become     *)
(* visible, with the version if it succeeded.                               *)
LEMMA EndStep ==
  ASSUME IngestInv, NEW c \in Calls, Ingesting(c), NEW status \in {"succeeded", "quarantined"},
         document' = DocumentAfter(c), ledger' = LedgerWith(c, status), Returned(c, status),
         UNCHANGED <<blobs, began>>,
         IF status = "succeeded" THEN /\ call[c].pc = "writing" /\ ~AlreadyParsed(c)
                                      /\ derived' = derived \cup {VersionRow(c)}
                                 ELSE derived' = derived
  PROVE  IngestInv'
<1>0. /\ call = [d \in Calls |-> call[d]] /\ began \in Nat /\ CallsApart
      /\ document = [a \in Accessions |-> document[a]]
      /\ \A d \in Calls : CallOK(d)
      /\ \A v \in derived : VersionOK(v)
      /\ OneVersionPerParse /\ LedgerMatches
      /\ derived \subseteq derived'
  BY DEF IngestInv
<1>1. PICK row : row = [Unbegun EXCEPT !.pc = "done", !.returned = status]
  OBVIOUS
<1>2. row = [pc |-> "done", born |-> 0, inserted |-> FALSE, facts |-> <<>>, returned |-> status]
  BY <1>1 DEF Unbegun
<1>3. /\ call' = [d \in Calls |-> call'[d]] /\ call'[c] = row
      /\ \A d \in Calls \ {c} : call'[d] = call[d]
  BY <1>0, <1>1 DEF Returned
<1>4. /\ JobKey(c) \notin DOMAIN ledger
      /\ DOMAIN ledger' = DOMAIN ledger \cup {JobKey(c)}
      /\ ledger'[JobKey(c)].status = status
      /\ \A k \in DOMAIN ledger : ledger'[k] = ledger[k]
  BY <1>0 DEF LedgerWith, CallOK
<1>5. Accession(c) \in Accessions /\ CallBytes[c] # NoBytes
  BY IngestionAssumption DEF Accession
(* Rows that had bytes keep them: only an empty one is filled.              *)
<1>6. /\ document' = [a \in Accessions |-> document'[a]]
      /\ \A a \in Accessions : document[a] # NoBytes \/ a # Accession(c) =>
           document'[a] = document[a]
      /\ call[c].inserted => document[Accession(c)] = NoBytes /\ document'[Accession(c)] = CallBytes[c]
      /\ ~call[c].inserted => document' = document
  BY <1>0, <1>5 DEF DocumentAfter, CallOK
<1>7. ASSUME NEW d \in Calls PROVE CallOK(d)'
  <2>1. CASE d = c
    <3>1. call'[d] = row /\ ~Ingesting(d)'
      BY <1>2, <1>3, <2>1 DEF Ingesting
    <3>2. CallShape(row)
      BY <1>2 DEF CallShape, CallPhases
    <3>3. JobKey(d)' = JobKey(c) /\ status \notin {"nothing", "error"}
      BY <2>1 DEF JobKey
    <3>4. QED
      BY <1>2, <1>4, <2>1, <3>1, <3>2, <3>3 DEF CallOK
  <2>2. CASE d # c
    <3>1. call'[d] = call[d] /\ CallOK(d)
      BY <1>0, <1>3, <2>2
    <3>2. Ingesting(d) => JobKey(d) \notin DOMAIN ledger'
      BY <1>0, <1>4, <2>2, <3>1 DEF CallsApart, CallOK
    <3>3. ASSUME call[d].inserted \/ call[d].pc \in {"parsing", "persisting", "writing"}
          PROVE  document'[Accession(d)] = document[Accession(d)]
      <4>1. Accession(d) \in Accessions /\ CallBytes[d] # NoBytes
        BY IngestionAssumption DEF Accession
      <4>2. CASE ~call[d].inserted
        BY <1>6, <3>1, <3>3, <4>1, <4>2 DEF CallOK
      <4>3. CASE call[d].inserted /\ call[c].inserted
        BY <1>0, <1>6, <2>2, <4>1, <4>3 DEF CallsApart
      <4>4. CASE ~call[c].inserted
        BY <1>6, <4>4
      <4>5. QED
        BY <4>2, <4>3, <4>4
    <3>4. QED
      BY <1>0, <1>4, <3>1, <3>2, <3>3, CallKept
  <2>3. QED
    BY <2>1, <2>2
<1>8. CallsApart'
  <2>1. ASSUME NEW a \in Calls, NEW b \in Calls, a # b
        PROVE  /\ Ingesting(a)' /\ Ingesting(b)' => JobKey(a) # JobKey(b)
               /\ call'[a].inserted /\ call'[b].inserted => Accession(a) # Accession(b)
    BY <1>0, <1>2, <1>3, <2>1 DEF CallsApart, Ingesting
  <2>2. QED
    BY <2>1 DEF CallsApart, JobKey, Accession
<1>9. ASSUME NEW v \in derived PROVE VersionOK(v)'
  <2>1. VersionOK(v)
    BY <1>0
  <2>2. document'[v.accession] = document[v.accession]
    BY <1>6, <2>1 DEF VersionOK
  <2>3. QED
    BY <1>0, <2>1, <2>2, VersionKept
<1>10. CASE status # "succeeded"
  <2>1. derived' = derived /\ status = "quarantined"
    BY <1>10
  <2>2. {k \in DOMAIN ledger' : ledger'[k].status = "succeeded"}
          = {k \in DOMAIN ledger : ledger[k].status = "succeeded"}
    BY <1>4, <2>1
  <2>3. OneVersionPerParse' /\ LedgerMatches'
    BY <1>0, <1>4, <2>1, <2>2 DEF OneVersionPerParse, LedgerMatches
  <2>4. QED
    BY <1>0, <1>3, <1>6, <1>7, <1>8, <1>9, <2>1, <2>3 DEF IngestInv
<1>11. CASE status = "succeeded"
  <2>1. PICK new : new = VersionRow(c)
    OBVIOUS
  <2>2. /\ new.entity = CallEntity[c] /\ new.accession = Accession(c)
        /\ new.bytes = CallBytes[c] /\ new.parser = CallParser[c]
        /\ new.born = call[c].born /\ new.facts = call[c].facts
    BY <2>1 DEF VersionRow
  <2>3. derived' = derived \cup {new} /\ call[c].pc = "writing" /\ CallOK(c)
    BY <1>0, <1>11, <2>1
  (* The version was parsed from the bytes the document row now holds.      *)
  <2>4. VersionOK(new)'
    <3>1. document'[Accession(c)] = CallBytes[c]
      BY <1>6, <2>3 DEF CallOK
    <3>2. RestatesIn(derived', CallEntity[c], Accession(c), call[c].facts)
      BY <1>0, <2>3, RestatesGrow DEF CallOK
    <3>3. call[c].born \in Nat /\ call[c].born < began'
      BY <2>3 DEF CallOK, CallShape
    <3>4. RawBlob(CallBytes[c]) \in blobs' /\ TextBlob(CallBytes[c], CallParser[c]) \in blobs'
      BY <2>3 DEF CallOK
    <3>5. QED
      BY <1>5, <2>2, <3>1, <3>2, <3>3, <3>4 DEF VersionOK
  (* The database has refused a second parse of the document.               *)
  <2>5. ASSUME NEW v \in derived, v.accession = Accession(c), v.parser = CallParser[c]
        PROVE  FALSE
    BY <1>11, <2>5 DEF AlreadyParsed
  <2>6. OneVersionPerParse'
    BY <1>0, <2>2, <2>3, <2>5 DEF OneVersionPerParse
  <2>7. LedgerMatches'
    <3>1. {k \in DOMAIN ledger' : ledger'[k].status = "succeeded"}
            = {k \in DOMAIN ledger : ledger[k].status = "succeeded"} \cup {JobKey(c)}
      BY <1>4, <1>11
    <3>2. <<new.entity, new.accession, new.bytes, new.parser>> = JobKey(c)
      BY <2>2 DEF JobKey, Accession
    <3>3. {<<v.entity, v.accession, v.bytes, v.parser>> : v \in derived'}
            = {<<v.entity, v.accession, v.bytes, v.parser>> : v \in derived} \cup {JobKey(c)}
      BY <2>3, <3>2
    <3>4. QED
      BY <1>0, <1>4, <3>1, <3>3 DEF LedgerMatches
  <2>8. QED
    BY <1>0, <1>3, <1>6, <1>7, <1>8, <1>9, <2>3, <2>4, <2>6, <2>7 DEF IngestInv
<1>12. QED
  BY <1>10, <1>11

LEMMA IngestInitInv == IngestInit => IngestInv
<1> SUFFICES ASSUME IngestInit PROVE IngestInv
  OBVIOUS
<1>1. ASSUME NEW c \in Calls PROVE CallOK(c)
  <2>1. /\ call[c] = [pc |-> "idle", born |-> 0, inserted |-> FALSE, facts |-> <<>>,
                      returned |-> "nothing"]
    BY DEF IngestInit, Unbegun
  <2>2. CallShape(call[c])
    BY <2>1 DEF CallShape, CallPhases
  <2>3. ~Ingesting(c) /\ call[c].pc = "idle" /\ ~call[c].inserted /\ call[c].returned = "nothing"
    BY <2>1 DEF Ingesting
  <2>4. QED
    BY <2>2, <2>3 DEF CallOK
<1>2. CallsApart
  BY DEF IngestInit, CallsApart, Ingesting, Unbegun
<1>3. LedgerMatches
  BY DEF IngestInit, LedgerMatches
<1>4. /\ call = [c \in Calls |-> call[c]] /\ document = [a \in Accessions |-> document[a]]
  BY DEF IngestInit
<1>5. QED
  BY <1>1, <1>2, <1>3, <1>4 DEF IngestInit, IngestInv, OneVersionPerParse

LEMMA IngestStepInv == IngestInv /\ [IngestNext]_ingestVars => IngestInv'
<1> SUFFICES ASSUME IngestInv, [IngestNext]_ingestVars PROVE IngestInv'
  OBVIOUS
<1>0. /\ call = [d \in Calls |-> call[d]] /\ began \in Nat /\ CallsApart
      /\ \A d \in Calls : CallOK(d)
  BY DEF IngestInv
<1>1. ASSUME NEW c \in Calls, ClaimIngest(c) PROVE IngestInv'
  <2>1. CallOK(c) /\ CallShape(call[c]) /\ call[c].pc = "idle" /\ ~call[c].inserted
    BY <1>0, <1>1 DEF CallOK, ClaimIngest
  <2>2. PICK row : row = IF JobKey(c) \in DOMAIN ledger
                         THEN [call[c] EXCEPT !.pc = "done", !.returned = ledger[JobKey(c)].status]
                         ELSE [call[c] EXCEPT !.pc = "putting", !.born = began]
    OBVIOUS
  <2>3. call' = [call EXCEPT ![c] = row] /\ call'[c] = row
    BY <1>0, <1>1, <2>2 DEF ClaimIngest
  <2>4. /\ row.inserted = call[c].inserted /\ row.facts = call[c].facts /\ CallShape(row)
        /\ JobKey(c) \in DOMAIN ledger =>
             /\ row.pc = "done" /\ row.returned = ledger[JobKey(c)].status
        /\ JobKey(c) \notin DOMAIN ledger =>
             /\ row.pc = "putting" /\ row.born = began /\ row.returned = "nothing"
    BY <1>0, <2>1, <2>2 DEF CallShape, CallPhases, CallOK
  <2>5. began' = began + 1 /\ UNCHANGED <<ledger, document, derived, blobs>>
    BY <1>1 DEF ClaimIngest
  <2>6. CallOK(c)'
    <3>1. JobKey(c) \in DOMAIN ledger => row.returned \in {"succeeded", "quarantined"}
      BY <2>4 DEF IngestInv, LedgerMatches
    <3>2. QED
      BY <1>0, <2>1, <2>3, <2>4, <2>5, <3>1 DEF CallOK, Ingesting, JobKey
  <2>7. \A d \in Calls \ {c} : Ingesting(d) => JobKey(d) # JobKey(c)
    BY <1>1 DEF ClaimIngest, MayClaim
  <2>8. QED
    BY <1>0, <2>1, <2>3, <2>4, <2>5, <2>6, <2>7, QuietStep
<1>2. ASSUME NEW c \in Calls, Ingesting(c) PROVE \A d \in Calls \ {c} : Ingesting(d) => JobKey(d) # JobKey(c)
  BY <1>0, <1>2 DEF CallsApart
<1>3. ASSUME NEW c \in Calls, NEW phase \in CallPhases, NEW row, Ingesting(c),
             row = [call[c] EXCEPT !.pc = phase], call' = [call EXCEPT ![c] = row],
             UNCHANGED <<ledger, document, derived, began>>, blobs \subseteq blobs', CallOK(c)'
      PROVE  IngestInv'
  <2>1. CallShape(call[c])
    BY <1>0 DEF CallOK
  <2>2. row.inserted = call[c].inserted
    BY <1>3, <2>1 DEF CallShape
  <2>3. call[c].inserted => \A d \in Calls \ {c} : call[d].inserted => Accession(d) # Accession(c)
    BY <1>0 DEF CallsApart
  <2>4. QED
    <3>1. began' \in Nat /\ began <= began'
      BY <1>0, <1>3
    <3>2. \A d \in Calls \ {c} : Ingesting(d) => JobKey(d) # JobKey(c)
      BY <1>2, <1>3
    <3>3. QED
      BY <1>3, <2>2, <2>3, <3>1, <3>2, QuietStep
<1>4. ASSUME NEW c \in Calls, NEW phase \in CallPhases
      PROVE  \E row : /\ row = [call[c] EXCEPT !.pc = phase] /\ CallShape(row) /\ row.pc = phase
                      /\ row.born = call[c].born /\ row.inserted = call[c].inserted
                      /\ row.facts = call[c].facts /\ row.returned = call[c].returned
  <2>1. CallShape(call[c])
    BY <1>0 DEF CallOK
  <2>2. PICK row : row = [call[c] EXCEPT !.pc = phase]
    OBVIOUS
  <2>3. /\ row.pc = phase /\ row.born = call[c].born /\ row.inserted = call[c].inserted
        /\ row.facts = call[c].facts /\ row.returned = call[c].returned
        /\ row = [pc |-> phase, born |-> call[c].born, inserted |-> call[c].inserted,
                  facts |-> call[c].facts, returned |-> call[c].returned]
    BY <2>1, <2>2 DEF CallShape
  <2>4. CallShape(row)
    BY <2>1, <2>3 DEF CallShape
  <2>5. QED
    BY <2>2, <2>3, <2>4
<1>5. ASSUME NEW c \in Calls, PutRaw(c) PROVE IngestInv'
  <2>1. "recording" \in CallPhases
    BY DEF CallPhases
  <2>2. PICK row : /\ row = [call[c] EXCEPT !.pc = "recording"] /\ CallShape(row)
                   /\ row.pc = "recording"
                   /\ row.born = call[c].born /\ row.inserted = call[c].inserted
                   /\ row.facts = call[c].facts /\ row.returned = call[c].returned
    BY <1>4, <2>1
  <2>3. call' = [call EXCEPT ![c] = row] /\ call'[c] = row
    BY <1>0, <1>5, <2>2 DEF PutRaw, MoveTo
  <2>4. CallOK(c) /\ call[c].pc = "putting" /\ Ingesting(c)
    BY <1>0, <1>5 DEF PutRaw, Ingesting
  <2>5. UNCHANGED <<ledger, document, derived, began>> /\ blobs' = blobs \cup {RawBlob(CallBytes[c])}
    BY <1>5 DEF PutRaw
  <2>6. CallOK(c)'
    BY <2>2, <2>3, <2>4, <2>5 DEF CallOK, Ingesting, JobKey
  <2>7. QED
    BY <1>3, <2>1, <2>2, <2>3, <2>4, <2>5, <2>6
<1>6. ASSUME NEW c \in Calls, PutText(c) PROVE IngestInv'
  <2>1. "writing" \in CallPhases
    BY DEF CallPhases
  <2>2. PICK row : /\ row = [call[c] EXCEPT !.pc = "writing"] /\ CallShape(row)
                   /\ row.pc = "writing"
                   /\ row.born = call[c].born /\ row.inserted = call[c].inserted
                   /\ row.facts = call[c].facts /\ row.returned = call[c].returned
    BY <1>4, <2>1
  <2>3. call' = [call EXCEPT ![c] = row] /\ call'[c] = row
    BY <1>0, <1>6, <2>2 DEF PutText, MoveTo
  <2>4. CallOK(c) /\ call[c].pc = "persisting" /\ Ingesting(c)
    BY <1>0, <1>6 DEF PutText, Ingesting
  <2>5. /\ UNCHANGED <<ledger, document, derived, began>>
        /\ blobs' = blobs \cup {TextBlob(CallBytes[c], CallParser[c])}
    BY <1>6 DEF PutText
  <2>6. CallOK(c)'
    BY <2>2, <2>3, <2>4, <2>5 DEF CallOK, Ingesting, JobKey
  <2>7. QED
    BY <1>3, <2>1, <2>2, <2>3, <2>4, <2>5, <2>6
(* Nobody else's uncommitted row is in the way, and the row that is there   *)
(* has these bytes or the call is refused.                                  *)
<1>7. ASSUME NEW c \in Calls, RecordDocument(c) PROVE IngestInv'
  <2>1. CallOK(c) /\ CallShape(call[c]) /\ call[c].pc = "recording" /\ Ingesting(c)
    BY <1>0, <1>7 DEF CallOK, RecordDocument, Ingesting
  <2>2. PICK row : row = [call[c] EXCEPT !.inserted = (document[Accession(c)] = NoBytes),
                                         !.pc = IF Divergent(c) THEN "refused" ELSE "parsing"]
    OBVIOUS
  <2>3. call' = [call EXCEPT ![c] = row] /\ call'[c] = row
    BY <1>0, <1>7, <2>2 DEF RecordDocument
  <2>4. /\ row.pc = IF Divergent(c) THEN "refused" ELSE "parsing"
        /\ row.inserted = (document[Accession(c)] = NoBytes)
        /\ row.born = call[c].born /\ row.facts = call[c].facts /\ row.returned = call[c].returned
        /\ row = [pc |-> row.pc, born |-> row.born, inserted |-> row.inserted,
                  facts |-> row.facts, returned |-> row.returned]
    BY <2>1, <2>2 DEF CallShape
  <2>5. CallShape(row) /\ row.pc \in {"refused", "parsing"}
    BY <2>1, <2>4 DEF CallShape, CallPhases
  <2>6. UNCHANGED <<ledger, document, derived, blobs, began>>
    BY <1>7 DEF RecordDocument
  <2>7. /\ row.inserted => document[Accession(c)] = NoBytes
        /\ ~row.inserted /\ row.pc = "parsing" => document[Accession(c)] = CallBytes[c]
    BY <2>4 DEF Divergent
  <2>8. CallOK(c)'
    BY <2>1, <2>3, <2>4, <2>5, <2>6, <2>7 DEF CallOK, Ingesting, JobKey
  <2>9. \A d \in Calls \ {c} : call[d].inserted => Accession(d) # Accession(c)
    BY <1>7 DEF RecordDocument
  <2>10. QED
    BY <1>0, <1>2, <2>1, <2>3, <2>6, <2>8, <2>9, QuietStep
<1>8. ASSUME NEW c \in Calls, Parse(c) PROVE IngestInv'
  <2>1. CallOK(c) /\ CallShape(call[c]) /\ call[c].pc = "parsing" /\ Ingesting(c)
    BY <1>0, <1>8 DEF CallOK, Parse, Ingesting
  <2>2. PICK row : /\ \/ row = [call[c] EXCEPT !.pc = "refused"]
                      \/ row = [call[c] EXCEPT !.pc = "persisting", !.facts = NormalizedFacts(c)]
                   /\ call' = [call EXCEPT ![c] = row]
    BY <1>8 DEF Parse
  <2>3. call'[c] = row
    BY <1>0, <2>2
  <2>4. /\ row.inserted = call[c].inserted
        /\ row.born = call[c].born /\ row.returned = call[c].returned
        /\ row.pc = "refused" \/ (row.pc = "persisting" /\ row.facts = NormalizedFacts(c))
        /\ row = [pc |-> row.pc, born |-> row.born, inserted |-> row.inserted,
                  facts |-> row.facts, returned |-> row.returned]
    BY <2>1, <2>2 DEF CallShape
  <2>5. CallShape(row)
    BY <2>1, <2>4 DEF CallShape, CallPhases
  <2>6. UNCHANGED <<ledger, document, derived, blobs, began>>
    BY <1>8 DEF Parse
  <2>7. RestatesIn(derived, CallEntity[c], Accession(c), NormalizedFacts(c))
    BY NormalizedRestates
  <2>8. CallOK(c)'
    BY <2>1, <2>3, <2>4, <2>5, <2>6, <2>7 DEF CallOK, Ingesting, JobKey
  <2>9. row.inserted => \A d \in Calls \ {c} : call[d].inserted => Accession(d) # Accession(c)
    BY <1>0, <2>4 DEF CallsApart
  <2>10. QED
    BY <1>0, <1>2, <2>1, <2>2, <2>6, <2>8, <2>9, QuietStep
<1>9. ASSUME NEW c \in Calls, CrashIngest(c) PROVE IngestInv'
  <2>1. PICK row : row = [Unbegun EXCEPT !.pc = "done"]
    OBVIOUS
  <2>2. row = [pc |-> "done", born |-> 0, inserted |-> FALSE, facts |-> <<>>, returned |-> "nothing"]
    BY <2>1 DEF Unbegun
  <2>3. call' = [call EXCEPT ![c] = row] /\ call'[c] = row
    BY <1>0, <1>9, <2>1 DEF CrashIngest
  <2>4. CallShape(row)
    BY <2>2 DEF CallShape, CallPhases
  <2>5. UNCHANGED <<ledger, document, derived, blobs, began>>
    BY <1>9 DEF CrashIngest
  <2>6. CallOK(c)'
    BY <2>2, <2>3, <2>4 DEF CallOK, Ingesting
  <2>7. QED
    BY <1>0, <2>2, <2>3, <2>5, <2>6, QuietStep
<1>10. ASSUME NEW c \in Calls, Quarantine(c) PROVE IngestInv'
  <2>1. Ingesting(c)
    BY <1>10 DEF Quarantine, Ingesting
  <2>2. QED
    BY <1>10, <2>1, EndStep DEF Quarantine
<1>11. ASSUME NEW c \in Calls, CommitVersion(c) PROVE IngestInv'
  <2>1. Ingesting(c)
    BY <1>11 DEF CommitVersion, Ingesting
  <2>2. QED
    BY <1>11, <2>1, EndStep DEF CommitVersion
(* The version in the way was parsed from the document's bytes, and the job *)
(* of this entity would be in the ledger had it written it.                 *)
<1>12. ASSUME NEW c \in Calls, RefuseVersion(c) PROVE IngestInv'
  <2>1. CallOK(c) /\ call[c].pc = "writing" /\ Ingesting(c)
    BY <1>0, <1>12 DEF RefuseVersion, Ingesting
  <2>2. PICK v \in derived : v.accession = Accession(c) /\ v.parser = CallParser[c]
    BY <1>12 DEF RefuseVersion, AlreadyParsed
  <2>3. document[Accession(c)] = v.bytes /\ v.bytes # NoBytes
    BY <2>2 DEF IngestInv, VersionOK
  <2>4. v.bytes = CallBytes[c]
    BY <2>1, <2>3 DEF CallOK
  <2>5. v.entity # CallEntity[c]
    <3>1. <<v.entity, v.accession, v.bytes, v.parser>> \in DOMAIN ledger
      BY <2>2 DEF IngestInv, LedgerMatches
    <3>2. JobKey(c) \notin DOMAIN ledger
      BY <2>1 DEF CallOK
    <3>3. QED
      BY <2>2, <2>4, <3>1, <3>2 DEF JobKey, Accession
  <2>6. PICK row : row = [Unbegun EXCEPT !.pc = "done", !.returned = "error"]
    OBVIOUS
  <2>7. row = [pc |-> "done", born |-> 0, inserted |-> FALSE, facts |-> <<>>, returned |-> "error"]
    BY <2>6 DEF Unbegun
  <2>8. call' = [call EXCEPT ![c] = row] /\ call'[c] = row
    BY <1>0, <1>12, <2>6 DEF RefuseVersion, Returned
  <2>9. CallShape(row)
    BY <2>7 DEF CallShape, CallPhases
  <2>10. UNCHANGED <<ledger, document, derived, blobs, began>>
    BY <1>12 DEF RefuseVersion
  <2>11. CallOK(c)'
    BY <2>2, <2>4, <2>5, <2>7, <2>8, <2>9, <2>10 DEF CallOK, Ingesting, Accession
  <2>12. QED
    BY <1>0, <2>7, <2>8, <2>10, <2>11, QuietStep
<1>13. CASE UNCHANGED ingestVars
  BY <1>13 DEF ingestVars, IngestInv, CallOK, CallShape, CallsApart, VersionOK, OneVersionPerParse,
               LedgerMatches, Ingesting, JobKey, Accession, RestatesIn
<1>14. QED
  BY <1>1, <1>5, <1>6, <1>7, <1>8, <1>9, <1>10, <1>11, <1>12, <1>13 DEF IngestNext

(* What was ingested stays what it was and says truly what it restates,     *)
(* for any calls, documents and parsers, whatever calls race or die         *)
(* (ingest_filing, _prior_canonical_facts).                                 *)
THEOREM IngestSpecFaithful == IngestSpec => []EvidenceIsFaithful
<1>1. IngestInv => EvidenceIsFaithful
  <2> SUFFICES ASSUME IngestInv PROVE EvidenceIsFaithful
    OBVIOUS
  <2>1. RestatesEarlierFiling
    BY DEF IngestInv, VersionOK, RestatesIn, RestatesEarlierFiling
  <2>2. ASSUME NEW v \in derived, NEW w \in derived, v # w
        PROVE  <<v.accession, v.parser>> # <<w.accession, w.parser>>
    BY <2>2 DEF IngestInv, OneVersionPerParse
  <2>3. ASSUME NEW v \in derived
        PROVE  /\ document[v.accession] = v.bytes
               /\ {RawBlob(v.bytes), TextBlob(v.bytes, v.parser)} \subseteq blobs
    BY DEF IngestInv, VersionOK
  <2>4. EvidenceIsImmutable
    BY <2>2, <2>3 DEF IngestInv, LedgerMatches, CallOK, EvidenceIsImmutable
  <2>5. QED
    BY <2>1, <2>4 DEF EvidenceIsFaithful
<1>2. QED
  BY <1>1, IngestInitInv, IngestStepInv, PTL DEF IngestSpec

-----------------------------------------------------------------------------
(* The outside sources.                                                     *)

FetchSpec == FetchInit /\ [][FetchNext]_fetchVars

FetchPhases == {"idle", "waiting", "sending", "replying", "reading", "parsing", "failed"}

JobShape(r) ==
  /\ r = [pc |-> r.pc, of |-> r.of, attempt |-> r.attempt, hop |-> r.hop, host |-> r.host,
          started |-> r.started, size |-> r.size, read |-> r.read, revision |-> r.revision,
          left |-> r.left]
  /\ r.pc \in FetchPhases /\ r.attempt \in Nat /\ r.hop \in Nat /\ r.started \in Int
  /\ r.size \in Nat /\ r.read \in Int /\ r.revision \in Nat

\* The requests of a delivery are not ahead of the clock, and they are apart.
FetchClock ==
  /\ now \in Int /\ lastRequestAt \in [JobKinds -> Int]
  /\ opened \in Seq(Int) /\ (Len(opened) > 0 => opened[Len(opened)] <= now)
  /\ \A i \in 1 .. Len(opened) - 1 :
       /\ opened[i + 1] - opened[i] >= MinInterval
       /\ opened[i + 1] - opened[i] >= RetryDelay(i)

\* The attempts of a delivery are counted by the job, and the last one began when
\* the throttle of its client says.
FetchAttempts ==
  /\ job.pc # "idle" => job.of \in Fetches /\ job.attempt <= MaxRetries
  /\ job.pc = "waiting" => Len(opened) = job.attempt
  /\ job.pc \notin {"idle", "waiting"} => Len(opened) = job.attempt + 1
  /\ Len(opened) <= MaxRetries + 1
  /\ job.pc # "idle" /\ Len(opened) > 0 => lastRequestAt[Client] = opened[Len(opened)]

\* Bytes that were counted came in time, and what is left of a listing is what has
\* no fetch job yet.
FetchBody ==
  /\ job.pc \in {"sending", "replying"} => job.size = 0
  /\ job.pc = "reading" =>
       job.size <= MaxBytes /\ (job.size > 0 => job.read - job.started <= Deadline)
  /\ job.pc = "parsing" =>
       /\ job.size \in 1 .. MaxBytes /\ job.read - job.started <= Deadline
       /\ JobKind[job.of] = "discovery" =>
            \A a \in 1 .. job.revision : a \in job.left \/ a \in fetched

FetchResults ==
  /\ \A c \in contacted : c[2] \in AllowedHosts[c[1]]
  /\ \A r \in results :
       /\ r.size \in 1 .. MaxBytes /\ r.took <= Deadline /\ r.attempts <= MaxRetries + 1
       /\ JobKind[r.job] = "vintage" /\ r.revision # 0 => Releases[r.revision] < AsOf[r.job]
       /\ JobKind[r.job] = "discovery" => \A a \in 1 .. r.revision : a \in fetched

FetchInv == JobShape(job) /\ FetchClock /\ FetchAttempts /\ FetchBody /\ FetchResults

LEMMA MaxOfTwo ==
  ASSUME NEW x \in Int, NEW y \in Int
  PROVE  Max({x, y}) \in {x, y} /\ Max({x, y}) >= x /\ Max({x, y}) >= y
<1>1. PICK S : S = {x, y}
  OBVIOUS
<1>2. \E m \in S : \A z \in S : m >= z
  BY <1>1
<1>3. Max(S) \in S /\ \A z \in S : Max(S) >= z
  BY <1>2 DEF Max
<1>4. QED
  BY <1>1, <1>3

(* The newest of some releases is one of them, or none.                     *)
LEMMA NewestIsOne ==
  ASSUME NEW S, S \subseteq DOMAIN Releases
  PROVE  Newest(S) \in Nat /\ (Newest(S) # 0 => Newest(S) \in S)
<1>1. PICK n \in Nat : n = Len(Releases) /\ DOMAIN Releases = 1 .. n
  BY FetchAssumption
<1>2. PICK U : U = S \cup {0}
  OBVIOUS
<1>3. U \subseteq 0 .. n /\ U # {}
  BY <1>1, <1>2
<1>4. Max(U) \in U
  BY <1>3, MaxOfNaturals
<1> QED BY <1>2, <1>3, <1>4 DEF Newest

(* A whole day before the day of the cutoff is before the cutoff.           *)
LEMMA EarlierDay ==
  ASSUME NEW a \in Nat, NEW b \in Nat, Day(a) <= Day(b) - 1
  PROVE  a < b
<1>0. DayLength \in Nat \ {0}
  BY FetchAssumption
<1>1. PICK d \in Nat \ {0} : d = DayLength
  BY <1>0
<1>2. PICK qa \in Int : qa = a \div d
  OBVIOUS
<1>3. PICK qb \in Int : qb = b \div d
  OBVIOUS
<1>4. qa <= qb - 1
  BY <1>1, <1>2, <1>3 DEF Day
<1>5. a < d * qa + d
  BY <1>2
<1>6. d * qb <= b
  BY <1>3
<1>7. d * (qa + 1) <= d * qb
  BY <1>4
<1>8. d * (qa + 1) = d * qa + d
  OBVIOUS
<1>9. QED
  BY <1>5, <1>6, <1>7, <1>8

LEMMA VintageIsEarlier ==
  ASSUME NEW asOf \in Nat, VintageOf(asOf) # 0
  PROVE  Releases[VintageOf(asOf)] < asOf
<1>1. PICK S : S = {r \in PublishedBy(now) : Day(Releases[r]) <= VintageDay(asOf)}
  OBVIOUS
<1>2. S \subseteq DOMAIN Releases
  BY <1>1 DEF PublishedBy
<1>3. PICK m : m = VintageOf(asOf)
  OBVIOUS
<1>4. m = Newest(S)
  BY <1>1, <1>3 DEF VintageOf
<1>5. m \in S
  BY <1>2, <1>3, <1>4, NewestIsOne
<1>6. Releases[m] \in Nat
  BY <1>2, <1>5, FetchAssumption
<1>7. Day(Releases[m]) <= Day(asOf) - 1
  BY <1>1, <1>5 DEF VintageDay
<1>8. QED
  BY <1>3, <1>6, <1>7, EarlierDay

(* The job changes its phase and nothing else.                              *)
LEMMA JobMoves ==
  ASSUME JobShape(job), NEW phase \in FetchPhases, NEW r, r = [job EXCEPT !.pc = phase]
  PROVE  /\ JobShape(r) /\ r.pc = phase /\ r.of = job.of /\ r.attempt = job.attempt
         /\ r.started = job.started /\ r.size = job.size /\ r.read = job.read
         /\ r.revision = job.revision /\ r.left = job.left
<1>1. /\ r.pc = phase /\ r.of = job.of /\ r.attempt = job.attempt /\ r.hop = job.hop
      /\ r.host = job.host /\ r.started = job.started /\ r.size = job.size /\ r.read = job.read
      /\ r.revision = job.revision /\ r.left = job.left
  BY DEF JobShape
<1>2. r = [pc |-> r.pc, of |-> r.of, attempt |-> r.attempt, hop |-> r.hop, host |-> r.host,
           started |-> r.started, size |-> r.size, read |-> r.read, revision |-> r.revision,
           left |-> r.left]
  BY <1>1 DEF JobShape
<1>3. JobShape(r)
  BY <1>1, <1>2 DEF JobShape
<1>4. QED
  BY <1>1, <1>3

(* A retry is one attempt more than have begun, up to the limit.            *)
LEMMA AgainMoves ==
  ASSUME JobShape(job)
  PROVE  /\ JobShape(Again) /\ Again.of = job.of
         /\ \/ Again.pc = "waiting" /\ Again.attempt = job.attempt + 1 /\ job.attempt < MaxRetries
            \/ Again.pc = "failed" /\ Again.attempt = job.attempt
<1>1. CASE job.attempt < MaxRetries
  <2>1. PICK r : r = [job EXCEPT !.attempt = @ + 1, !.pc = "waiting"]
    OBVIOUS
  <2>2. /\ r.pc = "waiting" /\ r.of = job.of /\ r.attempt = job.attempt + 1 /\ r.hop = job.hop
        /\ r.host = job.host /\ r.started = job.started /\ r.size = job.size
        /\ r.read = job.read /\ r.revision = job.revision /\ r.left = job.left
    BY <2>1 DEF JobShape
  <2>3. r = [pc |-> r.pc, of |-> r.of, attempt |-> r.attempt, hop |-> r.hop, host |-> r.host,
             started |-> r.started, size |-> r.size, read |-> r.read, revision |-> r.revision,
             left |-> r.left]
    BY <2>1, <2>2 DEF JobShape
  <2>4. JobShape(r)
    BY <2>2, <2>3 DEF JobShape, FetchPhases
  <2>5. Again = r
    BY <1>1, <2>1 DEF Again
  <2>6. QED
    BY <1>1, <2>2, <2>4, <2>5
<1>2. CASE ~(job.attempt < MaxRetries)
  <2>1. Again = [job EXCEPT !.pc = "failed"] /\ "failed" \in FetchPhases
    BY <1>2 DEF Again, FetchPhases
  <2>2. QED
    BY <2>1, JobMoves
<1>3. QED
  BY <1>1, <1>2

(* Time passes between the attempts of a delivery.                          *)
LEMMA ClockKept ==
  ASSUME FetchClock, UNCHANGED <<lastRequestAt, opened>>, now' \in Int, now <= now'
  PROVE  FetchClock'
<1>1. Len(opened) > 0 => opened[Len(opened)] <= now'
  <2>1. Len(opened) > 0 => opened[Len(opened)] \in Int
    BY DEF FetchClock
  <2>2. QED
    BY <2>1 DEF FetchClock
<1>2. QED
  BY <1>1 DEF FetchClock

(* A job that failed, or none, owes nothing; one that tries again has not   *)
(* begun.                                                                   *)
LEMMA JobGivesUp ==
  ASSUME FetchInv, job.pc # "idle", UNCHANGED <<opened, lastRequestAt>>,
         \/ job' = NoFetch
         \/ job.pc # "waiting" /\ job' = [job EXCEPT !.pc = "failed"]
         \/ job.pc # "waiting" /\ job' = Again
  PROVE  JobShape(job)' /\ FetchAttempts' /\ FetchBody'
<1>0. JobShape(job) /\ FetchAttempts /\ "failed" \in FetchPhases /\ MaxRetries \in Nat
  BY FetchAssumption DEF FetchInv, FetchPhases
<1>1. CASE job' = NoFetch
  <2>1. job' = [pc |-> "idle", of |-> 0, attempt |-> 0, hop |-> 0, host |-> "none",
                started |-> 0, size |-> 0, read |-> 0, revision |-> 0, left |-> {}]
    BY <1>1 DEF NoFetch
  <2>2. JobShape(job)' /\ job'.pc = "idle"
    BY <2>1 DEF JobShape, FetchPhases
  <2>3. QED
    BY <1>0, <2>2 DEF FetchAttempts, FetchBody, Client
<1>2. CASE job.pc # "waiting" /\ job' = [job EXCEPT !.pc = "failed"]
  <2>1. /\ JobShape(job)' /\ job'.pc = "failed" /\ job'.of = job.of /\ job'.attempt = job.attempt
    BY <1>0, <1>2, JobMoves
  <2>2. QED
    BY <1>0, <1>2, <2>1 DEF FetchAttempts, FetchBody, Client
<1>3. CASE job.pc # "waiting" /\ job' = Again
  <2>1. /\ JobShape(job)' /\ job'.of = job.of
        /\ \/ job'.pc = "waiting" /\ job'.attempt = job.attempt + 1 /\ job.attempt < MaxRetries
           \/ job'.pc = "failed" /\ job'.attempt = job.attempt
    BY <1>0, <1>3, AgainMoves
  <2>2. job.attempt \in Nat /\ Len(opened) = job.attempt + 1
    BY <1>0, <1>3 DEF JobShape, FetchAttempts
  <2>3. FetchAttempts'
    BY <1>0, <2>1, <2>2 DEF FetchAttempts, Client
  <2>4. QED
    BY <2>1, <2>3 DEF FetchBody
<1>4. QED
  BY <1>1, <1>2, <1>3

(* The next attempt is an interval and its own delay after the last one.    *)
LEMMA BeginAttemptInv ==
  ASSUME FetchInv, BeginAttempt
  PROVE  FetchInv'
<1>0. /\ JobShape(job) /\ FetchClock /\ FetchAttempts /\ FetchResults
      /\ MinInterval \in Nat /\ MaxRetries \in Nat /\ RetryBase \in Nat /\ job.pc = "waiting"
  BY FetchAssumption DEF FetchInv, BeginAttempt
<1>1. job.attempt \in Nat /\ Len(opened) = job.attempt /\ job.attempt <= MaxRetries
      /\ job.of \in Fetches
  BY <1>0 DEF JobShape, FetchAttempts
<1>2. PICK delay \in Int : delay = RetryDelay(job.attempt)
  <2>1. CASE job.attempt = 0
    BY <2>1 DEF RetryDelay
  <2>2. CASE job.attempt # 0
    <3>1. PICK e \in Nat : e = job.attempt - 1
      BY <1>1, <2>2
    <3>2. 2^e \in Int
      OBVIOUS
    <3>3. PICK power \in Int : power = 2^e
      BY <3>2
    <3>4. RetryBase * power \in Int
      BY <1>0
    <3>5. RetryDelay(job.attempt) = RetryBase * power
      BY <2>2, <3>1, <3>3 DEF RetryDelay
    <3>6. QED
      BY <3>4, <3>5
  <2>3. QED
    BY <2>1, <2>2
<1>3. PICK t : t = AttemptAt(job.attempt)
  OBVIOUS
<1>4. Client \in JobKinds
  BY <1>1, FetchAssumption DEF Client
<1>5. PICK last \in Int : last = lastRequestAt[Client]
  BY <1>0, <1>4 DEF FetchClock
<1>6. t \in Int /\ t >= last + MinInterval /\ t >= now + delay
  <2>1. last + MinInterval \in Int /\ now + delay \in Int
    BY <1>0, <1>2 DEF FetchClock
  <2>2. t = Max({last + MinInterval, now + delay})
    BY <1>5, <1>2, <1>3 DEF AttemptAt
  <2>3. QED
    BY <2>1, <2>2, MaxOfTwo
<1>7. /\ now' = t /\ lastRequestAt' = [lastRequestAt EXCEPT ![Client] = t]
      /\ opened' = Append(opened, t)
      /\ UNCHANGED <<contacted, fetched, results, deliveries>>
  BY <1>3 DEF BeginAttempt
<1>8. /\ opened \in Seq(Int) /\ Len(opened) \in Nat /\ opened' \in Seq(Int)
      /\ Len(opened') = Len(opened) + 1 /\ opened'[Len(opened) + 1] = t
      /\ \A i \in 1 .. Len(opened) : opened'[i] = opened[i]
  BY <1>0, <1>6, <1>7 DEF FetchClock
<1>9. FetchClock'
  <2>1. ASSUME NEW i \in 1 .. Len(opened') - 1
        PROVE  /\ opened'[i + 1] - opened'[i] >= MinInterval
               /\ opened'[i + 1] - opened'[i] >= RetryDelay(i)
    <3>1. CASE i < Len(opened)
      <4>1. i \in 1 .. Len(opened) - 1 /\ i \in 1 .. Len(opened) /\ i + 1 \in 1 .. Len(opened)
        BY <1>8, <2>1, <3>1
      <4>2. opened'[i] = opened[i] /\ opened'[i + 1] = opened[i + 1]
        BY <1>8, <4>1
      <4>3. QED
        BY <1>0, <4>1, <4>2 DEF FetchClock
    <3>2. CASE ~(i < Len(opened))
      <4>1. i = Len(opened) /\ Len(opened) > 0
        BY <1>8, <2>1, <3>2
      <4>2. /\ opened[i] = last /\ opened'[i] = last /\ opened'[i + 1] = t /\ i = job.attempt
        BY <1>0, <1>1, <1>5, <1>8, <4>1 DEF FetchAttempts
      <4>3. now \in Int /\ last <= now
        BY <1>0, <4>1, <4>2 DEF FetchClock
      <4>4. t - last >= MinInterval /\ t - last >= delay
        BY <1>0, <1>2, <1>6, <4>3
      <4>5. QED
        BY <1>2, <4>2, <4>4
    <3>3. QED
      BY <3>1, <3>2
  <2>2. \A i \in 1 .. Len(opened') - 1 :
           /\ opened'[i + 1] - opened'[i] >= MinInterval
           /\ opened'[i + 1] - opened'[i] >= RetryDelay(i)
    BY <2>1
  <2>3. now' \in Int /\ lastRequestAt' \in [JobKinds -> Int]
    BY <1>0, <1>6, <1>7 DEF FetchClock
  <2>4. opened'[Len(opened')] <= now'
    BY <1>6, <1>7, <1>8
  <2>5. QED
    BY <1>8, <2>2, <2>3, <2>4 DEF FetchClock, RetryDelay
<1>10. PICK r : r = [job EXCEPT !.pc = "sending", !.started = t, !.hop = 0,
                               !.host = FirstHost[job.of], !.size = 0]
  OBVIOUS
<1>11. job' = r
  BY <1>3, <1>7, <1>10 DEF BeginAttempt
<1>12. /\ r.pc = "sending" /\ r.of = job.of /\ r.attempt = job.attempt /\ r.hop = 0
       /\ r.started = t /\ r.size = 0 /\ r.read = job.read /\ r.revision = job.revision
       /\ r = [pc |-> r.pc, of |-> r.of, attempt |-> r.attempt, hop |-> r.hop, host |-> r.host,
               started |-> r.started, size |-> r.size, read |-> r.read, revision |-> r.revision,
               left |-> r.left]
  BY <1>0, <1>10 DEF JobShape
<1>13. JobShape(r)
  <2>1. 0 \in Nat /\ "sending" \in FetchPhases
    BY DEF FetchPhases
  <2>2. QED
    BY <1>0, <1>6, <1>12, <2>1 DEF JobShape
<1>14. FetchAttempts' /\ FetchBody'
  <2>1. Client' = Client /\ lastRequestAt'[Client] = t /\ opened'[Len(opened')] = t
    BY <1>0, <1>4, <1>7, <1>8, <1>11, <1>12 DEF FetchClock, Client
  <2>2. QED
    BY <1>0, <1>1, <1>8, <1>11, <1>12, <2>1 DEF FetchAttempts, FetchBody
<1>15. FetchResults'
  BY <1>0, <1>7 DEF FetchResults
<1>16. QED
  BY <1>9, <1>11, <1>13, <1>14, <1>15 DEF FetchInv

LEMMA FetchInitInv == FetchInit => FetchInv
<1> SUFFICES ASSUME FetchInit PROVE FetchInv
  OBVIOUS
<1>0. MinInterval \in Nat /\ MaxRetries \in Nat
  BY FetchAssumption
<1>1. job = [pc |-> "idle", of |-> 0, attempt |-> 0, hop |-> 0, host |-> "none",
             started |-> 0, size |-> 0, read |-> 0, revision |-> 0, left |-> {}]
  BY DEF FetchInit, NoFetch
<1>2. JobShape(job) /\ job.pc = "idle"
  BY <1>1 DEF JobShape, FetchPhases
<1>3. opened = <<>> /\ Len(opened) = 0 /\ opened \in Seq(Int)
  BY DEF FetchInit
<1>4. FetchClock
  BY <1>0, <1>3 DEF FetchInit, FetchClock
<1>5. FetchAttempts /\ FetchBody
  BY <1>0, <1>2, <1>3 DEF FetchAttempts, FetchBody, Client
<1>6. FetchResults
  BY DEF FetchInit, FetchResults
<1>7. QED
  BY <1>2, <1>4, <1>5, <1>6 DEF FetchInv

LEMMA FetchStepInv == FetchInv /\ [FetchNext]_fetchVars => FetchInv'
<1> SUFFICES ASSUME FetchInv, [FetchNext]_fetchVars PROVE FetchInv'
  OBVIOUS
<1>0. /\ JobShape(job) /\ FetchClock /\ FetchAttempts /\ FetchBody /\ FetchResults
      /\ MaxRetries \in Nat /\ MaxBytes \in Nat \ {0} /\ Deadline \in Nat
  BY FetchAssumption DEF FetchInv
<1>1. ASSUME UNCHANGED <<contacted, fetched, results>> PROVE FetchResults'
  BY <1>0, <1>1 DEF FetchResults
<1>2. ASSUME UNCHANGED <<now, lastRequestAt, opened>> PROVE FetchClock'
  BY <1>0, <1>2, ClockKept DEF FetchClock
<1>3. ASSUME NEW j \in Fetches, Deliver(j) PROVE FetchInv'
  <2>1. PICK r : r = [NoFetch EXCEPT !.pc = "waiting", !.of = j, !.host = FirstHost[j]]
    OBVIOUS
  <2>2. r = [pc |-> "waiting", of |-> j, attempt |-> 0, hop |-> 0, host |-> FirstHost[j],
             started |-> 0, size |-> 0, read |-> 0, revision |-> 0, left |-> {}]
    BY <2>1 DEF NoFetch
  <2>3. JobShape(r) /\ r.pc = "waiting" /\ r.of = j /\ r.attempt = 0
    BY <2>2 DEF JobShape, FetchPhases
  <2>4. job' = r /\ opened' = <<>> /\ UNCHANGED <<now, lastRequestAt, contacted, fetched, results>>
    BY <1>3, <2>1 DEF Deliver
  <2>5. Len(opened') = 0 /\ opened' \in Seq(Int)
    BY <2>4
  <2>6. FetchClock'
    BY <1>0, <2>4, <2>5 DEF FetchClock
  <2>7. FetchAttempts' /\ FetchBody'
    BY <1>0, <2>3, <2>4, <2>5 DEF FetchAttempts, FetchBody, Client
  <2>8. QED
    BY <1>1, <2>3, <2>4, <2>6, <2>7 DEF FetchInv
<1>4. CASE BeginAttempt
  BY <1>4, BeginAttemptInv
<1>5. CASE SendHop
  <2>1. UNCHANGED <<now, lastRequestAt, opened, fetched, results>> /\ job.pc = "sending"
    BY <1>5 DEF SendHop
  <2>2. FetchResults'
    BY <1>0, <1>5, <2>1 DEF SendHop, MayContact, FetchResults
  <2>3. CASE job' = [job EXCEPT !.pc = "failed"]
    BY <1>2, <2>1, <2>2, <2>3, JobGivesUp DEF FetchInv
  <2>4. CASE job' = [job EXCEPT !.pc = "replying"]
    <3>1. /\ JobShape(job)' /\ job'.pc = "replying" /\ job'.of = job.of
          /\ job'.attempt = job.attempt /\ job'.size = job.size
      BY <1>0, <2>4, JobMoves DEF FetchPhases
    <3>2. FetchAttempts' /\ FetchBody'
      BY <1>0, <2>1, <3>1 DEF FetchAttempts, FetchBody, Client
    <3>3. QED
      BY <1>2, <2>1, <2>2, <3>1, <3>2 DEF FetchInv
  <2>5. QED
    BY <1>5, <2>3, <2>4 DEF SendHop
<1>6. ASSUME NEW d \in Delays, Reply(d) PROVE FetchInv'
  <2>1. /\ UNCHANGED <<lastRequestAt, opened, contacted, fetched, results>> /\ now' = now + d
        /\ job.pc = "replying" /\ job.size = 0
    <3>1. /\ UNCHANGED <<lastRequestAt, opened, contacted, fetched, results>> /\ now' = now + d
          /\ job.pc = "replying"
      BY <1>6, Zenon DEF Reply
    <3>2. QED
      BY <1>0, <3>1 DEF FetchBody
  <2>2. now \in Int /\ d \in Nat
    BY <1>0, FetchAssumption DEF FetchClock
  <2>3. FetchClock' /\ FetchResults'
    BY <1>0, <1>1, <2>1, <2>2, ClockKept
  <2>4. CASE job' = Again \/ job' = [job EXCEPT !.pc = "failed"]
    BY <2>1, <2>3, <2>4, JobGivesUp DEF FetchInv
  <2>5. ASSUME NEW r, job' = r, r.pc \in {"sending", "reading"}, r.of = job.of, r.size = job.size,
               r.attempt = job.attempt, JobShape(r)
        PROVE  FetchInv'
    <3>1. FetchAttempts' /\ FetchBody'
      BY <1>0, <2>1, <2>5 DEF FetchAttempts, FetchBody, Client
    <3>2. QED
      BY <2>3, <2>5, <3>1 DEF FetchInv
  <2>6. ASSUME NEW h \in Hosts, job' = [job EXCEPT !.pc = "sending", !.hop = @ + 1, !.host = h]
        PROVE  FetchInv'
    <3>1. PICK r : r = [job EXCEPT !.pc = "sending", !.hop = @ + 1, !.host = h]
      OBVIOUS
    <3>2. /\ r.pc = "sending" /\ r.of = job.of /\ r.attempt = job.attempt /\ r.hop = job.hop + 1
          /\ r.started = job.started /\ r.size = job.size /\ r.read = job.read
          /\ r.revision = job.revision
          /\ r = [pc |-> r.pc, of |-> r.of, attempt |-> r.attempt, hop |-> r.hop, host |-> r.host,
                  started |-> r.started, size |-> r.size, read |-> r.read,
                  revision |-> r.revision, left |-> r.left]
      BY <1>0, <3>1 DEF JobShape
    <3>3. JobShape(r)
      BY <1>0, <3>2 DEF JobShape, FetchPhases
    <3>4. QED
      BY <2>5, <2>6, <3>1, <3>2, <3>3
  <2>7. ASSUME job' = [job EXCEPT !.pc = "reading", !.revision = Newest(PublishedBy(now'))]
        PROVE  FetchInv'
    <3>1. PICK n : n = Newest(PublishedBy(now'))
      OBVIOUS
    <3>2. n \in Nat
      BY <3>1, NewestIsOne DEF PublishedBy
    <3>3. PICK r : r = [job EXCEPT !.pc = "reading", !.revision = n]
      OBVIOUS
    <3>4. /\ r.pc = "reading" /\ r.of = job.of /\ r.attempt = job.attempt /\ r.hop = job.hop
          /\ r.started = job.started /\ r.size = job.size /\ r.read = job.read
          /\ r.revision = n
          /\ r = [pc |-> r.pc, of |-> r.of, attempt |-> r.attempt, hop |-> r.hop, host |-> r.host,
                  started |-> r.started, size |-> r.size, read |-> r.read,
                  revision |-> r.revision, left |-> r.left]
      BY <1>0, <3>3 DEF JobShape
    <3>5. JobShape(r)
      BY <1>0, <3>2, <3>4 DEF JobShape, FetchPhases
    <3>6. QED
      BY <2>5, <2>7, <3>1, <3>3, <3>4, <3>5
  <2>8. QED
    <3>1. \/ job' = Again \/ job' = [job EXCEPT !.pc = "failed"]
          \/ \E h \in Hosts : job' = [job EXCEPT !.pc = "sending", !.hop = @ + 1, !.host = h]
          \/ job' = [job EXCEPT !.pc = "reading", !.revision = Newest(PublishedBy(now'))]
      BY <1>6, Zenon DEF Reply
    <3>2. QED
      BY <2>4, <2>6, <2>7, <3>1, Zenon
<1>7. ASSUME NEW d \in Delays, NEW n \in ChunkSizes, ReadChunk(d, n) PROVE FetchInv'
  <2>1. /\ UNCHANGED <<lastRequestAt, opened, contacted, fetched, results>> /\ now' = now + d
        /\ job.pc = "reading"
    BY <1>7 DEF ReadChunk
  <2>2. now \in Int /\ d \in Nat /\ n \in Nat /\ now' \in Int
    BY <1>0, <2>1, FetchAssumption DEF FetchClock
  <2>3. FetchClock' /\ FetchResults'
    BY <1>0, <1>1, <2>1, <2>2, ClockKept
  <2>4. CASE Late(now')
    <3>1. job' = Again
      BY <1>7, <2>4 DEF ReadChunk
    <3>2. QED
      BY <2>1, <2>3, <3>1, JobGivesUp DEF FetchInv
  <2>5. CASE ~Late(now') /\ job.size + n > MaxBytes
    <3>1. job' = [job EXCEPT !.pc = "failed"]
      BY <1>7, <2>5 DEF ReadChunk
    <3>2. QED
      BY <2>1, <2>3, <3>1, JobGivesUp DEF FetchInv
  <2>6. CASE ~Late(now') /\ ~(job.size + n > MaxBytes)
    <3>1. PICK r : r = [job EXCEPT !.size = @ + n, !.read = now']
      OBVIOUS
    <3>2. job' = r
      BY <1>7, <2>6, <3>1 DEF ReadChunk
    <3>3. /\ r.pc = job.pc /\ r.of = job.of /\ r.attempt = job.attempt /\ r.hop = job.hop
          /\ r.started = job.started /\ r.size = job.size + n /\ r.read = now'
          /\ r.revision = job.revision
          /\ r = [pc |-> r.pc, of |-> r.of, attempt |-> r.attempt, hop |-> r.hop, host |-> r.host,
                  started |-> r.started, size |-> r.size, read |-> r.read,
                  revision |-> r.revision, left |-> r.left]
      BY <1>0, <3>1 DEF JobShape
    <3>4. JobShape(r)
      BY <1>0, <2>2, <3>3 DEF JobShape
    <3>5. r.size <= MaxBytes /\ r.read - r.started <= Deadline
      BY <1>0, <2>2, <2>6, <3>3 DEF Late, JobShape
    <3>6. FetchAttempts' /\ FetchBody'
      BY <1>0, <2>1, <3>2, <3>3, <3>5 DEF FetchAttempts, FetchBody, Client
    <3>7. QED
      BY <2>3, <3>2, <3>4, <3>6 DEF FetchInv
  <2>7. QED
    BY <2>4, <2>5, <2>6
<1>8. ASSUME NEW d \in Delays, BreakBody(d) PROVE FetchInv'
  <2>1. /\ UNCHANGED <<lastRequestAt, opened, contacted, fetched, results>> /\ now' = now + d
        /\ job.pc = "reading" /\ job' = Again
    BY <1>8 DEF BreakBody
  <2>2. now \in Int /\ d \in Nat
    BY <1>0, FetchAssumption DEF FetchClock
  <2>3. FetchClock' /\ FetchResults'
    BY <1>0, <1>1, <2>1, <2>2, ClockKept
  <2>4. QED
    BY <2>1, <2>3, JobGivesUp DEF FetchInv
<1>9. CASE EndBody
  <2>1. /\ UNCHANGED <<now, lastRequestAt, opened, contacted, fetched, results>>
        /\ job.pc = "reading"
    BY <1>9 DEF EndBody
  <2>2. PICK r : r = [job EXCEPT !.pc = IF job.size = 0 THEN "failed" ELSE "parsing",
                        !.left = IF JobKind[job.of] = "discovery" THEN 1 .. job.revision ELSE {}]
    OBVIOUS
  <2>3. job' = r
    BY <1>9, <2>2 DEF EndBody
  <2>4. /\ r.pc = IF job.size = 0 THEN "failed" ELSE "parsing"
        /\ r.left = IF JobKind[job.of] = "discovery" THEN 1 .. job.revision ELSE {}
        /\ r.of = job.of /\ r.attempt = job.attempt /\ r.hop = job.hop
        /\ r.started = job.started /\ r.size = job.size /\ r.read = job.read
        /\ r.revision = job.revision
        /\ r = [pc |-> r.pc, of |-> r.of, attempt |-> r.attempt, hop |-> r.hop, host |-> r.host,
                started |-> r.started, size |-> r.size, read |-> r.read,
                revision |-> r.revision, left |-> r.left]
    BY <1>0, <2>2 DEF JobShape
  <2>5. JobShape(r) /\ r.pc \in {"failed", "parsing"}
    BY <1>0, <2>4 DEF JobShape, FetchPhases
  <2>6. r.pc = "parsing" => r.size \in 1 .. MaxBytes /\ r.read - r.started <= Deadline
    BY <1>0, <2>1, <2>4 DEF FetchBody, JobShape
  <2>7. FetchAttempts'
    BY <1>0, <2>1, <2>3, <2>4, <2>5 DEF FetchAttempts, Client
  <2>8. FetchBody'
    BY <2>3, <2>4, <2>5, <2>6 DEF FetchBody
  <2>9. QED
    BY <1>1, <1>2, <2>1, <2>3, <2>5, <2>7, <2>8 DEF FetchInv
<1>10. CASE Unparseable \/ GiveUp \/ CrashFetch
  <2>1. /\ UNCHANGED <<now, lastRequestAt, opened, contacted, fetched, results>>
        /\ job.pc # "idle"
        /\ job' = NoFetch \/ (job.pc # "waiting" /\ job' = [job EXCEPT !.pc = "failed"])
    BY <1>10 DEF Unparseable, GiveUp, CrashFetch
  <2>2. QED
    BY <1>1, <1>2, <2>1, JobGivesUp DEF FetchInv
<1>11. ASSUME NEW a \in DOMAIN Releases, EnqueueFetch(a) PROVE FetchInv'
  <2>1. /\ UNCHANGED <<now, lastRequestAt, opened, contacted, results>> /\ job.pc = "parsing"
        /\ fetched' = fetched \cup {a}
    BY <1>11 DEF EnqueueFetch
  <2>2. PICK r : r = [job EXCEPT !.left = @ \ {a}]
    OBVIOUS
  <2>3. job' = r
    BY <1>11, <2>2 DEF EnqueueFetch
  <2>4. /\ r.pc = job.pc /\ r.left = job.left \ {a}
        /\ r.of = job.of /\ r.attempt = job.attempt /\ r.hop = job.hop
        /\ r.started = job.started /\ r.size = job.size /\ r.read = job.read
        /\ r.revision = job.revision
        /\ r = [pc |-> r.pc, of |-> r.of, attempt |-> r.attempt, hop |-> r.hop, host |-> r.host,
                started |-> r.started, size |-> r.size, read |-> r.read,
                revision |-> r.revision, left |-> r.left]
    BY <1>0, <2>2 DEF JobShape
  <2>5. JobShape(r)
    BY <1>0, <2>4 DEF JobShape
  <2>6. FetchAttempts'
    BY <1>0, <2>1, <2>3, <2>4 DEF FetchAttempts, Client
  <2>7. FetchBody'
    BY <1>0, <2>1, <2>3, <2>4 DEF FetchBody
  <2>8. FetchResults'
    BY <1>0, <2>1 DEF FetchResults
  <2>9. QED
    BY <1>2, <2>1, <2>3, <2>5, <2>6, <2>7, <2>8 DEF FetchInv
<1>12. CASE FinishFetch
  <2>1. /\ UNCHANGED <<now, lastRequestAt, opened, contacted, fetched>> /\ job.pc = "parsing"
        /\ job' = NoFetch /\ job.left = {}
    BY <1>12 DEF FinishFetch
  <2>2. PICK row : row = [job |-> job.of, attempts |-> job.attempt + 1, at |-> now,
                          size |-> job.size, took |-> job.read - job.started,
                          revision |-> IF JobKind[job.of] = "vintage" THEN VintageOf(AsOf[job.of])
                                       ELSE job.revision]
    OBVIOUS
  <2>3. results' = results \cup {row}
    BY <1>12, <2>2 DEF FinishFetch
  <2>4. /\ row.job = job.of /\ row.attempts = job.attempt + 1 /\ row.size = job.size
        /\ row.took = job.read - job.started
        /\ JobKind[job.of] = "vintage" => row.revision = VintageOf(AsOf[job.of])
        /\ JobKind[job.of] # "vintage" => row.revision = job.revision
    BY <2>2
  <2>5. /\ row.size \in 1 .. MaxBytes /\ row.took <= Deadline /\ row.attempts <= MaxRetries + 1
    BY <1>0, <2>1, <2>4 DEF FetchBody, FetchAttempts, JobShape
  <2>6. JobKind[row.job] = "vintage" /\ row.revision # 0 => Releases[row.revision] < AsOf[row.job]
    <3>1. job.of \in Fetches
      BY <1>0, <2>1 DEF FetchAttempts, Client
    <3>2. AsOf[job.of] \in Nat
      BY <3>1, FetchAssumption
    <3>3. QED
      BY <2>4, <3>2, VintageIsEarlier
  <2>7. JobKind[row.job] = "discovery" => \A a \in 1 .. row.revision : a \in fetched
    BY <1>0, <2>1, <2>4 DEF FetchBody
  <2>8. FetchResults'
    BY <1>0, <2>1, <2>3, <2>5, <2>6, <2>7 DEF FetchResults
  <2>9. QED
    BY <1>2, <2>1, <2>8, JobGivesUp DEF FetchInv
<1>13. CASE UNCHANGED fetchVars
  BY <1>13 DEF fetchVars, FetchInv, JobShape, FetchClock, FetchAttempts, FetchBody, FetchResults,
               RetryDelay, Client
<1>14. QED
  BY <1>3, <1>4, <1>5, <1>6, <1>7, <1>8, <1>9, <1>10, <1>11, <1>12, <1>13 DEF FetchNext

(* A source is used as promised whatever it answers, for any hosts, delays, *)
(* limits and releases (ThrottledRetryingClient, vintage_cutoff_date,       *)
(* run_discovery_job).                                                      *)
THEOREM FetchSpecAsPromised == FetchSpec => []SourcesUsedAsPromised
<1>1. FetchInv => SourcesUsedAsPromised
  <2> SUFFICES ASSUME FetchInv PROVE SourcesUsedAsPromised
    OBVIOUS
  <2>1. ASSUME NEW i \in 1 .. Len(opened) - 1
        PROVE  opened[i + 1] - opened[i] >= Max({MinInterval, RetryDelay(i)})
    <3>1. /\ opened[i + 1] - opened[i] >= MinInterval
          /\ opened[i + 1] - opened[i] >= RetryDelay(i)
      BY <2>1 DEF FetchInv, FetchClock
    <3>2. i \in Nat \ {0}
      BY <2>1 DEF FetchInv, FetchClock
    <3>3. PICK e \in Nat : e = i - 1
      BY <3>2
    <3>4. PICK power \in Int : power = 2^e
      OBVIOUS
    <3>5. RetryDelay(i) = RetryBase * power
      BY <3>2, <3>3, <3>4 DEF RetryDelay
    <3>6. MinInterval \in Int /\ RetryDelay(i) \in Int
      BY <3>5, FetchAssumption
    <3>7. QED
      BY <3>1, <3>6, MaxOfTwo
  <2>2. FetchIsBounded
    BY <2>1 DEF FetchIsBounded, FetchInv, FetchAttempts, FetchResults
  <2>3. SourcesReadFaithfully
    BY DEF SourcesReadFaithfully, FetchInv, FetchResults
  <2>4. QED
    BY <2>2, <2>3 DEF SourcesUsedAsPromised
<1>2. QED
  BY <1>1, FetchInitInv, FetchStepInv, PTL DEF FetchSpec

(* -------------------------------- answers -------------------------------- *)
\* S in the order of a score, the lower id first among equals.
InScoreOrder(s, S, key) ==
  /\ s \in Seq(S) /\ Len(s) = Cardinality(S) /\ \A x \in S : \E i \in 1 .. Len(s) : s[i] = x
  /\ \A i, j \in 1 .. Len(s) :
       i < j => key[s[i]] > key[s[j]] \/ (key[s[i]] = key[s[j]] /\ s[i] < s[j])

(* ORDER BY score DESC, id.                                                  *)
LEMMA BestFirstOrders ==
  ASSUME NEW S, IsFiniteSet(S), S \subseteq Nat, NEW D, S \subseteq D, NEW key \in [D -> Int],
         NEW s, s = BestFirst(S, key)
  PROVE  InScoreOrder(s, S, key)
<1>0. s = [i \in 1 .. Cardinality(S) |-> CHOOSE x \in S :
             Cardinality({y \in S : key[y] > key[x] \/ (key[y] = key[x] /\ y < x)}) = i - 1]
  BY Zenon DEF BestFirst, SortedBy
<1>2. PICK n \in Nat : n = Cardinality(S)
  BY FS_CardinalityType
<1>3. PICK R : R = {p \in S \X S : key[p[1]] > key[p[2]] \/ (key[p[1]] = key[p[2]] /\ p[1] < p[2])}
  OBVIOUS
<1>4. \A x, y \in S : <<x, y>> \in R <=> key[x] > key[y] \/ (key[x] = key[y] /\ x < y)
  BY <1>3
<1>5. OrdersStrictly(R, S)
  <2>1. \A x \in S : x \in Int /\ key[x] \in Int
    OBVIOUS
  <2> QED BY <1>4, <2>1 DEF OrdersStrictly
<1>6. s = [i \in 1 .. n |-> CHOOSE x \in S :
             Cardinality({y \in S : key[y] > key[x] \/ (key[y] = key[x] /\ y < x)}) = i - 1]
  BY <1>0, <1>2
<1>7. PICK B : B = Before(R, S)
  OBVIOUS
<1>8. \A x \in S : {y \in S : key[y] > key[x] \/ (key[y] = key[x] /\ y < x)} = B[x]
  BY <1>4, <1>7 DEF Before
<1>9. ASSUME NEW i \in 1 .. n, NEW x \in S, Cardinality(B[x]) = i - 1
      PROVE  s[i] \in S /\ Cardinality(B[s[i]]) = i - 1
  <2>1. Cardinality({y \in S : key[y] > key[x] \/ (key[y] = key[x] /\ y < x)}) = i - 1
    BY <1>8, <1>9
  <2>2. s[i] = CHOOSE z \in S :
                 Cardinality({y \in S : key[y] > key[z] \/ (key[y] = key[z] /\ y < z)}) = i - 1
    BY <1>6
  <2>3. /\ s[i] \in S
        /\ Cardinality({y \in S : key[y] > key[s[i]] \/ (key[y] = key[s[i]] /\ y < s[i])}) = i - 1
    BY <2>1, <2>2, Zenon
  <2> QED BY <1>8, <2>3
<1>10. PlacedBy(s, B, S)
  <2>1. \A i \in 1 .. n : \A x \in S :
          Cardinality(B[x]) = i - 1 => s[i] \in S /\ Cardinality(B[s[i]]) = i - 1
    BY <1>9
  <2>2. s = [i \in 1 .. n |-> s[i]]
    BY <1>6
  <2> QED BY <1>2, <2>1, <2>2 DEF PlacedBy
<1>11. ListsInOrder(s, S, R)
  BY <1>5, <1>7, <1>10, RanksOrder
<1>12. s \in Seq(S) /\ Len(s) = n
  BY <1>2, <1>11 DEF ListsInOrder
<1>13. /\ \A x \in S : \E i \in 1 .. n : s[i] = x
       /\ \A i, j \in 1 .. n : i < j => <<s[i], s[j]>> \in R
  BY <1>2, <1>11 DEF ListsInOrder
<1>14. \A i \in 1 .. n : s[i] \in S
  BY <1>12
<1>15. \A i, j \in 1 .. n :
         i < j => key[s[i]] > key[s[j]] \/ (key[s[i]] = key[s[j]] /\ s[i] < s[j])
  BY <1>4, <1>13, <1>14
<1> QED BY <1>2, <1>12, <1>13, <1>15 DEF InScoreOrder

(* The first so many rows, as LIMIT takes them.                              *)
LEMMA FirstRows ==
  ASSUME NEW S, NEW s \in Seq(S), NEW k \in Nat, k <= Len(s)
  PROVE  SubSeq(s, 1, k) \in Seq(S) /\ Len(SubSeq(s, 1, k)) = k
<1>1. 1 \in Int /\ k \in Int /\ \A i \in 1 .. k : s[i] \in S
  OBVIOUS
<1>2. /\ SubSeq(s, 1, k) \in Seq(S)
      /\ Len(SubSeq(s, 1, k)) = IF 1 <= k THEN k - 1 + 1 ELSE 0
  BY <1>1, SubSeqProperties
<1> QED BY <1>2

(* The limits of a plan.                                                     *)
LEMMA AnswerLimits ==
  /\ TopK \in Nat /\ TopK <= 100 /\ MaxContext \in Nat
  /\ RrfUnit \in Nat /\ RrfUnit >= 25600
<1>1. TopK \in 1 .. 100 /\ MaxContext \in Nat /\ RrfUnit \in Nat /\ RrfUnit >= 160 * 160
  BY AnswerAssumption, Zenon
<1> QED BY <1>1

(* A better rank has the higher term.                                        *)
LEMMA TermsFall ==
  ASSUME NEW a \in 1 .. 100, NEW b \in 1 .. 100, a < b
  PROVE  RrfTerm(a) > RrfTerm(b) /\ RrfTerm(a) \in Nat /\ RrfTerm(b) \in Nat
<1>1. RrfUnit \in Nat /\ RrfUnit >= 25600
  BY AnswerLimits
<1>2. PICK x, y \in Nat : x = 60 + a /\ y = 60 + b
  OBVIOUS
<1>3. x >= 61 /\ x <= y - 1 /\ y <= 160
  BY <1>2
<1>4. ASSUME NEW m \in Nat, NEW d \in Nat, d > 0
      PROVE  m \div d \in Nat /\ d * (m \div d) <= m /\ m < d * (m \div d) + d
  BY <1>4
<1>5. PICK p, q \in Nat : p = RrfTerm(a) /\ q = RrfTerm(b)
  <2>1. /\ 2 * RrfUnit + 60 + a \in Nat /\ 2 * RrfUnit + 60 + b \in Nat
        /\ 2 * (60 + a) \in Nat /\ 2 * (60 + b) \in Nat /\ 2 * (60 + a) > 0 /\ 2 * (60 + b) > 0
    BY <1>1
  <2> QED BY <1>4, <2>1 DEF RrfTerm
<1>6. /\ (2 * x) * p <= 2 * RrfUnit + x /\ 2 * RrfUnit + x < (2 * x) * p + 2 * x
      /\ (2 * y) * q <= 2 * RrfUnit + y /\ 2 * RrfUnit + y < (2 * y) * q + 2 * y
  <2>1. /\ p = (2 * RrfUnit + x) \div (2 * x) /\ q = (2 * RrfUnit + y) \div (2 * y)
    <3>1. 2 * RrfUnit + 60 + a = 2 * RrfUnit + x /\ 2 * RrfUnit + 60 + b = 2 * RrfUnit + y
      BY <1>1, <1>2
    <3> QED BY <1>2, <1>5, <3>1 DEF RrfTerm
  <2>2. /\ 2 * RrfUnit + x \in Nat /\ 2 * RrfUnit + y \in Nat /\ 2 * x \in Nat /\ 2 * y \in Nat
        /\ 2 * x > 0 /\ 2 * y > 0
    BY <1>1, <1>3
  <2> QED BY <1>4, <2>1, <2>2
<1>7. q >= y
  <2>1. SUFFICES ASSUME q <= y - 1 PROVE FALSE
    OBVIOUS
  <2>2. (2 * y) * q <= (2 * y) * (y - 1) /\ y * y <= 25600
    BY <1>3, <2>1
  <2>3. (2 * y) * (y - 1) = 2 * (y * y) - 2 * y
    BY <1>3
  <2> QED BY <1>1, <1>6, <2>2, <2>3
<1>8. p > q
  <2>1. SUFFICES ASSUME p <= q PROVE FALSE
    OBVIOUS
  <2>2. (2 * x) * p <= (2 * x) * q
    BY <2>1
  <2>3. (2 * x) * q + x = x * (2 * q + 1) /\ (y - 1) * (2 * q + 1) = (2 * y) * q + y - 2 * q - 1
    OBVIOUS
  <2>4. x * (2 * q + 1) <= (y - 1) * (2 * q + 1)
    BY <1>3
  <2> QED BY <1>1, <1>6, <1>7, <2>2, <2>3, <2>4
<1> QED BY <1>5, <1>8

(* The term of a rank.                                                       *)
LEMMA TermIsNatural ==
  ASSUME NEW a \in 1 .. 100
  PROVE  RrfTerm(a) \in Nat
<1>1. ASSUME NEW m \in Nat, NEW d \in Nat, d > 0 PROVE m \div d \in Nat
  BY <1>1
<1>2. /\ 2 * RrfUnit + 60 + a \in Nat /\ 2 * (60 + a) \in Nat /\ 2 * (60 + a) > 0
  BY AnswerLimits
<1> QED BY <1>1, <1>2 DEF RrfTerm

\* The sources a lane may return: built from the corpus, within the plan's pins.
Pinned == {s \in DOMAIN Corpus : Buildable(s) /\ Eligible(s)}

\* Every lane has answered, with at most top_k of them.
ListsAreIn(lists) == \A l \in PlanLanes : lists[l] \in Seq(Pinned) /\ Len(lists[l]) <= TopK

(* Fewer than all sources are few.                                           *)
LEMMA PinnedIsFinite == IsFiniteSet(Pinned) /\ Pinned \subseteq Nat \ {0}
<1>1. Len(Corpus) \in Nat /\ DOMAIN Corpus = 1 .. Len(Corpus)
  BY AnswerAssumption, Zenon
<1>2. IsFiniteSet(1 .. Len(Corpus))
  BY <1>1, FS_Interval
<1>3. Pinned \subseteq 1 .. Len(Corpus)
  BY <1>1 DEF Pinned
<1>4. IsFiniteSet(Pinned)
  BY <1>2, <1>3, FS_Subset
<1>5. 1 .. Len(Corpus) \subseteq Nat \ {0}
  BY <1>1
<1> QED BY <1>3, <1>4, <1>5

(* The lanes of a plan are few.                                              *)
LEMMA LanesAreFinite == IsFiniteSet(PlanLanes)
<1>1. ToSet(Lanes) = {"dense", "lexical", "facts", "tables"}
  BY DEF ToSet, Lanes
<1>2. IsFiniteSet({"dense", "lexical", "facts", "tables"})
  <2>1. IsFiniteSet({}) /\ IsFiniteSet({} \cup {"dense"})
    BY FS_EmptySet, FS_AddElement
  <2>2. IsFiniteSet(({} \cup {"dense"}) \cup {"lexical"})
    BY <2>1, FS_AddElement
  <2>3. IsFiniteSet((({} \cup {"dense"}) \cup {"lexical"}) \cup {"facts"})
    BY <2>2, FS_AddElement
  <2>4. IsFiniteSet(((({} \cup {"dense"}) \cup {"lexical"}) \cup {"facts"}) \cup {"tables"})
    BY <2>3, FS_AddElement
  <2>5. ((({} \cup {"dense"}) \cup {"lexical"}) \cup {"facts"}) \cup {"tables"}
          = {"dense", "lexical", "facts", "tables"}
    OBVIOUS
  <2> QED BY <2>4, <2>5
<1> QED BY <1>1, <1>2, FS_Subset, AnswerAssumption

(* What is retrieved was returned by a lane, at a rank among the top_k.       *)
LEMMA RetrievedRanks ==
  ASSUME ListsAreIn(laneResult), NEW s \in Retrieved
  PROVE  /\ s \in Pinned /\ LanesOf(s) # {} /\ LanesOf(s) \in SUBSET PlanLanes
         /\ \A l \in LanesOf(s) : RankIn(l, s) \in 1 .. 100
         /\ BestRank(s) \in Nat
<1>1. \A l \in PlanLanes : /\ laneResult[l] \in Seq(Pinned) /\ Len(laneResult[l]) <= TopK
                           /\ DOMAIN laneResult[l] = 1 .. Len(laneResult[l])
                           /\ Len(laneResult[l]) \in Nat
  BY DEF ListsAreIn
<1>2. TopK \in Nat /\ TopK <= 100
  BY AnswerLimits
<1>3. PICK l \in PlanLanes : s \in ToSet(laneResult[l])
  BY DEF Retrieved
<1>4. s \in Pinned
  BY <1>1, <1>3 DEF ToSet
<1>5. \A k \in PlanLanes : laneResult[k] # Unset
  <2>1. 0 \notin Pinned
    BY PinnedIsFinite
  <2>2. Unset[1] = 0 /\ Len(Unset) = 1
    BY DEF Unset
  <2>3. ASSUME NEW k \in PlanLanes, laneResult[k] = Unset PROVE FALSE
    <3>1. laneResult[k][1] \in Pinned
      BY <1>1, <2>2, <2>3
    <3>2. laneResult[k][1] = 0
      BY <2>2, <2>3, Zenon
    <3> QED BY <2>1, <3>1, <3>2
  <2> QED BY <2>3
<1>6. LanesOf(s) # {} /\ LanesOf(s) \in SUBSET PlanLanes
  BY <1>3, <1>5 DEF LanesOf
<1>7. ASSUME NEW k \in LanesOf(s) PROVE RankIn(k, s) \in 1 .. 100
  <2>1. k \in PlanLanes /\ s \in ToSet(laneResult[k])
    BY <1>7 DEF LanesOf
  <2>2. \E i \in DOMAIN laneResult[k] : laneResult[k][i] = s
    BY <2>1 DEF ToSet
  <2>3. RankIn(k, s) \in DOMAIN laneResult[k]
    BY <2>2, Zenon DEF RankIn
  <2>4. PICK n \in Nat : n <= TopK /\ DOMAIN laneResult[k] = 1 .. n
    BY <1>1, <2>1
  <2>5. RankIn(k, s) \in 1 .. n
    BY <2>3, <2>4
  <2>6. \A r \in 1 .. n : r \in 1 .. 100
    <3>1. n <= 100
      BY <1>2, <2>4
    <3> QED BY <3>1
  <2> QED BY <2>5, <2>6
<1>8. BestRank(s) \in Nat
  <2>1. PICK T : T = {RankIn(k, s) : k \in LanesOf(s)}
    OBVIOUS
  <2>2. T \subseteq Nat /\ T # {}
    BY <1>6, <1>7, <2>1
  <2>3. Min(T) \in Nat
    BY <2>2, MinOfNaturals
  <2>4. BestRank(s) = Min(T)
    BY <2>1, Zenon DEF BestRank
  <2> QED BY <2>3, <2>4
<1> QED BY <1>4, <1>6, <1>7, <1>8

\* What each lane adds to the score of s.
TermsOf(s) == [l \in PlanLanes |-> IF l \in LanesOf(s) THEN RrfTerm(RankIn(l, s)) ELSE 0]

(* The score is the sum of the terms.                                        *)
LEMMA RrfTotal ==
  ASSUME ListsAreIn(laneResult), NEW s \in Retrieved
  PROVE  /\ TermsOf(s) \in [PlanLanes -> Nat] /\ Rrf(s) = Total(TermsOf(s), LanesOf(s))
         /\ Rrf(s) \in Nat
<1>0. PICK S, F : S = LanesOf(s) /\ F = TermsOf(s)
  OBVIOUS
<1>1. S \in SUBSET PlanLanes /\ \A l \in S : RankIn(l, s) \in 1 .. 100
  BY <1>0, RetrievedRanks
<1>2. F \in [PlanLanes -> Nat] /\ \A l \in S : F[l] = RrfTerm(RankIn(l, s))
  <2>1. \A l \in PlanLanes : l \in S => RrfTerm(RankIn(l, s)) \in Nat
    BY <1>1, TermIsNatural
  <2> QED BY <1>0, <1>1, <2>1 DEF TermsOf
<1> DEFINE pick(t) == CHOOSE x \in t : TRUE
           P(g) == g = [t \in SUBSET S |-> IF t = {} THEN 0
                          ELSE RrfTerm(RankIn(pick(t), s)) + g[t \ {pick(t)}]]
<1>3. Rrf(s) = (CHOOSE g : P(g))[S]
  BY <1>0, Zenon DEF Rrf, MapThenSumSet, MapThenFoldSet
<1>4. \A t \in SUBSET S : t # {} => pick(t) \in S
  OBVIOUS
<1> HIDE DEF pick
<1>5. \A t \in SUBSET S : t # {} => RrfTerm(RankIn(pick(t), s)) = F[pick(t)]
  BY <1>2, <1>4
<1>6. \A g : P(g) <=> g = [t \in SUBSET S |-> IF t = {} THEN 0 ELSE F[pick(t)] + g[t \ {pick(t)}]]
  BY <1>5
<1>7. \A g : P(g) <=> IsSum(g, F, S)
  BY <1>6 DEF IsSum, pick
<1> HIDE DEF P
<1>8. PICK h : IsSum(h, F, S)
  BY <1>1, <1>2, LanesAreFinite, TotalFacts
<1>9. PICK k : k = CHOOSE g : P(g)
  OBVIOUS
<1>10. IsSum(k, F, S)
  BY <1>7, <1>8, <1>9, Zenon
<1>11. Rrf(s) = Total(F, S)
  BY <1>1, <1>2, <1>3, <1>9, <1>10, LanesAreFinite, TotalIs
<1>12. Total(F, S) \in Nat
  BY <1>1, <1>2, LanesAreFinite, TotalFacts
<1> QED BY <1>0, <1>2, <1>11, <1>12

(* An item that beats another in every lane the other appears in scores more. *)
LEMMA BetterScoresMore ==
  ASSUME ListsAreIn(laneResult), NEW s \in Retrieved, NEW t \in Retrieved,
         LanesOf(t) \subseteq LanesOf(s), \A l \in LanesOf(t) : RankIn(l, s) < RankIn(l, t)
  PROVE  Rrf(s) > Rrf(t)
<1>1. PICK F, E, T, U : /\ F = TermsOf(s) /\ E = TermsOf(t) /\ T = LanesOf(s) /\ U = LanesOf(t)
  OBVIOUS
<1>2. /\ F \in [PlanLanes -> Nat] /\ E \in [PlanLanes -> Nat]
      /\ Rrf(s) = Total(F, T) /\ Rrf(t) = Total(E, U)
  BY <1>1, RrfTotal
<1>3. /\ T \in SUBSET PlanLanes /\ U \in SUBSET T /\ U # {}
      /\ \A l \in T : RankIn(l, s) \in 1 .. 100
      /\ \A l \in U : RankIn(l, t) \in 1 .. 100
  BY <1>1, RetrievedRanks
<1>4. ASSUME NEW l \in U PROVE E[l] < F[l]
  <2>1. RrfTerm(RankIn(l, s)) > RrfTerm(RankIn(l, t))
    BY <1>1, <1>3, TermsFall
  <2>2. F[l] = RrfTerm(RankIn(l, s)) /\ E[l] = RrfTerm(RankIn(l, t))
    BY <1>1, <1>3 DEF TermsOf
  <2>3. E[l] \in Nat /\ F[l] \in Nat
    BY <1>2, <1>3
  <2> QED BY <2>1, <2>2, <2>3
<1>5. PICK x \in U : TRUE
  BY <1>3
<1>6. Total(E, U) = E[x] + Total(E, U \ {x}) /\ Total(F, T) = F[x] + Total(F, T \ {x})
  BY <1>2, <1>3, LanesAreFinite, TotalTakes
<1>7. Total(E, U \ {x}) <= Total(F, T \ {x})
  <2>1. T \ {x} \in SUBSET PlanLanes /\ U \ {x} \in SUBSET (T \ {x})
    BY <1>3
  <2>2. \A l \in U \ {x} : E[l] <= F[l]
    <3>1. \A l \in U : E[l] \in Nat /\ F[l] \in Nat
      BY <1>2, <1>3
    <3> QED BY <1>4, <3>1
  <2> QED BY <1>2, <2>1, <2>2, LanesAreFinite, TotalGrows
<1>8. PICK c, d \in Nat : c = Total(E, U \ {x}) /\ d = Total(F, T \ {x})
  <2>1. U \ {x} \in SUBSET PlanLanes /\ T \ {x} \in SUBSET PlanLanes
    BY <1>3
  <2>2. Total(E, U \ {x}) \in Nat /\ Total(F, T \ {x}) \in Nat
    BY <1>2, <2>1, LanesAreFinite, TotalFacts
  <2> QED BY <2>2
<1>9. E[x] < F[x] /\ E[x] \in Nat /\ F[x] \in Nat
  BY <1>2, <1>3, <1>4
<1> QED BY <1>2, <1>6, <1>7, <1>8, <1>9

\* What FusionIsFair says of an order f of what the lists found.
RankOf(lists, l, s) == CHOOSE i \in DOMAIN lists[l] : lists[l][i] = s
Finders(lists, s) == {l \in PlanLanes : lists[l] # Unset /\ s \in ToSet(lists[l])}
Found(lists) == UNION {ToSet(lists[l]) : l \in PlanLanes}
BestOf(lists, s) == Min({RankOf(lists, l, s) : l \in Finders(lists, s)})
FairTo(f, lists) ==
  /\ \A s \in Found(lists) :
        Cardinality({t \in ToSet(f) : Provenance(t) = Provenance(s)}) = 1
  /\ \A t \in ToSet(f) : \A s \in Found(lists) :
        Provenance(s) = Provenance(t) => BestOf(lists, t) <= BestOf(lists, s)
  /\ \A i, j \in DOMAIN f :
        (/\ i # j /\ Finders(lists, f[j]) \subseteq Finders(lists, f[i])
         /\ \A l \in Finders(lists, f[j]) : RankOf(lists, l, f[i]) < RankOf(lists, l, f[j]))
        => i < j

(* Each piece of evidence that was found has one survivor.                   *)
LEMMA OneSurvivor ==
  ASSUME ListsAreIn(laneResult), NEW s \in Retrieved
  PROVE  /\ \E w : {t \in Survivors : Provenance(t) = Provenance(s)} = {w}
         /\ \A t \in Survivors : Provenance(t) = Provenance(s) => BestRank(t) <= BestRank(s)
<1>1. PICK F, best, prov : /\ F = Retrieved /\ best = [t \in F |-> BestRank(t)]
                           /\ prov = [t \in F |-> Provenance(t)]
  OBVIOUS
<1>2. /\ \A t \in F : best[t] \in Nat /\ t \in Nat /\ best[t] = BestRank(t)
                      /\ prov[t] = Provenance(t)
  <2>1. \A t \in F : BestRank(t) \in Nat /\ t \in Pinned
    BY <1>1, RetrievedRanks
  <2> QED BY <1>1, <2>1, PinnedIsFinite
<1>3. PICK S : S = Survivors
  OBVIOUS
<1>4. /\ S \subseteq F
      /\ \A t \in F : t \in S <=> \A u \in F \ {t} :
           prov[u] = prov[t] => best[t] < best[u] \/ (best[t] = best[u] /\ t < u)
  BY <1>1, <1>2, <1>3 DEF Survivors, Beats
<1>5. PICK C : C = {t \in F : prov[t] = prov[s]}
  OBVIOUS
<1>6. s \in C
  BY <1>1, <1>5
<1>7. PICK b \in {best[t] : t \in C} : \A y \in {best[t] : t \in C} : b <= y
  <2>1. {best[t] : t \in C} \subseteq Nat /\ {best[t] : t \in C} # {}
    BY <1>2, <1>5, <1>6
  <2> QED BY <2>1, LeastNatural
<1>8. PICK w \in {t \in C : best[t] = b} : \A y \in {t \in C : best[t] = b} : w <= y
  <2>1. {t \in C : best[t] = b} \subseteq Nat /\ {t \in C : best[t] = b} # {}
    BY <1>2, <1>5, <1>7
  <2> QED BY <2>1, LeastNatural
<1>9. w \in F /\ w \in C /\ best[w] = b
  BY <1>5, <1>8
<1>10. w \in S
  <2>1. SUFFICES ASSUME NEW u \in F \ {w}, prov[u] = prov[w]
                 PROVE  best[w] < best[u] \/ (best[w] = best[u] /\ w < u)
    BY <1>4, <1>9
  <2>2. u \in C
    BY <1>5, <1>9, <2>1
  <2>3. best[w] <= best[u]
    BY <1>7, <1>9, <2>2
  <2>4. best[u] = best[w] => w <= u
    BY <1>8, <1>9, <2>2
  <2>5. best[w] \in Nat /\ best[u] \in Nat /\ w \in Nat /\ u \in Nat /\ u # w
    BY <1>2, <1>9, <2>1
  <2> QED BY <2>3, <2>4, <2>5
<1>11. ASSUME NEW t \in S, prov[t] = prov[s] PROVE t = w
  <2>1. SUFFICES ASSUME t # w PROVE FALSE
    OBVIOUS
  <2>2. t \in F /\ prov[t] = prov[w]
    BY <1>4, <1>5, <1>9, <1>11
  <2>3. best[t] < best[w] \/ (best[t] = best[w] /\ t < w)
    BY <1>4, <1>9, <2>1, <2>2
  <2>4. best[w] < best[t] \/ (best[w] = best[t] /\ w < t)
    BY <1>4, <1>9, <1>10, <2>1, <2>2
  <2>5. best[t] \in Nat /\ best[w] \in Nat /\ t \in Nat /\ w \in Nat
    BY <1>2, <1>9, <2>2
  <2> QED BY <2>3, <2>4, <2>5
<1>12. prov[w] = prov[s] /\ best[w] <= best[s]
  BY <1>5, <1>6, <1>7, <1>9
<1>13. \A t \in S : prov[t] = Provenance(t)
  BY <1>2, <1>4
<1>14. prov[s] = Provenance(s) /\ best[s] = BestRank(s) /\ best[w] = BestRank(w)
  BY <1>1, <1>2, <1>9
<1>15. {t \in S : Provenance(t) = Provenance(s)} = {w}
  <2>1. \A t \in S : Provenance(t) = Provenance(s) <=> t = w
    BY <1>10, <1>11, <1>12, <1>13, <1>14
  <2> QED BY <1>10, <2>1
<1>16. \A t \in S : Provenance(t) = Provenance(s) => BestRank(t) <= BestRank(s)
  BY <1>11, <1>12, <1>13, <1>14
<1> QED BY <1>3, <1>15, <1>16

(* The fused order lists the survivors, and is fair to what was found.       *)
LEMMA FusedOrderIsFair ==
  ASSUME ListsAreIn(laneResult), NEW f, f = FusedOrder
  PROVE  FairTo(f, laneResult) /\ f \in Seq(Pinned)
<1>1. PICK S, key : S = Survivors /\ key = [s \in S |-> Rrf(s)]
  OBVIOUS
<1>2. S \subseteq Retrieved
  BY <1>1 DEF Survivors
<1>3. Retrieved \subseteq Pinned
  BY RetrievedRanks
<1>4. IsFiniteSet(S) /\ S \subseteq Nat
  <2>1. S \subseteq Pinned
    BY <1>2, <1>3
  <2> QED BY <2>1, PinnedIsFinite, FS_Subset
<1>5. key \in [S -> Int] /\ \A s \in S : key[s] = Rrf(s) /\ Rrf(s) \in Nat
  <2>1. \A s \in S : Rrf(s) \in Nat
    BY <1>2, RrfTotal
  <2> QED BY <1>1, <2>1
<1>6. f = BestFirst(S, key)
  BY <1>1, Zenon DEF FusedOrder
<1>7. InScoreOrder(f, S, key)
  BY <1>4, <1>5, <1>6, BestFirstOrders
<1>8. PICK n \in Nat : n = Len(f) /\ f \in Seq(S) /\ DOMAIN f = 1 .. n
  BY <1>7 DEF InScoreOrder
<1>9. \A i \in 1 .. n : f[i] \in S
  BY <1>8
<1>10. ToSet(f) = S
  <2>1. \A x \in S : \E i \in 1 .. n : f[i] = x
    BY <1>7, <1>8 DEF InScoreOrder
  <2> QED BY <1>8, <1>9, <2>1 DEF ToSet
<1>11. \A s \in Retrieved :
         Cardinality({t \in ToSet(f) : Provenance(t) = Provenance(s)}) = 1
  <2>1. SUFFICES ASSUME NEW s \in Retrieved
                 PROVE  Cardinality({t \in ToSet(f) : Provenance(t) = Provenance(s)}) = 1
    OBVIOUS
  <2>2. PICK w : {t \in Survivors : Provenance(t) = Provenance(s)} = {w}
    BY OneSurvivor
  <2>3. {t \in ToSet(f) : Provenance(t) = Provenance(s)} = {w}
    BY <1>1, <1>10, <2>2
  <2> QED BY <2>3, FS_Singleton
<1>12. \A t \in ToSet(f) : \A s \in Retrieved :
         Provenance(s) = Provenance(t) => BestRank(t) <= BestRank(s)
  BY <1>1, <1>10, OneSurvivor
<1>13. ASSUME NEW i \in DOMAIN f, NEW j \in DOMAIN f, i # j,
              LanesOf(f[j]) \subseteq LanesOf(f[i]),
              \A l \in LanesOf(f[j]) : RankIn(l, f[i]) < RankIn(l, f[j])
       PROVE  i < j
  <2>1. i \in 1 .. n /\ j \in 1 .. n /\ f[i] \in S /\ f[j] \in S
    BY <1>8, <1>9
  <2>2. f[i] \in Retrieved /\ f[j] \in Retrieved
    BY <1>2, <2>1
  <2>3. Rrf(f[i]) > Rrf(f[j])
    BY <1>13, <2>2, BetterScoresMore
  <2>4. key[f[i]] > key[f[j]] /\ key[f[i]] \in Int /\ key[f[j]] \in Int
    BY <1>5, <2>1, <2>3
  <2>5. SUFFICES ASSUME j < i PROVE FALSE
    BY <1>13, <2>1
  <2>6. key[f[j]] > key[f[i]] \/ key[f[j]] = key[f[i]]
    BY <1>7, <1>8, <2>1, <2>5 DEF InScoreOrder
  <2> QED BY <2>4, <2>6
<1>14. FairTo(f, laneResult)
  <2>1. \A i, j \in DOMAIN f :
        (/\ i # j /\ LanesOf(f[j]) \subseteq LanesOf(f[i])
         /\ \A l \in LanesOf(f[j]) : RankIn(l, f[i]) < RankIn(l, f[j]))
        => i < j
    BY <1>13
  <2> QED
    BY <1>11, <1>12, <2>1, Zenon
    DEF FairTo, Found, Retrieved, RankOf, RankIn, Finders, LanesOf, BestOf, BestRank
<1>15. f \in Seq(Pinned)
  <2>1. S \subseteq Pinned
    BY <1>2, <1>3
  <2> QED BY <1>8, <2>1
<1> QED BY <1>14, <1>15

(* Numbers that agree in every dimension are the same.                       *)
LEMMA AgreeingNumbers ==
  ASSUME NEW a, NEW b, IsAmount(a), IsAmount(b), a # NoNumber, b # NoNumber, NumbersAgree(a, b)
  PROVE  a = b
<1>1. PICK x, y \in Int : x = a.value /\ y = b.value
  BY DEF IsAmount
<1>2. x * Polarity(x) = y * Polarity(y) /\ Polarity(x) = Polarity(y)
  BY <1>1 DEF NumbersAgree, Size
<1>3. x = y
  <2>1. CASE x > 0
    BY <1>2, <2>1 DEF Polarity
  <2>2. CASE x < 0
    BY <1>2, <2>2 DEF Polarity
  <2>3. CASE x = 0
    BY <1>2, <2>3 DEF Polarity
  <2> QED BY <2>1, <2>2, <2>3
<1>4. a.unit = b.unit /\ a.period = b.period /\ a.scale = b.scale /\ a.value = b.value
  BY <1>1, <1>3 DEF NumbersAgree
<1>5. /\ a = [value |-> a.value, unit |-> a.unit, period |-> a.period, scale |-> a.scale]
      /\ b = [value |-> b.value, unit |-> b.unit, period |-> b.period, scale |-> b.scale]
  BY DEF IsAmount
<1> QED BY <1>4, <1>5

\* What AnswerIsGrounded says of one claim and its status.
SupportedBy(c, acc) ==
  \A k \in DOMAIN c.cites :
     LET e == Evidence(c, k)
     IN /\ c.cites[k].item \in ToSet(acc)
        /\ e.verified /\ e.index = Filter.index /\ e.published <= Filter.asOf
        /\ \A column \in DOMAIN Filters : e[column] \in Filters[column]
        /\ e.text = c.text
        /\ c.number # NoNumber => e.number = c.number
Disputed(c) ==
  /\ c.number # NoNumber
  /\ \E e \in {Evidence(c, k) : k \in DOMAIN c.cites} : e.number # NoNumber /\ e.number # c.number
ClaimHolds(v, acc) ==
  /\ v.status = "supported" => SupportedBy(v.claim, acc)
  /\ Disputed(v.claim) => v.status = "contradicted"
AllHold(cs, acc, e) ==
  \A i \in DOMAIN cs : ClaimHolds(cs[i], acc) /\ (Disputed(cs[i].claim) => e = "succeeded")

(* Verification says of an admitted claim what the cited evidence bears out.  *)
LEMMA VerifiedHolds ==
  ASSUME NEW c \in Proposals, NEW acc, ToSet(acc) \subseteq Pinned,
         \A k \in DOMAIN c.cites : c.cites[k].item \in ToSet(acc)
  PROVE  ClaimHolds(Verified(c), acc) /\ Verified(c).claim = c
<1>1. PICK D, edges, es : /\ D = DOMAIN c.cites
                          /\ edges = [k \in D |-> Edge(c, Evidence(c, k))]
                          /\ es = {edges[k] : k \in D}
  OBVIOUS
<1>2. Verified(c).claim = c /\ Verified(c).status = Classify(edges) /\ es = ToSet(edges)
  BY <1>1 DEF Verified, ToSet
<1>3. \A k \in D : Edge(c, Evidence(c, k)) \in es
  BY <1>1
<1>4. ASSUME NEW k \in D
      PROVE  /\ c.cites[k].item \in ToSet(acc)
             /\ c.cites[k].item \in Pinned
             /\ Evidence(c, k) = Corpus[c.cites[k].item]
             /\ IsAmount(Evidence(c, k).number)
  <2>1. c.cites[k].item \in ToSet(acc) /\ c.cites[k].item \in Pinned
    BY <1>1
  <2>2. c.cites[k].item \in DOMAIN Corpus
    BY <2>1 DEF Pinned
  <2> QED BY <2>1, <2>2, AnswerAssumption DEF Evidence
<1>5. IsAmount(c.number)
  BY AnswerAssumption, Zenon
<1>6. ASSUME Classify(edges) = "supported" PROVE SupportedBy(c, acc)
  <2>1. es = {"entailed"}
    BY <1>2, <1>6 DEF Classify
  <2>2. SUFFICES ASSUME NEW k \in D
                 PROVE  /\ c.cites[k].item \in ToSet(acc)
                        /\ Evidence(c, k).verified /\ WithinFilters(Evidence(c, k))
                        /\ Evidence(c, k).text = c.text
                        /\ c.number # NoNumber => Evidence(c, k).number = c.number
    BY <1>1, Zenon DEF SupportedBy, WithinFilters
  <2>3. PICK e : e = Evidence(c, k)
    OBVIOUS
  <2>4. Edge(c, e) = "entailed"
    BY <1>3, <2>1, <2>3
  <2>5. e.text = c.text /\ (c.number # NoNumber => e.number # NoNumber /\ NumbersAgree(c.number, e.number))
    BY <2>4 DEF Edge
  <2>6. c.number # NoNumber => e.number = c.number
    BY <1>4, <1>5, <2>3, <2>5, AgreeingNumbers
  <2>7. e.verified /\ WithinFilters(e)
    BY <1>4, <2>3 DEF Pinned, Buildable, Eligible
  <2> QED BY <1>4, <2>3, <2>5, <2>6, <2>7
<1>7. ASSUME Disputed(c) PROVE Classify(edges) = "contradicted"
  <2>1. c.number # NoNumber
    BY <1>7 DEF Disputed
  <2>2. PICK k \in D : Evidence(c, k).number # NoNumber /\ Evidence(c, k).number # c.number
    BY <1>1, <1>7 DEF Disputed
  <2>3. ~NumbersAgree(c.number, Evidence(c, k).number)
    BY <1>4, <1>5, <2>1, <2>2, AgreeingNumbers
  <2>4. Edge(c, Evidence(c, k)) = "contradictory"
    BY <2>1, <2>2, <2>3 DEF Edge
  <2>5. "contradictory" \in es
    BY <1>3, <2>4
  <2> QED BY <1>2, <2>5 DEF Classify
<1> QED BY <1>2, <1>6, <1>7 DEF ClaimHolds

\* The invariant: lanes answer with pinned sources, the context is chosen from
\* them, and what is rendered holds.
AnsInv ==
  /\ \A l \in PlanLanes : score[l] \in [DOMAIN Corpus -> Int]
  /\ items \subseteq {s \in DOMAIN Corpus : Buildable(s)}
  /\ laneResult = [l \in ToSet(Lanes) |-> laneResult[l]]
  /\ \A l \in PlanLanes : \/ laneResult[l] = Unset
                          \/ laneResult[l] \in Seq(Pinned) /\ Len(laneResult[l]) <= TopK
  /\ fused = Unset => claims = <<>>
  /\ fused # Unset => FairTo(fused, laneResult) /\ ToSet(accepted) \subseteq Pinned
  /\ AllHold(claims, accepted, ended)

(* A lane returns at most top_k of the pinned sources.                       *)
LEMMA RankedIsPinned ==
  ASSUME AnsInv, NEW lane \in PlanLanes
  PROVE  Ranked(lane) \in Seq(Pinned) /\ Len(Ranked(lane)) <= TopK
<1>1. PICK S, all : S = Hits(lane) /\ all = BestFirst(S, score[lane])
  OBVIOUS
<1>2. S \subseteq Pinned
  BY <1>1 DEF Hits, AnsInv, Pinned
<1>3. IsFiniteSet(S) /\ S \subseteq Nat
  BY <1>2, PinnedIsFinite, FS_Subset
<1>4. S \subseteq DOMAIN Corpus /\ score[lane] \in [DOMAIN Corpus -> Int]
  BY <1>2 DEF Pinned, AnsInv
<1>5. InScoreOrder(all, S, score[lane])
  BY <1>1, <1>3, <1>4, BestFirstOrders
<1>6. all \in Seq(S) /\ Len(all) \in Nat
  BY <1>5 DEF InScoreOrder
<1>7. all \in Seq(Pinned)
  BY <1>2, <1>6
<1>8. PICK k : k = Min({TopK, Len(all)})
  OBVIOUS
<1>9. k \in Nat /\ k <= Len(all) /\ k <= TopK
  <2>1. {TopK, Len(all)} \subseteq Nat /\ {TopK, Len(all)} # {}
    BY <1>6, AnswerLimits
  <2>2. k \in {TopK, Len(all)} /\ \A y \in {TopK, Len(all)} : k <= y
    BY <1>8, <2>1, MinOfNaturals
  <2> QED BY <2>1, <2>2
<1>10. Ranked(lane) = SubSeq(all, 1, k)
  BY <1>1, <1>8, Zenon DEF Ranked
<1>11. SubSeq(all, 1, k) \in Seq(Pinned) /\ Len(SubSeq(all, 1, k)) = k
  BY <1>7, <1>9, FirstRows
<1> QED BY <1>9, <1>10, <1>11

(* The context is a part of the fused order.                                 *)
LEMMA ContextIsPinned ==
  ASSUME NEW f \in Seq(Pinned)
  PROVE  ToSet(SubSeq(f, 1, Min({ContextItems, TopK, Len(f)}))) \subseteq Pinned
<1>1. TopK \in Nat /\ MaxContext \in Nat /\ Len(f) \in Nat
  BY AnswerLimits, LenProperties
<1>2. PICK m : m = Min({TopK, MaxContext})
  OBVIOUS
<1>3. m \in Nat
  <2>1. {TopK, MaxContext} \subseteq Nat /\ {TopK, MaxContext} # {}
    BY <1>1
  <2> QED BY <1>2, <2>1, MinOfNaturals
<1>4. ContextItems \in Nat
  <2>1. \E x \in {1, m} : \A y \in {1, m} : x >= y
    BY <1>3
  <2>2. Max({1, m}) \in {1, m}
    BY <2>1, Zenon DEF Max
  <2> QED BY <1>2, <1>3, <2>2 DEF ContextItems
<1>5. PICK k : k = Min({ContextItems, TopK, Len(f)})
  OBVIOUS
<1>6. k \in Nat /\ k <= Len(f)
  <2>1. {ContextItems, TopK, Len(f)} \subseteq Nat /\ {ContextItems, TopK, Len(f)} # {}
    BY <1>1, <1>4
  <2>2. k \in {ContextItems, TopK, Len(f)} /\ \A y \in {ContextItems, TopK, Len(f)} : k <= y
    BY <1>5, <2>1, MinOfNaturals
  <2> QED BY <2>1, <2>2
<1>7. SubSeq(f, 1, k) \in Seq(Pinned)
  BY <1>6, FirstRows
<1>8. PICK g : g = SubSeq(f, 1, k)
  OBVIOUS
<1>9. \A i \in DOMAIN g : g[i] \in Pinned
  BY <1>7, <1>8
<1>10. ToSet(g) \subseteq Pinned
  BY <1>9 DEF ToSet
<1> QED BY <1>5, <1>8, <1>10

(* Every step keeps the invariant.                                           *)
LEMMA AnsStep ==
  ASSUME AnsInv, AnsNext
  PROVE  AnsInv'
<1>1. CASE BuildItems
  <2>1. items' \subseteq {s \in DOMAIN Corpus : Buildable(s)}
    BY <1>1 DEF BuildItems
  <2>2. /\ score' = score /\ laneResult' = laneResult /\ fused' = fused
        /\ accepted' = accepted /\ claims' = claims /\ ended' = ended
    BY <1>1 DEF BuildItems
  <2> QED BY <2>1, <2>2 DEF AnsInv
<1>2. ASSUME NEW lane \in PlanLanes, FinishLane(lane) PROVE AnsInv'
  <2>1. /\ score' = score /\ items' = items /\ fused' = fused /\ fused = Unset
        /\ accepted' = accepted /\ claims' = claims /\ ended' = ended
        /\ laneResult' = [laneResult EXCEPT ![lane] = Ranked(lane)]
    BY <1>2 DEF FinishLane, Searching
  <2>2. Ranked(lane) \in Seq(Pinned) /\ Len(Ranked(lane)) <= TopK
    BY RankedIsPinned
  <2>3. lane \in ToSet(Lanes)
    BY AnswerAssumption, Zenon
  <2>4. laneResult = [l \in ToSet(Lanes) |-> laneResult[l]]
    BY DEF AnsInv
  <2>5. /\ laneResult' = [l \in ToSet(Lanes) |-> laneResult'[l]]
        /\ \A l \in PlanLanes : laneResult'[l] = IF l = lane THEN Ranked(lane) ELSE laneResult[l]
    <3>1. PICK L, res : L = ToSet(Lanes) /\ res = laneResult
      OBVIOUS
    <3>2. res = [l \in L |-> res[l]] /\ PlanLanes \subseteq L
      BY <2>4, <3>1, AnswerAssumption
    <3>3. laneResult' = [res EXCEPT ![lane] = Ranked(lane)]
      BY <2>1, <3>1
    <3> QED BY <3>1, <3>2, <3>3
  <2>6. \A l \in PlanLanes : \/ laneResult'[l] = Unset
                             \/ laneResult'[l] \in Seq(Pinned) /\ Len(laneResult'[l]) <= TopK
    BY <2>2, <2>5 DEF AnsInv
  <2> QED BY <2>1, <2>5, <2>6 DEF AnsInv
<1>3. ASSUME NEW lane \in PlanLanes, FailLane(lane) PROVE AnsInv'
  BY <1>3 DEF FailLane, AnsInv
<1>4. CASE LanesFailed
  <2>1. /\ score' = score /\ laneResult' = laneResult /\ fused' = fused /\ fused = Unset
        /\ items' = items /\ accepted' = accepted /\ claims' = claims
    BY <1>4 DEF LanesFailed, Searching
  <2>2. AllHold(claims', accepted', ended')
    BY <2>1 DEF AllHold, AnsInv
  <2> QED BY <2>1, <2>2 DEF AnsInv
<1>5. CASE Fuse
  <2>1. /\ score' = score /\ laneResult' = laneResult /\ items' = items
        /\ claims' = claims /\ ended' = ended /\ fused = Unset
        /\ fused' = FusedOrder /\ Collected /\ failedLanes = {}
        /\ accepted' = SubSeq(FusedOrder, 1, Min({ContextItems, TopK, Len(FusedOrder)}))
    BY <1>5 DEF Fuse, Searching
  <2>2. ListsAreIn(laneResult)
    BY <2>1 DEF AnsInv, Collected, ListsAreIn
  <2>3. PICK f : f = FusedOrder
    OBVIOUS
  <2>4. FairTo(f, laneResult) /\ f \in Seq(Pinned)
    BY <2>2, <2>3, FusedOrderIsFair
  <2>5. ToSet(accepted') \subseteq Pinned
    BY <2>1, <2>3, <2>4, ContextIsPinned
  <2>6. claims' = <<>>
    BY <2>1 DEF AnsInv
  <2>7. AllHold(claims', accepted', ended')
    BY <2>6 DEF AllHold
  <2>8. FairTo(fused', laneResult')
    BY <2>1, <2>3, <2>4
  <2> QED BY <2>1, <2>5, <2>6, <2>7, <2>8 DEF AnsInv
<1>6. CASE Generate
  <2>1. /\ score' = score /\ laneResult' = laneResult /\ items' = items
        /\ fused' = fused /\ accepted' = accepted /\ fused # Unset
    BY <1>6 DEF Generate
  <2>9. PICK n \in 0 .. MaxClaims : \E answer \in [1 .. n -> Proposals] :
          LET admitted == IF \A i \in 1 .. n : Admissible(answer[i]) THEN answer ELSE <<>>
              cs == [i \in DOMAIN admitted |-> Verified(admitted[i])]
          IN  claims' = cs /\ ended' = IF Abstains(cs) THEN "abstained" ELSE "succeeded"
    BY <1>6 DEF Generate
  <2>2. PICK answer \in [1 .. n -> Proposals] :
          LET admitted == IF \A i \in 1 .. n : Admissible(answer[i]) THEN answer ELSE <<>>
              cs == [i \in DOMAIN admitted |-> Verified(admitted[i])]
          IN  claims' = cs /\ ended' = IF Abstains(cs) THEN "abstained" ELSE "succeeded"
    BY <2>9
  <2>3. PICK admitted : admitted = IF \A i \in 1 .. n : Admissible(answer[i]) THEN answer ELSE <<>>
    OBVIOUS
  <2>4. /\ claims' = [i \in DOMAIN admitted |-> Verified(admitted[i])]
        /\ ended' = IF Abstains(claims') THEN "abstained" ELSE "succeeded"
    BY <2>2, <2>3
  <2>5. \A i \in DOMAIN admitted : admitted[i] \in Proposals /\ Admissible(admitted[i])
    BY <2>3
  <2>6. ToSet(accepted) \subseteq Pinned
    BY <2>1 DEF AnsInv
  <2>7. ASSUME NEW i \in DOMAIN admitted
        PROVE  ClaimHolds(claims'[i], accepted) /\ (Disputed(claims'[i].claim) => ended' = "succeeded")
    <3>1. /\ admitted[i] \in Proposals
          /\ \A k \in DOMAIN admitted[i].cites : admitted[i].cites[k].item \in ToSet(accepted)
      BY <2>5 DEF Admissible
    <3>2. PICK v : v = Verified(admitted[i])
      OBVIOUS
    <3>3. ClaimHolds(v, accepted)
      BY <2>6, <3>1, <3>2, VerifiedHolds
    <3>4. claims'[i] = v /\ i \in DOMAIN claims'
      BY <2>4, <3>2
    <3>5. ASSUME Disputed(v.claim) PROVE ended' = "succeeded"
      <4>1. v.status = "contradicted"
        BY <3>3, <3>5 DEF ClaimHolds
      <4>2. ~Abstains(claims')
        BY <3>4, <4>1 DEF Abstains
      <4> QED BY <2>4, <4>2
    <3> QED BY <3>3, <3>4, <3>5
  <2>8. AllHold(claims', accepted', ended')
    <3>1. DOMAIN claims' = DOMAIN admitted
      BY <2>4
    <3> QED BY <2>1, <2>7, <3>1 DEF AllHold
  <2> QED BY <2>1, <2>8 DEF AnsInv
<1> QED BY <1>1, <1>2, <1>3, <1>4, <1>5, <1>6 DEF AnsNext

(* It holds of a question before anything was built.                         *)
LEMMA AnsStart ==
  ASSUME AnsInit
  PROVE  AnsInv
<1>1. PlanLanes \subseteq ToSet(Lanes)
  BY AnswerAssumption, Zenon
<1>2. \A l \in PlanLanes : score[l] \in [DOMAIN Corpus -> Int]
  BY <1>1, AnswerAssumption DEF AnsInit
<1>3. /\ laneResult = [l \in ToSet(Lanes) |-> laneResult[l]]
      /\ \A l \in PlanLanes : laneResult[l] = Unset
  <2>1. PICK L : L = ToSet(Lanes)
    OBVIOUS
  <2>2. laneResult = [l \in L |-> Unset]
    BY <2>1 DEF AnsInit
  <2> QED BY <1>1, <2>1, <2>2
<1>4. items = {} /\ claims = <<>> /\ fused = Unset
  BY DEF AnsInit
<1> QED BY <1>2, <1>3, <1>4 DEF AnsInv, AllHold

(* It says what an answer promises.                                          *)
LEMMA AnsInvSound == AnsInv => AnswerIsSound
<1> SUFFICES ASSUME AnsInv PROVE AnswerIsSound
  OBVIOUS
<1>1. FusionIsFair
  <2>1. fused # Unset => FairTo(fused, laneResult)
    BY DEF AnsInv
  <2> QED
    BY <2>1, Zenon
    DEF FusionIsFair, FairTo, Found, Retrieved, RankOf, RankIn, Finders, LanesOf, BestOf, BestRank
<1>2. AnswerIsGrounded
  <2>1. AllHold(claims, accepted, ended)
    BY DEF AnsInv
  <2> QED
    BY <2>1, Zenon DEF AnswerIsGrounded, AllHold, ClaimHolds, SupportedBy, Disputed
<1> QED BY <1>1, <1>2 DEF AnswerIsSound

(* For every corpus, question, plan and model output: what is rendered as     *)
(* supported is what the pinned evidence says, a disagreeing number is shown  *)
(* as contradicted, and fusion loses and buries nothing (fuse,                *)
(* classify_claim, should_abstain).                                           *)
THEOREM AnsSpecSound == AnsSpec => []AnswerIsSound
<1>1. AnsInv /\ UNCHANGED ansVars => AnsInv'
  BY DEF AnsInv, ansVars
<1>2. AnsInv /\ [AnsNext]_ansVars => AnsInv'
  BY <1>1, AnsStep
<1> QED BY <1>2, AnsStart, AnsInvSound, PTL DEF AnsSpec
=============================================================================
