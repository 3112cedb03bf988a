------------------------------ MODULE Ingestion ------------------------------
(* Ingesting filings and companyfacts snapshots                               *)
(* (workers/src/fel_workers/ingestion: pipeline.py, raw_store.py, xbrl.py,    *)
(* company_facts.py).                                                         *)
(*                                                                            *)
(* A call is one transaction under READ COMMITTED: it claims the ledger row   *)
(* of its job, stores the bytes, records the document, parses, normalises and *)
(* writes the version with its facts. Blobs are outside the transaction and   *)
(* survive its rollback. Calls for the same job, for other bytes under the    *)
(* same accession, or for the filing of another entity, run side by side.     *)
EXTENDS Integers, Sequences, FiniteSets

CONSTANTS
    Calls,          \* calls of ingest_filing and ingest_company_facts
    CallEntity, CallAccession, CallBytes,    \* their arguments
    CallParser,     \* the parser version of the worker that makes the call
    Channel,        \* per accession: "filing" or "snapshot"
    PublishedAt,    \* per accession
    Malformed,      \* the bytes the parser refuses
    FactsIn,        \* per parser version and bytes: the facts, in order, as <<key, display>>
    IngestFaults,   \* a subset of {"crash"}
    MaxCallsBegun,  \* bound: calls of one behaviour
    NoBytes, NoLink

Accessions == DOMAIN Channel

ASSUME IngestionAssumption ==
    /\ CallAccession \in [Calls -> Accessions]
    /\ Channel \in [Accessions -> {"filing", "snapshot"}]
    /\ PublishedAt \in [Accessions -> Nat]
    /\ \A c \in Calls : CallBytes[c] # NoBytes /\ CallBytes[c] \in DOMAIN FactsIn[CallParser[c]]
    /\ IngestFaults \subseteq {"crash"} /\ MaxCallsBegun \in Nat

VARIABLES
    ledger,      \* committed rows of ingestion_runs: a function on some job keys
    document,    \* committed: the bytes whose hash the document row holds, or NoBytes
    derived,     \* committed: document versions with their facts
    blobs,       \* storage keys written so far
    call,        \* per call: where it is, its open transaction, what it returned
    began        \* number of transactions begun

ingestVars == <<ledger, document, derived, blobs, call, began>>

Unbegun == [pc |-> "idle", born |-> 0, inserted |-> FALSE, facts |-> <<>>,
            returned |-> "nothing"]

IngestInit ==
    /\ ledger = <<>> /\ document = [a \in Accessions |-> NoBytes]
    /\ derived = {} /\ blobs = {} /\ began = 0
    /\ call = [c \in Calls |-> Unbegun]

\* (entity, accession, source hash, parser and normalizer version).
JobKey(c) == <<CallEntity[c], CallAccession[c], CallBytes[c], CallParser[c]>>

RawBlob(bytes) == <<"raw", bytes>>
TextBlob(bytes, parser) == <<"text", bytes, parser>>

Ingesting(c) == call[c].pc \notin {"idle", "done"}
MoveTo(c, pc) == call' = [call EXCEPT ![c].pc = pc]

(* --------------------------------- claim --------------------------------- *)
\* The insert waits for the transaction that holds the same key.
MayClaim(c) == \A d \in Calls \ {c} : Ingesting(d) => JobKey(d) # JobKey(c)

\* A job with a recorded result is a no-op that returns it.
ClaimIngest(c) ==
    /\ call[c].pc = "idle" /\ MayClaim(c) /\ began < MaxCallsBegun
    /\ began' = began + 1
    /\ call' = [call EXCEPT ![c] =
         IF JobKey(c) \in DOMAIN ledger
           THEN [@ EXCEPT !.pc = "done", !.returned = ledger[JobKey(c)].status]
           ELSE [@ EXCEPT !.pc = "putting", !.born = began]]
    /\ UNCHANGED <<ledger, document, derived, blobs>>

(* --------------------------- store_raw_document -------------------------- *)
PutRaw(c) ==
    /\ call[c].pc = "putting"
    /\ blobs' = blobs \cup {RawBlob(CallBytes[c])}
    /\ MoveTo(c, "recording")
    /\ UNCHANGED <<ledger, document, derived, began>>

Accession(c) == CallAccession[c]

\* Known bytes under the accession, and others than these.
Divergent(c) == document[Accession(c)] \notin {NoBytes, CallBytes[c]}

\* ON CONFLICT (accession) waits for a transaction that has inserted the row.
RecordDocument(c) ==
    /\ call[c].pc = "recording"
    /\ \A d \in Calls \ {c} : call[d].inserted => Accession(d) # Accession(c)
    /\ call' = [call EXCEPT ![c].inserted = (document[Accession(c)] = NoBytes),
                            ![c].pc = IF Divergent(c) THEN "refused" ELSE "parsing"]
    /\ UNCHANGED <<ledger, document, derived, blobs, began>>

(* ------------------------------ normalisation ----------------------------- *)
\* What a fact displays: a format, a text with its readings as a number with a
\* decimal dot and with a decimal comma, parentheses, a sign attribute, a scale.
Numeric == {"none", "num-dot-decimal", "num-comma-decimal"}
Zero == {"fixed-zero", "numdash"}

\* A format outside the registry, one that says there is no number, or a text
\* without one: never a guess.
Unresolved(f) ==
    \/ f.format \notin Numeric \cup Zero
    \/ f.format \in Numeric /\ f.text \notin {"number", "dash"}

Transformed(f) ==
    CASE f.format \in Zero \/ f.text = "dash" -> 0
      [] f.format = "num-comma-decimal" /\ f.text = "number" -> f.comma
      [] OTHER -> f.dot

\* Parentheses and the sign attribute each negate.
ParseFactValue(f) ==
    (IF f.parens # f.minus THEN -1 ELSE 1) * Transformed(f) * 10^f.scale

\* The facts of the bytes as <<key, value>>.
Valued(facts) == [i \in DOMAIN facts |-> <<facts[i][1], ParseFactValue(facts[i][2])>>]

\* Versions that were parsed last among those of their document.
LatestParsedOf(a) ==
    {v \in derived : v.accession = a
        /\ \A w \in derived : w.accession = a => w.born <= v.born}

Canonical(v) == {i \in DOMAIN v.facts : v.facts[i].duplicateOf = NoLink}

FactId(v, i) == <<v.accession, v.parser, i>>

\* Published up to now, the document itself included.
UpToNowMutant(a) ==
    {b \in Accessions : PublishedAt[b] <= PublishedAt[a] /\ Channel[b] = "filing"}

\* Accessions whose facts may be restated by facts of accession a.
Restatable(a) ==
    {b \in Accessions : PublishedAt[b] < PublishedAt[a] /\ Channel[b] = "filing"}

\* The canonical facts of the call's entity with a key, in the documents
\* published before the call's. Which version is latest is asked of the document,
\* whatever entity its versions name.
PriorFacts(c, key) ==
    LET Current == {v \in derived : /\ v.entity = CallEntity[c]
                                    /\ v.accession \in Restatable(Accession(c))
                                    /\ v \in LatestParsedOf(v.accession)}
    IN  UNION {{[id |-> FactId(v, i), value |-> v.facts[i].value,
                 at |-> PublishedAt[v.accession], born |-> v.born] :
                    i \in {k \in Canonical(v) : v.facts[k].key = key}} : v \in Current}

\* The latest of them.
PriorCanonicalFact(c, key) ==
    LET prior == PriorFacts(c, key)
    IN  IF prior = {} THEN NoLink
        ELSE CHOOSE p \in prior :
               \A q \in prior : q.at < p.at \/ (q.at = p.at /\ q.born <= p.born)

\* The same key twice in a document: a duplicate of the first, or inconsistent.
FirstOf(facts, i) == CHOOSE j \in 1 .. i : facts[j][1] = facts[i][1]
                                             /\ \A k \in 1 .. j - 1 : facts[k][1] # facts[i][1]

Inconsistent(facts) ==
    \E i, j \in DOMAIN facts : facts[i][1] = facts[j][1] /\ facts[i][2] # facts[j][2]

\* A snapshot restates nothing.
NormalizeCompanyFacts(facts) ==
    [i \in DOMAIN facts |->
        LET first == FirstOf(facts, i)
        IN  [key |-> facts[i][1], value |-> facts[i][2],
             duplicateOf |-> IF first = i THEN NoLink ELSE first, restates |-> NoLink]]

\* A fact of a filing, duplicate or not, restates the prior fact of another value.
NormalizeFacts(c, facts) ==
    [i \in DOMAIN facts |->
        LET prior == PriorCanonicalFact(c, facts[i][1])
        IN  [NormalizeCompanyFacts(facts)[i] EXCEPT !.restates =
                IF prior # NoLink /\ prior.value # facts[i][2] THEN prior.id ELSE NoLink]]

NormalizedFacts(c) ==
    LET facts == Valued(FactsIn[CallParser[c]][CallBytes[c]])
    IN  IF Channel[Accession(c)] = "filing" THEN NormalizeFacts(c, facts)
                                            ELSE NormalizeCompanyFacts(facts)

Parse(c) ==
    /\ call[c].pc = "parsing"
    /\ LET facts == FactsIn[CallParser[c]][CallBytes[c]]
       IN  call' = [call EXCEPT ![c] =
             IF \/ CallBytes[c] \in Malformed
                \/ \E i \in DOMAIN facts : Unresolved(facts[i][2])
                \/ Inconsistent(Valued(facts))
               THEN [@ EXCEPT !.pc = "refused"]
               ELSE [@ EXCEPT !.pc = "persisting", !.facts = NormalizedFacts(c)]]
    /\ UNCHANGED <<ledger, document, derived, blobs, began>>

(* ------------------------------- commit ---------------------------------- *)
\* The document row the transaction inserted, or the one that was there.
DocumentAfter(c) ==
    IF call[c].inserted THEN [document EXCEPT ![Accession(c)] = CallBytes[c]] ELSE document

Returned(c, status) ==
    call' = [call EXCEPT ![c] = [Unbegun EXCEPT !.pc = "done", !.returned = status]]

LedgerWith(c, status) ==
    [k \in (DOMAIN ledger) \cup {JobKey(c)} |->
        IF k = JobKey(c) THEN [status |-> status, by |-> c] ELSE ledger[k]]

\* _record_quarantine: the document row stays, with no version.
Quarantine(c) ==
    /\ call[c].pc = "refused"
    /\ document' = DocumentAfter(c) /\ ledger' = LedgerWith(c, "quarantined")
    /\ Returned(c, "quarantined")
    /\ UNCHANGED <<derived, blobs, began>>

\* The canonical text goes to storage before the rows that need it.
PutText(c) ==
    /\ call[c].pc = "persisting"
    /\ blobs' = blobs \cup {TextBlob(CallBytes[c], CallParser[c])}
    /\ MoveTo(c, "writing")
    /\ UNCHANGED <<ledger, document, derived, began>>

\* The version with its facts, which carry the entity.
VersionRow(c) == [entity |-> CallEntity[c], accession |-> Accession(c), bytes |-> CallBytes[c],
                  parser |-> CallParser[c], born |-> call[c].born, facts |-> call[c].facts]

\* UNIQUE (document_id, parser_version, normalizer_version).
AlreadyParsed(c) ==
    \E v \in derived : v.accession = Accession(c) /\ v.parser = CallParser[c]

CommitVersion(c) ==
    /\ call[c].pc = "writing" /\ ~AlreadyParsed(c)
    /\ derived' = derived \cup {VersionRow(c)}
    /\ document' = DocumentAfter(c) /\ ledger' = LedgerWith(c, "succeeded")
    /\ Returned(c, "succeeded")
    /\ UNCHANGED <<blobs, began>>

\* The database refuses a second version of a document by the same parser: the
\* transaction is rolled back and the call raises.
RefuseVersion(c) ==
    /\ call[c].pc = "writing" /\ AlreadyParsed(c)
    /\ Returned(c, "error")
    /\ UNCHANGED <<ledger, document, derived, blobs, began>>

\* The worker dies or the database connection is lost.
CrashIngest(c) ==
    /\ "crash" \in IngestFaults /\ Ingesting(c)
    /\ call' = [call EXCEPT ![c] = [Unbegun EXCEPT !.pc = "done"]]
    /\ UNCHANGED <<ledger, document, derived, blobs, began>>

IngestNext ==
    \E c \in Calls :
        \/ ClaimIngest(c) \/ PutRaw(c) \/ RecordDocument(c) \/ Parse(c)
        \/ Quarantine(c) \/ PutText(c) \/ CommitVersion(c) \/ RefuseVersion(c)
        \/ CrashIngest(c)

(* ------------------------------- properties ------------------------------- *)
\* "documents.content_hash always matches the bytes the published versions were
\* parsed from", both renderings are in storage, a job has succeeded exactly when
\* its one version is there, and a call raises only over a version of the same
\* bytes that another entity's job has put there, whatever calls raced or died
\* (ingest_filing).
EvidenceIsImmutable ==
    /\ \A v \in derived :
          /\ document[v.accession] = v.bytes
          /\ {RawBlob(v.bytes), TextBlob(v.bytes, v.parser)} \subseteq blobs
          /\ \A w \in derived : v # w => <<v.accession, v.parser>> # <<w.accession, w.parser>>
    /\ {k \in DOMAIN ledger : ledger[k].status = "succeeded"}
          = {<<v.entity, v.accession, v.bytes, v.parser>> : v \in derived}
    /\ \A c \in Calls :
          /\ call[c].returned \notin {"nothing", "error"} =>
                JobKey(c) \in DOMAIN ledger /\ ledger[JobKey(c)].status = call[c].returned
          /\ call[c].returned = "error" =>
                \E v \in derived : /\ v.accession = Accession(c) /\ v.bytes = CallBytes[c]
                                   /\ v.parser = CallParser[c] /\ v.entity # CallEntity[c]

\* A fact restates only a canonical fact with its key and another value that a
\* filing of the same entity published strictly earlier, and so never itself
\* through other facts or another parse of its own document
\* (_prior_canonical_facts).
RestatesEarlierFiling ==
    \A v \in derived : \A i \in DOMAIN v.facts :
        v.facts[i].restates # NoLink =>
            /\ Channel[v.accession] = "filing"
            /\ \E w \in derived : \E j \in Canonical(w) :
                  /\ v.facts[i].restates = FactId(w, j)
                  /\ w.facts[j].key = v.facts[i].key /\ w.facts[j].value # v.facts[i].value
                  /\ PublishedAt[w.accession] < PublishedAt[v.accession]
                  /\ Channel[w.accession] = "filing" /\ w.entity = v.entity

\* What was ingested stays what it was, and says truly what it restates: the two
\* above together.
EvidenceIsFaithful == EvidenceIsImmutable /\ RestatesEarlierFiling
=============================================================================
