---------------------------- MODULE EvidencePages ----------------------------
(* Keyset continuations over a table that changes between the pages           *)
(* (apps/api/app/pagination.py), as the reader of a document's siblings uses  *)
(* them (reader.py) and, without the version pin, every listing of the API    *)
(* (corpus.py, workspaces.py, retrieval_reads.py).                            *)
(*                                                                            *)
(* A row is its keyset key, a number: (published_at, accession, id) in the    *)
(* reader, (created_at, id) or a sequence number elsewhere. Rows appear in    *)
(* any order, since a filing may be ingested or parsed long after it was      *)
(* published, and leave the result of a listing that filters by status.       *)
EXTENDS Ordering, Sequences, FiniteSetsExt, SequencesExt

CONSTANTS
    MaxKey,         \* bound: keys
    PageSizes,      \* limits a client asks for
    LegacyLimit,    \* most rows an unpaged read may return
    MaxVersions,    \* bound: parsed versions of the target document
    MaxMoves,       \* bound: pages a client asks for
    NoCursor

\* What a cursor says: the walk it belongs to and where it continues.
Cursors == [scope : [asOf : Nat, version : Nat], order : {"asc", "desc"}, limit : Nat \ {0},
            seek : {"after", "before"}, high : Nat, anchor : Nat]

ASSUME PagesAssumption ==
    /\ NoCursor \notin Cursors
    /\ MaxKey \in Nat \ {0} /\ PageSizes \subseteq Nat \ {0}
    /\ LegacyLimit \in Nat /\ MaxVersions \in Nat \ {0} /\ MaxMoves \in Nat

VARIABLES
    rowsNow,     \* the rows the route's query selects, but for the cutoff
    newestKey,       \* now, as a key: nothing is published later
    versions,    \* parsed versions of the target document so far
    page,        \* the client's last answer
    moves,       \* bound: pages asked for
    stable,      \* history: rows there since the first page
    covered,     \* history: rows of the pages since the first
    pins,        \* history: the cutoffs and versions those pages were read at
    repeated     \* history: a page showed a row of the page before it

pageVars == <<rowsNow, newestKey, versions, page, moves, stable, covered, pins, repeated>>

Blank == [kind |-> "blank", rows |-> <<>>, next |-> NoCursor, prev |-> NoCursor,
          complete |-> FALSE]

PagesInit ==
    /\ rowsNow \in SUBSET (1 .. MaxKey - 1) /\ newestKey = MaxKey - 1 /\ versions = 1
    /\ page = Blank /\ moves = 0
    /\ stable = {} /\ covered = {} /\ pins = {} /\ repeated = FALSE

(* ------------------------------- read_page ------------------------------- *)
\* The row a cursor of a direction continues from.
Anchor(rows, seek) == IF seek = "after" THEN rows[Len(rows)] ELSE rows[1]

\* The comparison with the anchor: strict, and turned for a backward seek.
Beyond(row, anchor, ascending) == IF ascending THEN row > anchor ELSE row < anchor

\* The order the statement reads in: turned when the cursor seeks backwards.
Backwards(c) == c # NoCursor /\ c.seek = "before"
Ascending(c, order) == (order = "asc") # Backwards(c)

\* The high-water key is taken on the first page and carried on.
HighWater(visible, c) == IF c # NoCursor THEN c.high ELSE Max(visible \cup {0})

\* The WHERE clause and the ORDER BY.
Remaining(visible, c, order) ==
    {r \in visible : /\ r <= HighWater(visible, c)
                     /\ c # NoCursor => Beyond(r, c.anchor, Ascending(c, order))}
InOrder(rows, ascending) ==
    SortedBy(rows, LAMBDA a, b : IF ascending THEN a < b ELSE a > b)

\* One row more than a page is read, to know whether another page follows.
Overflows(visible, c, size, order) == Cardinality(Remaining(visible, c, order)) > size

RowsShown(visible, c, size, order) ==
    LET sorted == InOrder(Remaining(visible, c, order), Ascending(c, order))
        taken  == IF Overflows(visible, c, size, order) THEN SubSeq(sorted, 1, size) ELSE sorted
    IN  IF Backwards(c) THEN Reverse(taken) ELSE taken

HasMore(seek, c, overflow) ==
    IF Backwards(c) THEN seek = "after" \/ overflow
    ELSE IF seek = "after" THEN overflow ELSE c # NoCursor

\* The cursor a page is handed out with, for each direction.
MakeCursor(rows, seek, more, scope, order, size, high) ==
    IF rows # <<>> /\ more
      THEN [scope |-> scope, order |-> order, limit |-> size, seek |-> seek,
            high |-> high, anchor |-> Anchor(rows, seek)]
      ELSE NoCursor

\* A page of the visible rows after cursor c, or the first page.
ReadPage(visible, c, scope, size, order) ==
    LET rows     == RowsShown(visible, c, size, order)
        overflow == Overflows(visible, c, size, order)
        cursor(seek) == MakeCursor(rows, seek, HasMore(seek, c, overflow), scope, order, size,
                                   HighWater(visible, c))
    IN  [kind |-> "page", rows |-> rows, next |-> cursor("after"), prev |-> cursor("before"),
         complete |-> c = NoCursor /\ ~overflow]

(* --------------------------------- client -------------------------------- *)
Visible(cutoff) == {r \in rowsNow : r <= cutoff}

\* The latest parsed version, which a request without a pin selects.
LatestParsed == versions

\* A request with no cursor: as_of defaults to now.
FirstPage(size, order) ==
    /\ moves < MaxMoves
    /\ LET scope == [asOf |-> newestKey, version |-> LatestParsed]
           answer == ReadPage(Visible(newestKey), NoCursor, scope, size, order)
       IN  /\ page' = answer
           /\ stable' = Visible(newestKey) /\ covered' = Range(answer.rows) /\ pins' = {scope}
    /\ repeated' = FALSE /\ moves' = moves + 1
    /\ UNCHANGED <<rowsNow, newestKey, versions>>

\* The scope a continuation is read in: what the request leaves out is taken from
\* the cursor, and decode_cursor refuses one that was made for another scope.
PinnedScope(c) == c.scope

Follow(c) ==
    /\ c # NoCursor /\ moves < MaxMoves
    /\ LET scope == PinnedScope(c)
           answer == ReadPage(Visible(scope.asOf), c, scope, c.limit, c.order)
       IN  /\ page' = answer
           /\ covered' = covered \cup Range(answer.rows)
           /\ pins' = pins \cup {scope}
           /\ repeated' = (Range(answer.rows) \cap Range(page.rows) # {})
    /\ moves' = moves + 1
    /\ UNCHANGED <<rowsNow, newestKey, versions, stable>>

\* A cursor sent with another as_of or version than it was made for: 422.
FollowElsewhere(c) ==
    /\ c # NoCursor /\ moves < MaxMoves
    /\ c.scope # [asOf |-> newestKey, version |-> LatestParsed]
    /\ page' = [Blank EXCEPT !.kind = "refused"]
    /\ moves' = moves + 1 /\ repeated' = FALSE
    /\ UNCHANGED <<rowsNow, newestKey, versions, stable, covered, pins>>

\* A read without limit, cursor or order: all rows, or 409 PAGINATION_REQUIRED.
ReadAll ==
    /\ moves < MaxMoves
    /\ LET visible == Visible(newestKey)
           fits == Cardinality(visible) <= LegacyLimit
       IN  /\ page' = IF fits
                        THEN [Blank EXCEPT !.kind = "all", !.complete = TRUE,
                                           !.rows = SortedBy(visible, <)]
                        ELSE [Blank EXCEPT !.kind = "refused"]
           /\ stable' = visible
           /\ covered' = IF fits THEN visible ELSE {}
    /\ pins' = {} /\ repeated' = FALSE /\ moves' = moves + 1
    /\ UNCHANGED <<rowsNow, newestKey, versions>>

(* ------------------------------- environment ------------------------------ *)
\* A row becomes visible: ingested, or parsed at last.
Appear(r) ==
    /\ r <= newestKey /\ r \notin rowsNow
    /\ rowsNow' = rowsNow \cup {r}
    /\ UNCHANGED <<newestKey, versions, page, moves, stable, covered, pins, repeated>>

\* A row leaves a filtered listing.
Disappear(r) ==
    /\ r \in rowsNow
    /\ rowsNow' = rowsNow \ {r} /\ stable' = stable \ {r}
    /\ UNCHANGED <<newestKey, versions, page, moves, covered, pins, repeated>>

Publish ==
    /\ newestKey < MaxKey /\ newestKey' = newestKey + 1
    /\ UNCHANGED <<rowsNow, versions, page, moves, stable, covered, pins, repeated>>

Reparse ==
    /\ versions < MaxVersions /\ versions' = versions + 1
    /\ UNCHANGED <<rowsNow, newestKey, page, moves, stable, covered, pins, repeated>>

PagesNext ==
    \/ \E size \in PageSizes, order \in {"asc", "desc"} : FirstPage(size, order)
    \/ \E c \in {page.next, page.prev} : Follow(c) \/ FollowElsewhere(c)
    \/ ReadAll
    \/ \E r \in 1 .. MaxKey : Appear(r) \/ Disappear(r)
    \/ Publish \/ Reparse

PagesSpec == PagesInit /\ [][PagesNext]_pageVars

(* ------------------------------- properties ------------------------------- *)
\* A client that walks a listing with its cursors, back and forth, misses no row
\* that was there all along: between the first and the last row it has been shown
\* lies none it has not, when no next page is offered it has seen every row after
\* its first one, and an answer that calls itself complete is (read_page).
WalkMissesNothing ==
    /\ \A r \in stable :
          (covered # {} /\ r >= Min(covered) /\ r <= Max(covered)) => r \in covered
    /\ page.kind \in {"page", "all"} /\ page.complete => stable \subseteq covered
    /\ page.kind = "page" /\ page.rows # <<>> /\ page.next = NoCursor /\ page.prev # NoCursor =>
          \/ stable \subseteq covered
          \/ \A r \in stable \ covered : \/ r < Min(covered) /\ page.prev.order = "asc"
                                         \/ r > Max(covered) /\ page.prev.order = "desc"

\* No page repeats a row of the page it continues, and every page of a walk is
\* read at the cutoff and the document version of the first one, whatever is
\* published or parsed meanwhile (get_document_reader, decode_cursor).
WalkIsPinned == ~repeated /\ Cardinality(pins) <= 1

\* A walk of a listing is complete and consistent: the two above together.
WalkIsSound == WalkMissesNothing /\ WalkIsPinned
=============================================================================
