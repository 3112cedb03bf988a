---------------------------- MODULE ParseFiling ----------------------------
(***************************************************************************)
(* The two parsers of the ingestion pipeline and the reader that has to    *)
(* accept what they wrote.  _FilingHTMLParser walks the tags of an HTML /  *)
(* iXBRL filing and appends canonical text, sections, paragraph ranges,    *)
(* tables and inline facts; _CanonicalBuilder walks a companyfacts         *)
(* payload.  Both record offsets in the text they are still writing.  The  *)
(* reader later refuses the whole document when one span does not lie in   *)
(* the section recorded for it.                                            *)
(*                                                                         *)
(* A word of the source is one character "w": the offsets only need the    *)
(* places where text starts and ends.  A document is a sequence of tags    *)
(* from one vocabulary, read one at a time; nothing says they are nested.  *)
(***************************************************************************)
EXTENDS Ordering, Sequences, FiniteSetsExt, SequencesExt

CONSTANTS
  Vocabularies,   \* sets of tags: the kinds of document fed to a parser
  Levels,         \* heading levels, h1 and so on
  MaxTags         \* bound: tags in one document

ASSUME ParseAssumption ==
  /\ Levels \subseteq Nat \ {0}
  /\ MaxTags \in Nat
  /\ \A v \in Vocabularies : "concept" \in v => v \subseteq {"concept", "/concept", "observation"}

VARIABLES vocabulary, tags, walk, parsed, served

parseVars == <<vocabulary, tags, walk, parsed, served>>

None == -1
Root == [level |-> 0, start |-> 0, end |-> 0, parent |-> 0]

\* The parser's own state (self), and two history fields the code does not
\* keep: whether headings, paragraphs and facts have not crossed so far, and
\* how many table rows have been closed that a table is to keep.  The document may have opened with a
\* complete ix:header, whose tags are not counted.
ParseInit ==
  /\ vocabulary \in Vocabularies
  /\ tags = 0
  /\ \E resources \in BOOLEAN :
     walk = [text |-> <<>>, sections |-> <<Root>>, stack |-> <<1>>,
             heading |-> None, level |-> 0, block |-> None,
             paragraphs |-> <<>>, facts |-> <<>>, raw |-> <<>>,
             tables |-> <<>>, closed |-> <<>>, inHeader |-> FALSE,
             context |-> resources, unit |-> resources, broken |-> FALSE,
             concept |-> None, nested |-> TRUE, rows |-> 0]
  /\ parsed = [status |-> "none"]
  /\ served = "none"

-----------------------------------------------------------------------------
(* The canonical text.                                                     *)

Pos(w) == Len(w.text)

Newline(text) ==
  IF text # <<>> /\ Last(text) # "\n" THEN Append(text, "\n") ELSE text

AppendData(text) ==
  IF text # <<>> /\ Last(text) \notin {" ", "\n"}
  THEN text \o <<" ", "w">> ELSE Append(text, "w")

\* A block tag opens or closes a line; offsets are taken after its newline
\* when it opens and before it when it closes.
OnNewLine(w) == [w EXCEPT !.text = Newline(@)]

\* Every hook of the parser: one more tag of this document's vocabulary.
\* Inside ix:header the hooks of the visible document see nothing.
Tag(name) ==
  /\ parsed.status = "none" /\ tags < MaxTags /\ name \in vocabulary
  /\ tags' = tags + 1
  /\ UNCHANGED <<vocabulary, parsed, served>>

Hook(name, next) ==
  /\ Tag(name)
  /\ walk' = IF walk.inHeader THEN walk ELSE next

Data == Hook("text", [walk EXCEPT !.text = AppendData(@)])

-----------------------------------------------------------------------------
(* Headings and sections.                                                  *)

OpenHeading(level) ==
  LET w == OnNewLine(walk) IN
  Hook("h", [w EXCEPT !.heading = Pos(w), !.level = level,
                      !.nested = @ /\ w.block = None /\ w.facts = <<>>
                                   /\ w.heading = None])

IsBlank(text, from, upto) == \A i \in from + 1 .. upto : text[i] # "w"

\* The open sections that stay open under a heading of this level; the
\* document's own section always does.
Ancestors(w) ==
  LET stays == {k \in DOMAIN w.stack : k = 1 \/ w.sections[w.stack[k]].level < w.level}
  IN SubSeq(w.stack, 1, Max(stays))

\* A heading becomes a section when it CLOSES, and starts where it opened.
WithSection(w) ==
  [w EXCEPT !.heading = None,
            !.sections = Append(@, [level |-> w.level, start |-> w.heading, end |-> 0,
                                    parent |-> Last(Ancestors(w))]),
            !.stack = Append(Ancestors(w), Len(w.sections) + 1)]

CloseHeading ==
  Hook("/h", OnNewLine(
    IF walk.heading = None THEN walk
    ELSE IF IsBlank(walk.text, walk.heading, Pos(walk)) THEN [walk EXCEPT !.heading = None]
    ELSE WithSection(walk)))

-----------------------------------------------------------------------------
(* Paragraphs and inline facts: ranges, filed under the section on top of  *)
(* the stack when they close.                                              *)

OpenParagraph ==
  LET w == OnNewLine(walk) IN
  Hook("p", [w EXCEPT !.block = Pos(w), !.nested = @ /\ w.heading = None])

CloseParagraph ==
  Hook("/p", OnNewLine(
    IF walk.block = None THEN walk
    ELSE [walk EXCEPT
           !.block = None,
           !.paragraphs = IF Pos(walk) = walk.block THEN @
                          ELSE Append(@, [section |-> Last(walk.stack),
                                          start |-> walk.block, end |-> Pos(walk)])]))

OpenFact(kind) ==
  Hook("fact", [walk EXCEPT !.facts = Append(@, [kind |-> kind, start |-> Pos(walk)]),
                            !.nested = @ /\ walk.heading = None])

CloseFact ==
  Hook("/fact",
    IF walk.facts = <<>> THEN walk
    ELSE [walk EXCEPT
           !.facts = Front(@),
           !.raw = Append(@, [kind |-> Last(walk.facts).kind, start |-> Last(walk.facts).start,
                              end |-> Pos(walk), section |-> Last(walk.stack)])])

-----------------------------------------------------------------------------
(* Tables: a stack, so that an inner table does not drop the outer one.    *)

OneTableMutant(w) ==
  [w EXCEPT !.tables = <<[rows |-> 0, headers |-> FALSE, row |-> "none"]>>]

PushTable(w) ==
  [w EXCEPT !.tables = Append(@, [rows |-> 0, headers |-> FALSE, row |-> "none"])]

OpenTable == Hook("table", PushTable(OnNewLine(walk)))

InTable(w, row) == [w EXCEPT !.tables = [@ EXCEPT ![Len(@)].row = row]]

OpenRow == Hook("tr", LET w == OnNewLine(walk)
                      IN IF w.tables = <<>> THEN w ELSE InTable(w, "empty"))

\* A cell, opened and closed. A td says that the row under way is no header row.
Cell(kind) ==
  Hook(kind, IF walk.tables = <<>> \/ Last(walk.tables).row = "none" THEN walk
             ELSE IF kind = "td" THEN InTable(walk, "body")
             ELSE IF Last(walk.tables).row = "empty" THEN InTable(walk, "header") ELSE walk)

\* The first row without a td is the header row, which an empty one is only until
\* the next; every other one is a row.
IsBlankHeader(table) == table.row = "empty" /\ ~table.headers
WithRow(table) ==
  CASE IsBlankHeader(table) -> [table EXCEPT !.row = "none"]
    [] table.row = "header" /\ ~table.headers -> [table EXCEPT !.headers = TRUE, !.row = "none"]
    [] OTHER -> [table EXCEPT !.rows = @ + 1, !.row = "none"]

EndRow(tables) == [tables EXCEPT ![Len(tables)] = WithRow(@)]

CloseRow ==
  Hook("/tr", OnNewLine(
    IF walk.tables = <<>> \/ Last(walk.tables).row = "none" THEN walk
    ELSE [walk EXCEPT !.tables = EndRow(@),
                      !.rows = IF IsBlankHeader(Last(walk.tables)) THEN @ ELSE @ + 1]))

CloseTable ==
  Hook("/table", OnNewLine(
    IF walk.tables = <<>> THEN walk
    ELSE [walk EXCEPT !.tables = Front(@), !.closed = Append(@, Last(walk.tables))]))

-----------------------------------------------------------------------------
(* ix:header: contexts and units.  A context whose date does not parse     *)
(* raises ParseError at once.                                              *)

OpenHeader == Tag("header") /\ walk' = [walk EXCEPT !.inHeader = TRUE]
CloseHeader == Tag("/header") /\ walk' = [walk EXCEPT !.inHeader = FALSE]

HeaderTag(name) ==
  /\ Tag(name)
  /\ walk' = IF ~walk.inHeader THEN walk
             ELSE CASE name = "context" -> [walk EXCEPT !.context = TRUE]
                    [] name = "unit" -> [walk EXCEPT !.unit = TRUE]
                    [] name = "baddate" -> [walk EXCEPT !.broken = TRUE]

-----------------------------------------------------------------------------
(* _CanonicalBuilder: a companyfacts payload.  A concept is a section from *)
(* its name to its closing brace; each observation is a span of it.        *)

OpenConcept ==
  /\ walk.concept = None
  /\ Tag("concept")
  /\ walk' = [walk EXCEPT !.concept = Pos(walk) + 1, !.text = @ \o <<"\n", "w">>]

\* The section's number is taken before the section exists.
Observed(w, kind) ==
  LET u == [w EXCEPT !.text = Append(@, "\n")]
      span == [section |-> Len(u.sections) + 1, kind |-> kind,
               start |-> Pos(u), end |-> Pos(u) + 1]
  IN [u EXCEPT !.text = Append(@, "w"),
               !.broken = @ \/ kind = "bad",
               !.paragraphs = Append(@, span),
               !.raw = IF kind = "good" THEN Append(@, span) ELSE @]

Observe(kind) ==
  /\ walk.concept # None
  /\ Tag("observation")
  /\ walk' = Observed(walk, kind)

CloseConcept ==
  /\ walk.concept # None
  /\ Tag("/concept")
  /\ walk' = [walk EXCEPT !.concept = None, !.text = @ \o <<"\n", "w">>,
              !.sections = Append(@, [level |-> 1, start |-> walk.concept,
                                      end |-> Pos(walk) + 2, parent |-> 1])]

-----------------------------------------------------------------------------
(* parse_filing and parse_company_facts: from the walk to the document.    *)

\* A range without the blanks at its ends.
Trimmed(w, range) ==
  LET ink == {i \in range.start + 1 .. range.end : w.text[i] = "w"} IN
  IF ink = {} THEN [range EXCEPT !.end = range.start]
  ELSE [range EXCEPT !.start = (CHOOSE i \in ink : \A j \in ink : i <= j) - 1,
                     !.end = CHOOSE i \in ink : \A j \in ink : j <= i]

\* Filing sections are flat: one ends where the next one starts.  Concept
\* sections carry their own end, the root covers the payload.
SectionEnd(w, voc, i) ==
  IF "concept" \in voc THEN IF i > 1 THEN w.sections[i].end ELSE Pos(w)
  ELSE IF i = Len(w.sections) THEN Pos(w) ELSE w.sections[i + 1].start

SectionsOf(w, voc) ==
  [i \in DOMAIN w.sections |-> [w.sections[i] EXCEPT !.end = SectionEnd(w, voc, i)]]

ParagraphSpans(w) ==
  {s \in {Trimmed(w, w.paragraphs[i]) : i \in DOMAIN w.paragraphs} : s.start < s.end}

\* A nil fact and a fact without text are skipped with a diagnostic.
Kept(fact) == fact.kind # "nil" /\ fact.start < fact.end

\* Document order: by start, the outer one first, then by closing.
Precedes(w, i, j) ==
  \/ w.raw[i].start < w.raw[j].start
  \/ /\ w.raw[i].start = w.raw[j].start
     /\ w.raw[i].end > w.raw[j].end \/ (w.raw[i].end = w.raw[j].end /\ i < j)

KeptFacts(w) == {i \in DOMAIN w.raw : Kept(Trimmed(w, w.raw[i]))}

FactOrder(w) == SortedBy(KeptFacts(w), LAMBDA i, j : Precedes(w, i, j))

FactsInOrder(w) == [n \in DOMAIN FactOrder(w) |-> Trimmed(w, w.raw[FactOrder(w)[n]])]

Incomplete(fact) == fact.kind = "bad" \/ ~walk.context \/ ~walk.unit

SameRange(a, b) == a.start = b.start /\ a.end = b.end

\* A fact that covers an existing span is filed under that span.
FactSpans(w, facts) ==
  {facts[n] : n \in {n \in DOMAIN facts :
     /\ ~\E s \in ParagraphSpans(w) : SameRange(s, facts[n])
     /\ ~\E m \in 1 .. n - 1 : SameRange(facts[m], facts[n])}}

\* The bytes do not decode, a date does not parse, or there is no text at all.
Unreadable(w) == w.broken \/ IsBlank(w.text, 0, Pos(w))

Document(w, voc) ==
  [status |-> "parsed", sections |-> SectionsOf(w, voc), facts |-> FactsInOrder(w),
   spans |-> ParagraphSpans(w) \cup FactSpans(w, FactsInOrder(w))]

\* Nothing is finished while a concept is open: render_concept closes it.
Finish ==
  /\ parsed.status = "none" /\ walk.concept = None
  /\ LET facts == FactsInOrder(walk)
         ofFiling == "concept" \notin vocabulary
         malformed == \/ Unreadable(walk)
                      \/ ofFiling /\ \E n \in DOMAIN facts : Incomplete(facts[n])
     IN parsed' = IF malformed THEN [status |-> "quarantined"] ELSE Document(walk, vocabulary)
  /\ UNCHANGED <<vocabulary, tags, walk, served>>

-----------------------------------------------------------------------------
(* The reader: one section, span or fact that does not fit refuses the     *)
(* whole document.                                                         *)

SectionFits(s) == 0 <= s.start /\ s.start <= s.end /\ s.end <= Pos(walk)

SpanFits(s) ==
  /\ s.section \in DOMAIN parsed.sections
  /\ parsed.sections[s.section].start <= s.start
  /\ s.end <= parsed.sections[s.section].end

FactFits(f) == \E s \in parsed.spans : SameRange(s, f)

Opens ==
  /\ \A i \in DOMAIN parsed.sections :
       /\ SectionFits(parsed.sections[i])
       /\ parsed.sections[i].parent \in {0} \cup DOMAIN parsed.sections
  /\ \A s \in parsed.spans : SpanFits(s)
  /\ \A n \in DOMAIN parsed.facts : FactFits(parsed.facts[n])

Serve ==
  /\ parsed.status = "parsed" /\ served = "none"
  /\ served' = IF Opens THEN "served" ELSE "integrity_error"
  /\ UNCHANGED <<vocabulary, tags, walk, parsed>>

ParseNext ==
  \/ Data
  \/ \E level \in Levels : OpenHeading(level)
  \/ CloseHeading \/ OpenParagraph \/ CloseParagraph
  \/ \E kind \in {"good", "nil", "bad"} : OpenFact(kind)
  \/ CloseFact
  \/ \E kind \in {"td", "th"} : Cell(kind)
  \/ OpenTable \/ OpenRow \/ CloseRow \/ CloseTable
  \/ OpenHeader \/ CloseHeader
  \/ \E name \in {"context", "unit", "baddate"} : HeaderTag(name)
  \/ OpenConcept \/ CloseConcept
  \/ \E kind \in {"good", "nil", "bad"} : Observe(kind)
  \/ Finish \/ Serve

ParseSpec == ParseInit /\ [][ParseNext]_parseVars

-----------------------------------------------------------------------------
(* What the walk promises.                                                 *)

\* A document the pipeline stored opens in the reader, unless its headings
\* cross its paragraphs or facts: every span lies in the section recorded for
\* it (reader.py, span_outside_section) though the section's end was unknown
\* when the span was filed, and every fact resolves to a stored span.
StoredDocumentOpens ==
  served = "integrity_error" => ~walk.nested

\* The header row and the other rows of some tables.
RowCount(table) == table.rows + (IF table.headers THEN 1 ELSE 0)
RowTotal(ts) == MapThenSumSet(LAMBDA i : RowCount(ts[i]), DOMAIN ts)

\* No row is lost or counted twice by nesting tables: the rows of the closed
\* and the open tables are the rows closed so far, but for blank first ones (the table stack of
\* _FilingHTMLParser).
RowsSurviveNesting ==
  RowTotal(walk.closed) + RowTotal(walk.tables) = walk.rows

\* What the pipeline keeps of a document can be read back, all of it: the two
\* above together.
ParseIsReadable == StoredDocumentOpens /\ RowsSurviveNesting

=============================================================================
