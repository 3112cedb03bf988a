------------------------- MODULE ParseFilingProofs -------------------------
(***************************************************************************)
(* What is stored of a document opens in the reader, for every vocabulary  *)
(* of tags, every set of heading levels and every length.                  *)
(*                                                                         *)
(* A section ends where the next one starts, so its end is unknown when a  *)
(* range is filed under it.  What is known then is the invariant: sections *)
(* start in their order, a closed range ends before whatever may start     *)
(* next, and an open range starts in the last section (FilingWalk); an     *)
(* observation lies in the concept being rendered (PayloadWalk); and the   *)
(* tables hold the rows that were closed (RowsKept).                       *)
(***************************************************************************)
EXTENDS ParseFiling, CollectionProofs, SequenceTheorems

\* The fields of a walk.
WalkFields ==
  {"text", "sections", "stack", "heading", "level", "block", "paragraphs", "facts", "raw",
   "tables", "closed", "inHeader", "context", "unit", "broken", "concept", "nested", "rows"}
IsWalk(w) == w = [f \in WalkFields |-> w[f]]

\* A sequence, of whatever.
IsList(s) == Len(s) \in Nat /\ s = [i \in 1 .. Len(s) |-> s[i]]

Tables == [rows : Nat, headers : BOOLEAN, row : {"none", "empty", "header", "body"}]

AreTables(ts) == IsList(ts) /\ \A i \in 1 .. Len(ts) : ts[i] \in Tables

\* The tables hold the rows they should.
RowsKept(tables, closed, rows) ==
  /\ AreTables(tables) /\ AreTables(closed) /\ rows \in Nat
  /\ RowTotal(closed) + RowTotal(tables) = rows

SectionRecords == [level : Nat, start : Nat, end : Nat, parent : Nat]

\* Sections start in the order of their numbers, a heading being read after them
\* all.
SectionsInOrder(secs, stack, heading, pos) ==
  /\ Len(secs) > 0 /\ \A i \in 1 .. Len(secs) : secs[i] \in SectionRecords
  /\ Len(stack) > 0 /\ stack[Len(stack)] = Len(secs)
  /\ \A k \in 1 .. Len(stack) : stack[k] \in 1 .. Len(secs)
  /\ \A i \in 1 .. Len(secs) : secs[i].start <= pos /\ secs[i].parent \in 0 .. Len(secs)
  /\ \A i, j \in 1 .. Len(secs) : i <= j => secs[i].start <= secs[j].start
  /\ heading = None \/ (heading \in 0 .. pos /\ \A i \in 1 .. Len(secs) : secs[i].start <= heading)

\* A range that will lie in its section wherever the sections after it start.
InSection(s, secs, heading, pos) ==
  /\ {"section", "start", "end"} \subseteq DOMAIN s
  /\ s.section \in 1 .. Len(secs) /\ s.start \in Nat /\ s.end \in Nat
  /\ secs[s.section].start <= s.start /\ s.start <= s.end /\ s.end <= pos
  /\ s.section < Len(secs) => s.end <= secs[s.section + 1].start
  /\ heading # None => s.end <= heading

AllInSection(ranges, secs, heading, pos) ==
  \A i \in 1 .. Len(ranges) : InSection(ranges[i], secs, heading, pos)

\* An open range starts in the last section, and no heading is being read.
OpenRange(start, secs, heading, pos) ==
  heading = None /\ start \in 0 .. pos /\ \A i \in 1 .. Len(secs) : secs[i].start <= start

\* What an HTML filing that nests keeps to.
Nests(secs, heading, pos, block, paragraphs, facts, raw) ==
  /\ AllInSection(paragraphs, secs, heading, pos) /\ AllInSection(raw, secs, heading, pos)
  /\ block # None => OpenRange(block, secs, heading, pos)
  /\ \A k \in 1 .. Len(facts) : OpenRange(facts[k].start, secs, heading, pos)

FilingWalk(w) ==
  /\ w.concept = None /\ w.level \in Nat
  /\ SectionsInOrder(w.sections, w.stack, w.heading, Len(w.text))
  /\ w.nested => Nests(w.sections, w.heading, Len(w.text), w.block, w.paragraphs, w.facts, w.raw)

\* What a companyfacts payload keeps to: a span lies in its section or in the
\* concept that is to become it.
InConcept(s, secs, concept, pos) ==
  /\ {"section", "start", "end"} \subseteq DOMAIN s
  /\ s.section \in Nat /\ s.start \in Nat /\ s.end \in Nat /\ s.start <= s.end /\ s.end <= pos
  /\ \/ /\ s.section \in 1 .. Len(secs) /\ secs[s.section].start <= s.start
        /\ s.section > 1 /\ s.end <= secs[s.section].end
     \/ s.section = Len(secs) + 1 /\ concept # None /\ concept <= s.start

PayloadWalk(w) ==
  /\ w.heading = None /\ w.block = None /\ w.facts = <<>>
  /\ Len(w.sections) > 0 /\ w.sections[1] = Root
  /\ \A i \in 1 .. Len(w.sections) :
       /\ w.sections[i] \in SectionRecords
       /\ w.sections[i].parent \in 0 .. Len(w.sections)
       /\ w.sections[i].start <= w.sections[i].end /\ w.sections[i].end <= Len(w.text)
  /\ w.concept = None \/ w.concept \in 0 .. Len(w.text)
  /\ \A i \in 1 .. Len(w.paragraphs) : InConcept(w.paragraphs[i], w.sections, w.concept, Len(w.text))
  /\ \A i \in 1 .. Len(w.raw) : InConcept(w.raw[i], w.sections, w.concept, Len(w.text))

ListsOK(w) ==
  /\ IsWalk(w) /\ IsList(w.text) /\ IsList(w.sections) /\ IsList(w.stack)
  /\ IsList(w.paragraphs) /\ IsList(w.facts) /\ IsList(w.raw)

WalkInv(w, voc) ==
  /\ ListsOK(w) /\ RowsKept(w.tables, w.closed, w.rows)
  /\ IF "concept" \in voc THEN PayloadWalk(w) ELSE FilingWalk(w)

ParseInv ==
  /\ vocabulary \in Vocabularies
  /\ WalkInv(walk, vocabulary)
  /\ parsed.status = "parsed" => walk.concept = None /\ parsed = Document(walk, vocabulary)
  /\ parsed.status # "parsed" => served = "none"
  /\ served = "integrity_error" => ~walk.nested

(* A list is a sequence of its elements.                                     *)
LEMMA ListIsSeq ==
  ASSUME NEW s, IsList(s), NEW T, \A i \in 1 .. Len(s) : s[i] \in T
  PROVE  s \in Seq(T) /\ DOMAIN s = 1 .. Len(s)
<1>1. PICK n \in Nat : n = Len(s)
  BY DEF IsList
<1>2. s \in [1 .. n -> T]
  BY <1>1 DEF IsList
<1> QED BY <1>1, <1>2

(* A function on the first k places is a sequence.                            *)
LEMMA FunctionIsSeq ==
  ASSUME NEW T, NEW k \in Nat, NEW u \in [1 .. k + 1 -> T]
  PROVE  u \in Seq(T) /\ Len(u) = k + 1
<1>1. PICK m \in Nat : m = k + 1
  OBVIOUS
<1>2. u \in [1 .. m -> T]
  BY <1>1
<1> QED BY <1>1, <1>2

LEMMA SeqIsList ==
  ASSUME NEW T, NEW s \in Seq(T)
  PROVE  IsList(s)
<1>1. Len(s) \in Nat /\ DOMAIN s = 1 .. Len(s)
  OBVIOUS
<1>2. s \in [1 .. Len(s) -> T]
  OBVIOUS
<1> QED BY <1>1, <1>2 DEF IsList

\* What appending does.
Longer(t, s, x) ==
  /\ IsList(t) /\ Len(t) = Len(s) + 1 /\ t[Len(s) + 1] = x
  /\ \A i \in 1 .. Len(s) : t[i] = s[i]

LEMMA ListAppend ==
  ASSUME NEW s, IsList(s), NEW x
  PROVE  Longer(Append(s, x), s, x) /\ Len(s) \in Nat
<1>1. PICK T : T = {s[i] : i \in 1 .. Len(s)} \cup {x}
  OBVIOUS
<1>2. s \in Seq(T) /\ x \in T
  BY <1>1, ListIsSeq
<1>3. /\ Append(s, x) \in Seq(T) /\ Len(Append(s, x)) = Len(s) + 1
      /\ \A i \in 1 .. Len(s) : Append(s, x)[i] = s[i]
      /\ Append(s, x)[Len(s) + 1] = x
  BY <1>2, AppendProperties
<1>4. IsList(Append(s, x))
  BY <1>3, SeqIsList
<1> QED BY <1>2, <1>3, <1>4 DEF Longer

\* What taking the first k does.
Shorter(t, s, k) ==
  /\ IsList(t) /\ Len(t) = k
  /\ \A i \in 1 .. k : t[i] = s[i]

LEMMA ListFirst ==
  ASSUME NEW s, IsList(s), NEW k \in Nat, k <= Len(s)
  PROVE  Shorter(SubSeq(s, 1, k), s, k)
<1>1. PICK T : T = {s[i] : i \in 1 .. Len(s)}
  OBVIOUS
<1>2. s \in Seq(T)
  BY <1>1, ListIsSeq
<1>3. 1 \in Int /\ k \in Int /\ \A i \in 1 .. k : s[i] \in T
  BY <1>2
<1>4. /\ SubSeq(s, 1, k) \in Seq(T)
      /\ Len(SubSeq(s, 1, k)) = IF 1 <= k THEN k - 1 + 1 ELSE 0
      /\ \A i \in 1 .. k - 1 + 1 : SubSeq(s, 1, k)[i] = s[1 + i - 1]
  BY <1>3, SubSeqProperties
<1>5. IsList(SubSeq(s, 1, k))
  BY <1>4, SeqIsList
<1> QED BY <1>4, <1>5 DEF Shorter

(* The text only grows.                                                      *)
LEMMA TextGrows ==
  ASSUME NEW t, IsList(t)
  PROVE  /\ IsList(Newline(t)) /\ Len(t) <= Len(Newline(t))
         /\ IsList(AppendData(t)) /\ Len(t) <= Len(AppendData(t))
         /\ \A a, b : IsList(t \o <<a, b>>) /\ Len(t \o <<a, b>>) = Len(t) + 2
<1>0. Len(t) \in Nat
  BY DEF IsList
<1>1. \A x : IsList(Append(t, x)) /\ Len(Append(t, x)) = Len(t) + 1
  BY ListAppend DEF Longer
<1>2. ASSUME NEW a, NEW b
      PROVE  IsList(t \o <<a, b>>) /\ Len(t \o <<a, b>>) = Len(t) + 2
  <2>1. PICK T : T = {t[i] : i \in 1 .. Len(t)} \cup {a, b}
    OBVIOUS
  <2>2. t \in Seq(T) /\ <<a, b>> \in Seq(T) /\ Len(<<a, b>>) = 2
    BY <2>1, ListIsSeq
  <2>3. t \o <<a, b>> \in Seq(T) /\ Len(t \o <<a, b>>) = Len(t) + Len(<<a, b>>)
    BY <2>2, ConcatProperties
  <2> QED BY <2>2, <2>3, SeqIsList
<1>3. IsList(Newline(t)) /\ Len(t) <= Len(Newline(t))
  BY <1>0, <1>1 DEF Newline
<1>4. IsList(AppendData(t)) /\ Len(t) <= Len(AppendData(t))
  <2>1. IsList(t \o <<" ", "w">>) /\ Len(t \o <<" ", "w">>) = Len(t) + 2
    BY <1>2, Zenon
  <2>2. AppendData(t) = t \o <<" ", "w">> \/ AppendData(t) = Append(t, "w")
    BY Zenon DEF AppendData
  <2>3. IsList(Append(t, "w")) /\ Len(Append(t, "w")) = Len(t) + 1
    BY <1>1, Zenon
  <2>4. CASE AppendData(t) = t \o <<" ", "w">>
    <3>1. IsList(AppendData(t)) /\ Len(AppendData(t)) = Len(t) + 2
      BY <2>1, <2>4, Zenon
    <3> QED BY <1>0, <3>1
  <2>5. CASE AppendData(t) = Append(t, "w")
    <3>1. IsList(AppendData(t)) /\ Len(AppendData(t)) = Len(t) + 1
      BY <2>3, <2>5, Zenon
    <3> QED BY <1>0, <3>1
  <2> QED BY <2>2, <2>4, <2>5
<1> QED BY <1>2, <1>3, <1>4

(* More text disturbs no offset.                                             *)
LEMMA GrowthKeeps ==
  ASSUME NEW secs, NEW stack, NEW h, NEW pos \in Nat, NEW pos2 \in Nat, pos <= pos2,
         NEW b, NEW P, NEW F, NEW R, Len(secs) \in Nat
  PROVE  /\ SectionsInOrder(secs, stack, h, pos) => SectionsInOrder(secs, stack, h, pos2)
         /\ Nests(secs, h, pos, b, P, F, R) => Nests(secs, h, pos2, b, P, F, R)
<1>1. SectionsInOrder(secs, stack, h, pos) => SectionsInOrder(secs, stack, h, pos2)
  BY DEF SectionsInOrder, SectionRecords, None
<1>2. \A s : InSection(s, secs, h, pos) => InSection(s, secs, h, pos2)
  BY DEF InSection
<1>3. \A x : OpenRange(x, secs, h, pos) => OpenRange(x, secs, h, pos2)
  BY DEF OpenRange
<1>4. Nests(secs, h, pos, b, P, F, R) => Nests(secs, h, pos2, b, P, F, R)
  BY <1>2, <1>3, Zenon DEF Nests, AllInSection
<1> QED BY <1>1, <1>4

(* A heading opens at the end of the text, after every range.                *)
LEMMA HeadingOpens ==
  ASSUME NEW secs, NEW stack, NEW h, NEW pos \in Nat, NEW P, NEW R, Len(secs) \in Nat
  PROVE  /\ SectionsInOrder(secs, stack, h, pos) => SectionsInOrder(secs, stack, pos, pos)
         /\ Nests(secs, h, pos, None, P, <<>>, R) => Nests(secs, pos, pos, None, P, <<>>, R)
<1>1. SectionsInOrder(secs, stack, h, pos) => SectionsInOrder(secs, stack, pos, pos)
  BY DEF SectionsInOrder
<1>2. \A s : InSection(s, secs, h, pos) => InSection(s, secs, pos, pos)
  BY DEF InSection
<1>3. Nests(secs, h, pos, None, P, <<>>, R) => Nests(secs, pos, pos, None, P, <<>>, R)
  <2>1. 1 .. Len(<<>>) = {}
    OBVIOUS
  <2> QED BY <1>2, <2>1, Zenon DEF Nests, AllInSection
<1> QED BY <1>1, <1>3

(* While a heading is being read, nothing else is.                           *)
LEMMA HeadingAlone ==
  ASSUME NEW secs, NEW h, NEW pos, NEW b, NEW P, NEW F, NEW R,
         Nests(secs, h, pos, b, P, F, R), h # None
  PROVE  b = None /\ \A k \in 1 .. Len(F) : FALSE
BY Zenon DEF Nests, OpenRange

(* A blank heading is dropped.                                               *)
LEMMA HeadingDrops ==
  ASSUME NEW secs, NEW stack, NEW h, NEW pos \in Nat, NEW b, NEW P, NEW F, NEW R,
         Len(secs) \in Nat, h # None
  PROVE  /\ SectionsInOrder(secs, stack, h, pos) => SectionsInOrder(secs, stack, None, pos)
         /\ Nests(secs, h, pos, b, P, F, R) => Nests(secs, None, pos, b, P, F, R)
<1>1. SectionsInOrder(secs, stack, h, pos) => SectionsInOrder(secs, stack, None, pos)
  BY DEF SectionsInOrder
<1>2. \A s : InSection(s, secs, h, pos) => InSection(s, secs, None, pos)
  BY DEF InSection
<1>3. ASSUME Nests(secs, h, pos, b, P, F, R)
      PROVE  Nests(secs, None, pos, b, P, F, R)
  <2>1. b = None /\ \A k \in 1 .. Len(F) : FALSE
    BY <1>3, HeadingAlone
  <2> QED BY <1>2, <1>3, <2>1, Zenon DEF Nests, AllInSection
<1> QED BY <1>1, <1>3

(* Any other one becomes the last section, where the heading opened.         *)
LEMMA HeadingCloses ==
  ASSUME NEW secs, NEW stack, NEW h, NEW pos \in Nat, h # None, Len(secs) \in Nat,
         SectionsInOrder(secs, stack, h, pos),
         NEW kept, Len(kept) \in Nat, \A k \in 1 .. Len(kept) : kept[k] \in 1 .. Len(secs),
         NEW rec \in SectionRecords, rec.start = h, rec.parent \in 1 .. Len(secs),
         NEW secs2, Longer(secs2, secs, rec), NEW stack2, Longer(stack2, kept, Len(secs) + 1),
         NEW b, NEW P, NEW F, NEW R
  PROVE  /\ SectionsInOrder(secs2, stack2, None, pos)
         /\ Nests(secs, h, pos, b, P, F, R) => Nests(secs2, None, pos, b, P, F, R)
<1>1. /\ Len(secs2) = Len(secs) + 1 /\ secs2[Len(secs) + 1] = rec
      /\ \A i \in 1 .. Len(secs) : secs2[i] = secs[i]
  BY DEF Longer
<1>2. /\ Len(stack2) = Len(kept) + 1 /\ stack2[Len(kept) + 1] = Len(secs) + 1
      /\ \A i \in 1 .. Len(kept) : stack2[i] = kept[i]
  BY DEF Longer
<1>3. h \in 0 .. pos /\ \A i \in 1 .. Len(secs) : secs[i].start <= h
  BY DEF SectionsInOrder
<1>4. /\ \A i \in 1 .. Len(secs) : secs[i] \in SectionRecords
      /\ \A i \in 1 .. Len(secs) : secs[i].start <= pos /\ secs[i].parent \in 0 .. Len(secs)
      /\ \A i, j \in 1 .. Len(secs) : i <= j => secs[i].start <= secs[j].start
  BY DEF SectionsInOrder
<1>11. \A i \in 1 .. Len(secs2) : i \in 1 .. Len(secs) \/ i = Len(secs) + 1
  BY <1>1
<1>5. ASSUME NEW i \in 1 .. Len(secs2)
      PROVE  secs2[i] \in SectionRecords /\ secs2[i].start <= pos /\ secs2[i].parent \in 0 .. Len(secs2)
  <2>1. CASE i \in 1 .. Len(secs)
    BY <1>1, <1>4, <2>1
  <2>2. CASE i = Len(secs) + 1
    BY <1>1, <1>3, <2>2
  <2> QED BY <1>11, <2>1, <2>2
<1>6. ASSUME NEW i \in 1 .. Len(secs2), NEW j \in 1 .. Len(secs2), i <= j
      PROVE  secs2[i].start <= secs2[j].start
  <2>1. CASE i \in 1 .. Len(secs) /\ j \in 1 .. Len(secs)
    BY <1>1, <1>4, <1>6, <2>1
  <2>2. CASE i \in 1 .. Len(secs) /\ j = Len(secs) + 1
    BY <1>1, <1>3, <2>2
  <2>3. CASE i = Len(secs) + 1
    <3>1. j = Len(secs) + 1
      BY <1>1, <1>6, <2>3
    <3>2. secs2[i].start = h /\ secs2[j].start = h /\ h \in Nat
      BY <1>1, <1>3, <2>3, <3>1
    <3> QED BY <3>2
  <2> QED BY <1>11, <2>1, <2>2, <2>3
<1>7. \A k \in 1 .. Len(stack2) : stack2[k] \in 1 .. Len(secs2)
  BY <1>1, <1>2
<1>8. SectionsInOrder(secs2, stack2, None, pos)
  BY <1>1, <1>2, <1>5, <1>6, <1>7 DEF SectionsInOrder
<1>9. ASSUME NEW s, InSection(s, secs, h, pos)
      PROVE  InSection(s, secs2, None, pos)
  <2>1. /\ {"section", "start", "end"} \subseteq DOMAIN s
        /\ s.section \in 1 .. Len(secs) /\ s.start \in Nat /\ s.end \in Nat
        /\ secs[s.section].start <= s.start /\ s.start <= s.end /\ s.end <= pos
        /\ s.section < Len(secs) => s.end <= secs[s.section + 1].start
        /\ s.end <= h
    BY <1>9 DEF InSection
  <2>2. secs2[s.section] = secs[s.section] /\ s.section \in 1 .. Len(secs2)
    BY <1>1, <2>1
  <2>3. s.end <= secs2[s.section + 1].start
    <3>1. CASE s.section < Len(secs)
      <4>1. s.section + 1 \in 1 .. Len(secs)
        BY <2>1, <3>1
      <4> QED BY <1>1, <2>1, <3>1, <4>1
    <3>2. CASE s.section = Len(secs)
      BY <1>1, <2>1, <3>2
    <3> QED BY <2>1, <3>1, <3>2
  <2> QED BY <2>1, <2>2, <2>3 DEF InSection
<1>10. ASSUME Nests(secs, h, pos, b, P, F, R)
       PROVE  Nests(secs2, None, pos, b, P, F, R)
  <2>1. b = None /\ \A k \in 1 .. Len(F) : FALSE
    BY <1>10, HeadingAlone
  <2> QED BY <1>9, <1>10, <2>1, Zenon DEF Nests, AllInSection
<1> QED BY <1>8, <1>10

(* A range that opens.                                                       *)
LEMMA RangeOpens ==
  ASSUME NEW secs, NEW stack, NEW h, NEW pos \in Nat, Len(secs) \in Nat,
         SectionsInOrder(secs, stack, h, pos), h = None
  PROVE  OpenRange(pos, secs, h, pos)
BY DEF SectionsInOrder, OpenRange

(* A range that closes lies in the last section.                             *)
LEMMA RangeCloses ==
  ASSUME NEW secs, NEW stack, NEW h, NEW pos \in Nat, Len(secs) \in Nat,
         SectionsInOrder(secs, stack, h, pos),
         NEW x, OpenRange(x, secs, h, pos),
         NEW s, {"section", "start", "end"} \subseteq DOMAIN s,
         s.section = Len(secs), s.start = x, s.end = pos
  PROVE  InSection(s, secs, h, pos)
<1>1. Len(secs) \in 1 .. Len(secs)
  BY DEF SectionsInOrder
<1>2. h = None /\ x \in 0 .. pos /\ secs[Len(secs)].start <= x
  BY <1>1 DEF OpenRange
<1> QED BY <1>1, <1>2 DEF InSection

\* The fields that are about places in the text are unchanged.
SamePlaces(v, w) ==
  /\ v.sections = w.sections /\ v.stack = w.stack /\ v.heading = w.heading /\ v.level = w.level
  /\ v.block = w.block /\ v.paragraphs = w.paragraphs /\ v.facts = w.facts /\ v.raw = w.raw
  /\ v.concept = w.concept /\ v.nested = w.nested

SameTables(v, w) == v.tables = w.tables /\ v.closed = w.closed /\ v.rows = w.rows

(* A hook that only adds text.                                               *)
LEMMA TextStep ==
  ASSUME NEW w, ListsOK(w), FilingWalk(w), NEW v, IsWalk(v), SamePlaces(v, w),
         IsList(v.text), Len(w.text) <= Len(v.text)
  PROVE  ListsOK(v) /\ FilingWalk(v)
<1>1. ListsOK(v)
  BY Zenon DEF ListsOK, SamePlaces
<1>2. PICK p, q \in Nat : p = Len(w.text) /\ q = Len(v.text)
  BY DEF ListsOK, IsList
<1>3. Len(w.sections) \in Nat
  BY DEF ListsOK, IsList
<1>4. SectionsInOrder(w.sections, w.stack, w.heading, p)
  BY <1>2, Zenon DEF FilingWalk
<1>5. w.nested => Nests(w.sections, w.heading, p, w.block, w.paragraphs, w.facts, w.raw)
  BY <1>2, Zenon DEF FilingWalk
<1>6. p <= q
  BY <1>2
<1>7. /\ SectionsInOrder(w.sections, w.stack, w.heading, q)
      /\ w.nested => Nests(w.sections, w.heading, q, w.block, w.paragraphs, w.facts, w.raw)
  BY <1>3, <1>4, <1>5, <1>6, GrowthKeeps, Zenon
<1> QED BY <1>1, <1>2, <1>7, Zenon DEF FilingWalk, SamePlaces

(* A new line.                                                               *)
LEMMA NewLineStep ==
  ASSUME NEW w, IsWalk(w), IsList(w.text), NEW v, v = OnNewLine(w)
  PROVE  /\ IsWalk(v) /\ SamePlaces(v, w) /\ SameTables(v, w)
         /\ IsList(v.text) /\ Len(w.text) <= Len(v.text)
<1>1. v = [w EXCEPT !.text = Newline(w.text)]
  BY DEF OnNewLine
<1>2. IsWalk(v) /\ v.text = Newline(w.text)
  BY <1>1 DEF IsWalk, WalkFields
<1>3. SamePlaces(v, w)
  BY <1>1 DEF IsWalk, WalkFields, SamePlaces
<1>4. SameTables(v, w)
  BY <1>1 DEF IsWalk, WalkFields, SameTables
<1> QED BY <1>2, <1>3, <1>4, TextGrows

LEMMA NewLineKeeps ==
  ASSUME NEW w, ListsOK(w), FilingWalk(w)
  PROVE  ListsOK(OnNewLine(w)) /\ FilingWalk(OnNewLine(w)) /\ SamePlaces(OnNewLine(w), w)
<1>1. PICK v : v = OnNewLine(w)
  OBVIOUS
<1>2. IsWalk(w) /\ IsList(w.text)
  BY DEF ListsOK
<1> QED BY <1>1, <1>2, NewLineStep, TextStep, Zenon

(* A heading opens.                                                          *)
LEMMA OpenHeadingStep ==
  ASSUME NEW w, ListsOK(w), FilingWalk(w), NEW level \in Nat,
         NEW v, v = [w EXCEPT !.heading = Pos(w), !.level = level,
                              !.nested = @ /\ w.block = None /\ w.facts = <<>>
                                           /\ w.heading = None]
  PROVE  ListsOK(v) /\ FilingWalk(v) /\ SameTables(v, w)
<1>1. PICK p \in Nat : p = Len(w.text)
  BY DEF ListsOK, IsList
<1>2. /\ IsWalk(w) /\ Len(w.sections) \in Nat
  BY DEF ListsOK, IsList
<1>3. /\ IsWalk(v) /\ v.heading = p /\ v.level = level /\ v.text = w.text
      /\ v.sections = w.sections /\ v.stack = w.stack /\ v.block = w.block
      /\ v.paragraphs = w.paragraphs /\ v.facts = w.facts /\ v.raw = w.raw
      /\ v.concept = w.concept
  BY <1>1, <1>2 DEF IsWalk, WalkFields, Pos
<1>4. SameTables(v, w)
  BY <1>2 DEF IsWalk, WalkFields, SameTables
<1>5. v.nested = (w.nested /\ w.block = None /\ w.facts = <<>> /\ w.heading = None)
  BY <1>2 DEF IsWalk, WalkFields
<1>6. ListsOK(v)
  BY <1>3, Zenon DEF ListsOK
<1>7. SectionsInOrder(w.sections, w.stack, w.heading, p)
  BY <1>1, Zenon DEF FilingWalk
<1>8. SectionsInOrder(w.sections, w.stack, p, p)
  BY <1>2, <1>7, HeadingOpens, Zenon
<1>9. ASSUME v.nested
      PROVE  Nests(w.sections, p, p, w.block, w.paragraphs, w.facts, w.raw)
  <2>1. w.nested /\ w.block = None /\ w.facts = <<>>
    BY <1>5, <1>9, Zenon
  <2>2. Nests(w.sections, w.heading, p, None, w.paragraphs, <<>>, w.raw)
    BY <1>1, <2>1, Zenon DEF FilingWalk
  <2>3. Nests(w.sections, p, p, None, w.paragraphs, <<>>, w.raw)
    BY <1>2, <2>2, HeadingOpens, Zenon
  <2> QED BY <2>1, <2>3, Zenon
<1>10. w.concept = None
  BY DEF FilingWalk
<1>11. FilingWalk(v)
  BY <1>1, <1>3, <1>8, <1>9, <1>10, Zenon DEF FilingWalk
<1> QED BY <1>4, <1>6, <1>11

(* The sections that stay open are the lower part of the stack.              *)
LEMMA AncestorsOpen ==
  ASSUME NEW w, ListsOK(w), Len(w.stack) > 0
  PROVE  \E k \in 1 .. Len(w.stack) : Shorter(Ancestors(w), w.stack, k)
<1>1. PICK n \in Nat : n = Len(w.stack)
  BY DEF ListsOK, IsList
<1>2. PICK S : S = {k \in DOMAIN w.stack : k = 1 \/ w.sections[w.stack[k]].level < w.level}
  OBVIOUS
<1>3. IsList(w.stack)
  BY DEF ListsOK
<1>4. DOMAIN w.stack = 1 .. n
  BY <1>1, <1>3 DEF IsList
<1>5. S \subseteq 1 .. n /\ 1 \in S
  BY <1>1, <1>2, <1>4
<1>6. S \subseteq 0 .. n /\ S # {}
  BY <1>5
<1>7. Max(S) \in S
  BY <1>6, MaxOfNaturals
<1>8. PICK k \in 1 .. n : k = Max(S)
  BY <1>5, <1>7
<1>9. Ancestors(w) = SubSeq(w.stack, 1, k)
  BY <1>2, <1>8, Zenon DEF Ancestors
<1>10. Shorter(SubSeq(w.stack, 1, k), w.stack, k)
  BY <1>1, <1>3, <1>8, ListFirst
<1> QED BY <1>1, <1>9, <1>10

(* A heading becomes a section.                                              *)
LEMMA SectionStep ==
  ASSUME NEW w, ListsOK(w), FilingWalk(w), w.heading # None, NEW v, v = WithSection(w)
  PROVE  ListsOK(v) /\ FilingWalk(v) /\ SameTables(v, w)
<1>1. PICK p \in Nat : p = Len(w.text)
  BY DEF ListsOK, IsList
<1>2. IsWalk(w) /\ Len(w.sections) \in Nat /\ IsList(w.sections)
  BY DEF ListsOK, IsList
<1>3. SectionsInOrder(w.sections, w.stack, w.heading, p)
  BY <1>1, Zenon DEF FilingWalk
<1>4. PICK kept : kept = Ancestors(w)
  OBVIOUS
<1>5. Len(w.stack) > 0
  BY <1>3 DEF SectionsInOrder
<1>6. PICK k \in 1 .. Len(w.stack) : Shorter(kept, w.stack, k)
  BY <1>4, <1>5, AncestorsOpen
<1>7. /\ IsList(kept) /\ Len(kept) = k /\ Len(kept) \in Nat
      /\ \A i \in 1 .. Len(kept) : kept[i] \in 1 .. Len(w.sections)
  <2>1. Len(w.stack) \in Nat
    BY DEF ListsOK, IsList
  <2>2. \A i \in 1 .. Len(w.stack) : w.stack[i] \in 1 .. Len(w.sections)
    BY <1>3 DEF SectionsInOrder
  <2> QED BY <1>6, <2>1, <2>2 DEF Shorter
<1>8. Last(kept) \in 1 .. Len(w.sections)
  BY <1>6, <1>7 DEF Last
<1>9. PICK rec : rec = [level |-> w.level, start |-> w.heading, end |-> 0, parent |-> Last(kept)]
  OBVIOUS
<1>10. w.heading \in 0 .. p /\ w.level \in Nat
  BY <1>3 DEF SectionsInOrder, FilingWalk
<1>11. rec \in SectionRecords /\ rec.start = w.heading /\ rec.parent \in 1 .. Len(w.sections)
  BY <1>2, <1>8, <1>9, <1>10 DEF SectionRecords
<1>12. PICK secs2, stack2 : secs2 = Append(w.sections, rec) /\ stack2 = Append(kept, Len(w.sections) + 1)
  OBVIOUS
<1>13. Longer(secs2, w.sections, rec) /\ Longer(stack2, kept, Len(w.sections) + 1)
  BY <1>2, <1>7, <1>12, ListAppend
<1>14. v = [w EXCEPT !.heading = None, !.sections = secs2, !.stack = stack2]
  BY <1>4, <1>9, <1>12 DEF WithSection
<1>15. /\ IsWalk(v) /\ v.heading = None /\ v.level = w.level /\ v.text = w.text
       /\ v.sections = secs2 /\ v.stack = stack2 /\ v.block = w.block
       /\ v.paragraphs = w.paragraphs /\ v.facts = w.facts /\ v.raw = w.raw
       /\ v.concept = w.concept /\ v.nested = w.nested
  BY <1>2, <1>14 DEF IsWalk, WalkFields
<1>16. SameTables(v, w)
  BY <1>2, <1>14 DEF IsWalk, WalkFields, SameTables
<1>17. IsList(secs2) /\ IsList(stack2)
  BY <1>13 DEF Longer
<1>18. ListsOK(v)
  BY <1>15, <1>17, Zenon DEF ListsOK
<1>19. /\ SectionsInOrder(secs2, stack2, None, p)
       /\ \A b, P, F, R : Nests(w.sections, w.heading, p, b, P, F, R)
                            => Nests(secs2, None, p, b, P, F, R)
  BY <1>2, <1>3, <1>7, <1>11, <1>13, HeadingCloses
<1>20. w.nested => Nests(secs2, None, p, w.block, w.paragraphs, w.facts, w.raw)
  BY <1>1, <1>19, Zenon DEF FilingWalk
<1>21. w.concept = None
  BY DEF FilingWalk
<1>22. FilingWalk(v)
  BY <1>1, <1>10, <1>15, <1>19, <1>20, <1>21, Zenon DEF FilingWalk
<1> QED BY <1>16, <1>18, <1>22

(* A blank one is forgotten.                                                 *)
LEMMA BlankHeadingStep ==
  ASSUME NEW w, ListsOK(w), FilingWalk(w), w.heading # None, NEW v, v = [w EXCEPT !.heading = None]
  PROVE  ListsOK(v) /\ FilingWalk(v) /\ SameTables(v, w)
<1>1. PICK p \in Nat : p = Len(w.text)
  BY DEF ListsOK, IsList
<1>2. IsWalk(w) /\ Len(w.sections) \in Nat
  BY DEF ListsOK, IsList
<1>3. /\ IsWalk(v) /\ v.heading = None /\ v.level = w.level /\ v.text = w.text
      /\ v.sections = w.sections /\ v.stack = w.stack /\ v.block = w.block
      /\ v.paragraphs = w.paragraphs /\ v.facts = w.facts /\ v.raw = w.raw
      /\ v.concept = w.concept /\ v.nested = w.nested
  BY <1>2 DEF IsWalk, WalkFields
<1>4. SameTables(v, w)
  BY <1>2 DEF IsWalk, WalkFields, SameTables
<1>5. SectionsInOrder(w.sections, w.stack, w.heading, p)
  BY <1>1, Zenon DEF FilingWalk
<1>6. SectionsInOrder(w.sections, w.stack, None, p)
  BY <1>2, <1>5, HeadingDrops, Zenon
<1>7. w.nested => Nests(w.sections, None, p, w.block, w.paragraphs, w.facts, w.raw)
  BY <1>1, <1>2, HeadingDrops, Zenon DEF FilingWalk
<1>8. w.concept = None /\ w.level \in Nat
  BY DEF FilingWalk
<1>9. ListsOK(v)
  BY <1>3, Zenon DEF ListsOK
<1>10. FilingWalk(v)
  BY <1>1, <1>3, <1>6, <1>7, <1>8, Zenon DEF FilingWalk
<1> QED BY <1>4, <1>9, <1>10

(* One more range.                                                           *)
LEMMA RangesAppend ==
  ASSUME NEW ranges, IsList(ranges), NEW s, NEW secs, NEW h, NEW pos,
         AllInSection(ranges, secs, h, pos), InSection(s, secs, h, pos)
  PROVE  IsList(Append(ranges, s)) /\ AllInSection(Append(ranges, s), secs, h, pos)
<1>1. PICK t : t = Append(ranges, s)
  OBVIOUS
<1>2. Longer(t, ranges, s) /\ Len(ranges) \in Nat
  BY <1>1, ListAppend
<1>3. ASSUME NEW i \in 1 .. Len(t) PROVE InSection(t[i], secs, h, pos)
  <2>1. i \in 1 .. Len(ranges) \/ i = Len(ranges) + 1
    BY <1>2, <1>3 DEF Longer
  <2>2. CASE i \in 1 .. Len(ranges)
    BY <1>2, <2>2, Zenon DEF Longer, AllInSection
  <2>3. CASE i = Len(ranges) + 1
    BY <1>2, <2>3, Zenon DEF Longer
  <2> QED BY <2>1, <2>2, <2>3
<1>4. IsList(t)
  BY <1>2 DEF Longer
<1> QED BY <1>1, <1>3, <1>4, Zenon DEF AllInSection

(* A paragraph opens.                                                        *)
LEMMA OpenParagraphStep ==
  ASSUME NEW w, ListsOK(w), FilingWalk(w),
         NEW v, v = [w EXCEPT !.block = Pos(w), !.nested = @ /\ w.heading = None]
  PROVE  ListsOK(v) /\ FilingWalk(v) /\ SameTables(v, w)
<1>1. PICK p \in Nat : p = Len(w.text)
  BY DEF ListsOK, IsList
<1>2. IsWalk(w) /\ Len(w.sections) \in Nat
  BY DEF ListsOK, IsList
<1>3. /\ IsWalk(v) /\ v.heading = w.heading /\ v.level = w.level /\ v.text = w.text
      /\ v.sections = w.sections /\ v.stack = w.stack /\ v.block = p
      /\ v.paragraphs = w.paragraphs /\ v.facts = w.facts /\ v.raw = w.raw
      /\ v.concept = w.concept
  BY <1>1, <1>2 DEF IsWalk, WalkFields, Pos
<1>4. SameTables(v, w)
  BY <1>2 DEF IsWalk, WalkFields, SameTables
<1>5. v.nested = (w.nested /\ w.heading = None)
  BY <1>2 DEF IsWalk, WalkFields
<1>6. SectionsInOrder(w.sections, w.stack, w.heading, p)
  BY <1>1, Zenon DEF FilingWalk
<1>7. ASSUME v.nested
      PROVE  Nests(w.sections, w.heading, p, p, w.paragraphs, w.facts, w.raw)
  <2>1. w.nested /\ w.heading = None
    BY <1>5, <1>7, Zenon
  <2>2. Nests(w.sections, w.heading, p, w.block, w.paragraphs, w.facts, w.raw)
    BY <1>1, <2>1, Zenon DEF FilingWalk
  <2>3. OpenRange(p, w.sections, w.heading, p)
    BY <1>2, <1>6, <2>1, RangeOpens
  <2> QED BY <2>2, <2>3, Zenon DEF Nests
<1>8. w.concept = None /\ w.level \in Nat
  BY DEF FilingWalk
<1>9. ListsOK(v)
  BY <1>3, Zenon DEF ListsOK
<1>10. FilingWalk(v)
  BY <1>1, <1>3, <1>6, <1>7, <1>8, Zenon DEF FilingWalk
<1> QED BY <1>4, <1>9, <1>10

(* A paragraph closes, as a range of the last section unless it is empty.    *)
LEMMA CloseParagraphStep ==
  ASSUME NEW w, ListsOK(w), FilingWalk(w), w.block # None,
         NEW v, v = [w EXCEPT
                      !.block = None,
                      !.paragraphs = IF Pos(w) = w.block THEN @
                                     ELSE Append(@, [section |-> Last(w.stack),
                                                     start |-> w.block, end |-> Pos(w)])]
  PROVE  ListsOK(v) /\ FilingWalk(v) /\ SameTables(v, w)
<1>1. PICK p \in Nat : p = Len(w.text)
  BY DEF ListsOK, IsList
<1>2. IsWalk(w) /\ Len(w.sections) \in Nat /\ IsList(w.paragraphs)
  BY DEF ListsOK, IsList
<1>3. PICK s : s = [section |-> Last(w.stack), start |-> w.block, end |-> p]
  OBVIOUS
<1>4. PICK ps : ps = IF p = w.block THEN w.paragraphs ELSE Append(w.paragraphs, s)
  OBVIOUS
<1>5. /\ IsWalk(v) /\ v.heading = w.heading /\ v.level = w.level /\ v.text = w.text
      /\ v.sections = w.sections /\ v.stack = w.stack /\ v.block = None
      /\ v.paragraphs = ps /\ v.facts = w.facts /\ v.raw = w.raw
      /\ v.concept = w.concept /\ v.nested = w.nested
  BY <1>1, <1>2, <1>3, <1>4 DEF IsWalk, WalkFields, Pos
<1>6. SameTables(v, w)
  BY <1>2 DEF IsWalk, WalkFields, SameTables
<1>7. SectionsInOrder(w.sections, w.stack, w.heading, p)
  BY <1>1, Zenon DEF FilingWalk
<1>8. IsList(ps)
  BY <1>2, <1>4, ListAppend DEF Longer
<1>9. ASSUME w.nested
      PROVE  Nests(w.sections, w.heading, p, None, ps, w.facts, w.raw)
  <2>1. Nests(w.sections, w.heading, p, w.block, w.paragraphs, w.facts, w.raw)
    BY <1>1, <1>9, Zenon DEF FilingWalk
  <2>2. OpenRange(w.block, w.sections, w.heading, p)
    BY <2>1, Zenon DEF Nests
  <2>3. Last(w.stack) = Len(w.sections)
    BY <1>7 DEF SectionsInOrder, Last
  <2>4. {"section", "start", "end"} \subseteq DOMAIN s /\ s.section = Len(w.sections) /\ s.start = w.block /\ s.end = p
    BY <1>3, <2>3
  <2>5. InSection(s, w.sections, w.heading, p)
    BY <1>2, <1>7, <2>2, <2>4, RangeCloses
  <2>6. AllInSection(w.paragraphs, w.sections, w.heading, p)
    BY <2>1, Zenon DEF Nests
  <2>7. AllInSection(Append(w.paragraphs, s), w.sections, w.heading, p)
    BY <1>2, <2>5, <2>6, RangesAppend
  <2>8. AllInSection(ps, w.sections, w.heading, p)
    BY <1>4, <2>6, <2>7, Zenon
  <2> QED BY <2>1, <2>8, Zenon DEF Nests
<1>10. w.concept = None /\ w.level \in Nat
  BY DEF FilingWalk
<1>11. ListsOK(v)
  BY <1>5, <1>8, Zenon DEF ListsOK
<1>12. FilingWalk(v)
  BY <1>1, <1>5, <1>7, <1>9, <1>10, Zenon DEF FilingWalk
<1> QED BY <1>6, <1>11, <1>12

(* An inline fact opens.                                                     *)
LEMMA OpenFactStep ==
  ASSUME NEW w, ListsOK(w), FilingWalk(w), NEW kind,
         NEW v, v = [w EXCEPT !.facts = Append(@, [kind |-> kind, start |-> Pos(w)]),
                              !.nested = @ /\ w.heading = None]
  PROVE  ListsOK(v) /\ FilingWalk(v) /\ SameTables(v, w)
<1>1. PICK p \in Nat : p = Len(w.text)
  BY DEF ListsOK, IsList
<1>2. IsWalk(w) /\ Len(w.sections) \in Nat /\ IsList(w.facts) /\ Len(w.facts) \in Nat
  BY DEF ListsOK, IsList
<1>3. PICK f, fs : f = [kind |-> kind, start |-> p] /\ fs = Append(w.facts, f)
  OBVIOUS
<1>4. Longer(fs, w.facts, f)
  BY <1>2, <1>3, ListAppend
<1>5. /\ IsWalk(v) /\ v.heading = w.heading /\ v.level = w.level /\ v.text = w.text
      /\ v.sections = w.sections /\ v.stack = w.stack /\ v.block = w.block
      /\ v.paragraphs = w.paragraphs /\ v.facts = fs /\ v.raw = w.raw
      /\ v.concept = w.concept
  BY <1>1, <1>2, <1>3 DEF IsWalk, WalkFields, Pos
<1>6. SameTables(v, w)
  BY <1>2 DEF IsWalk, WalkFields, SameTables
<1>7. v.nested = (w.nested /\ w.heading = None)
  BY <1>2 DEF IsWalk, WalkFields
<1>8. SectionsInOrder(w.sections, w.stack, w.heading, p)
  BY <1>1, Zenon DEF FilingWalk
<1>9. ASSUME v.nested
      PROVE  Nests(w.sections, w.heading, p, w.block, w.paragraphs, fs, w.raw)
  <2>1. w.nested /\ w.heading = None
    BY <1>7, <1>9, Zenon
  <2>2. Nests(w.sections, w.heading, p, w.block, w.paragraphs, w.facts, w.raw)
    BY <1>1, <2>1, Zenon DEF FilingWalk
  <2>3. OpenRange(p, w.sections, w.heading, p)
    BY <1>2, <1>8, <2>1, RangeOpens
  <2>4. ASSUME NEW k \in 1 .. Len(fs) PROVE OpenRange(fs[k].start, w.sections, w.heading, p)
    <3>1. k \in 1 .. Len(w.facts) \/ k = Len(w.facts) + 1
      BY <1>2, <1>4, <2>4 DEF Longer
    <3>2. CASE k \in 1 .. Len(w.facts)
      BY <1>4, <2>2, <3>2, Zenon DEF Longer, Nests
    <3>3. CASE k = Len(w.facts) + 1
      <4>1. fs[k].start = p
        BY <1>3, <1>4, <3>3 DEF Longer
      <4> QED BY <2>3, <4>1, Zenon
    <3> QED BY <3>1, <3>2, <3>3
  <2> QED BY <2>2, <2>4, Zenon DEF Nests
<1>10. w.concept = None /\ w.level \in Nat
  BY DEF FilingWalk
<1>11. ListsOK(v)
  BY <1>4, <1>5, Zenon DEF ListsOK, Longer
<1>12. FilingWalk(v)
  BY <1>1, <1>5, <1>8, <1>9, <1>10, Zenon DEF FilingWalk
<1> QED BY <1>6, <1>11, <1>12

(* It closes, as a range of the last section.                                *)
LEMMA CloseFactStep ==
  ASSUME NEW w, ListsOK(w), FilingWalk(w), w.facts # <<>>,
         NEW v, v = [w EXCEPT
                      !.facts = Front(@),
                      !.raw = Append(@, [kind |-> Last(w.facts).kind, start |-> Last(w.facts).start,
                                         end |-> Pos(w), section |-> Last(w.stack)])]
  PROVE  ListsOK(v) /\ FilingWalk(v) /\ SameTables(v, w)
<1>1. PICK p \in Nat : p = Len(w.text)
  BY DEF ListsOK, IsList
<1>2. IsWalk(w) /\ Len(w.sections) \in Nat /\ IsList(w.facts) /\ IsList(w.raw)
  BY DEF ListsOK, IsList
<1>3. PICK m \in Nat : m = Len(w.facts) /\ m > 0
  <2>1. Len(w.facts) \in Nat
    BY <1>2 DEF IsList
  <2>2. Len(w.facts) # 0
    <3>1. SUFFICES ASSUME Len(w.facts) = 0 PROVE FALSE
      OBVIOUS
    <3>2. w.facts \in Seq({})
      BY <1>2, <3>1, ListIsSeq
    <3> QED BY <3>1, <3>2
  <2> QED BY <2>1, <2>2
<1>4. PICK f, s, fs : /\ f = Last(w.facts) /\ fs = Front(w.facts)
                      /\ s = [kind |-> f.kind, start |-> f.start, end |-> p,
                              section |-> Last(w.stack)]
  OBVIOUS
<1>5. Shorter(fs, w.facts, m - 1)
  <2>1. fs = SubSeq(w.facts, 1, m - 1) /\ m - 1 \in Nat /\ m - 1 <= Len(w.facts)
    BY <1>3, <1>4 DEF Front
  <2> QED BY <1>2, <2>1, ListFirst
<1>6. PICK rs : rs = Append(w.raw, s)
  OBVIOUS
<1>7. /\ IsWalk(v) /\ v.heading = w.heading /\ v.level = w.level /\ v.text = w.text
      /\ v.sections = w.sections /\ v.stack = w.stack /\ v.block = w.block
      /\ v.paragraphs = w.paragraphs /\ v.facts = fs /\ v.raw = rs
      /\ v.concept = w.concept /\ v.nested = w.nested
  BY <1>1, <1>2, <1>4, <1>6 DEF IsWalk, WalkFields, Pos
<1>8. SameTables(v, w)
  BY <1>2 DEF IsWalk, WalkFields, SameTables
<1>9. SectionsInOrder(w.sections, w.stack, w.heading, p)
  BY <1>1, Zenon DEF FilingWalk
<1>10. ASSUME w.nested
       PROVE  Nests(w.sections, w.heading, p, w.block, w.paragraphs, fs, rs)
  <2>1. Nests(w.sections, w.heading, p, w.block, w.paragraphs, w.facts, w.raw)
    BY <1>1, <1>10, Zenon DEF FilingWalk
  <2>2. \A k \in 1 .. Len(w.facts) : OpenRange(w.facts[k].start, w.sections, w.heading, p)
    BY <2>1, Zenon DEF Nests
  <2>3. f = w.facts[m] /\ m \in 1 .. Len(w.facts)
    BY <1>3, <1>4 DEF Last
  <2>4. OpenRange(f.start, w.sections, w.heading, p)
    BY <2>2, <2>3, Zenon
  <2>5. Last(w.stack) = Len(w.sections)
    BY <1>9 DEF SectionsInOrder, Last
  <2>6. {"section", "start", "end"} \subseteq DOMAIN s /\ s.section = Len(w.sections) /\ s.start = f.start /\ s.end = p
    BY <1>4, <2>5
  <2>7. InSection(s, w.sections, w.heading, p)
    BY <1>2, <1>9, <2>4, <2>6, RangeCloses
  <2>8. AllInSection(w.raw, w.sections, w.heading, p)
    BY <2>1, Zenon DEF Nests
  <2>9. AllInSection(rs, w.sections, w.heading, p)
    BY <1>2, <1>6, <2>7, <2>8, RangesAppend
  <2>10. ASSUME NEW k \in 1 .. Len(fs) PROVE OpenRange(fs[k].start, w.sections, w.heading, p)
    <3>1. k \in 1 .. Len(w.facts) /\ fs[k] = w.facts[k]
      BY <1>3, <1>5, <2>10 DEF Shorter
    <3> QED BY <2>2, <3>1, Zenon
  <2> QED BY <2>1, <2>9, <2>10, Zenon DEF Nests
<1>11. w.concept = None /\ w.level \in Nat
  BY DEF FilingWalk
<1>12. IsList(fs) /\ IsList(rs)
  BY <1>2, <1>5, <1>6, ListAppend DEF Shorter, Longer
<1>13. ListsOK(v)
  BY <1>7, <1>12, Zenon DEF ListsOK
<1>14. FilingWalk(v)
  BY <1>1, <1>7, <1>9, <1>10, <1>11, Zenon DEF FilingWalk
<1> QED BY <1>8, <1>13, <1>14

(* ------------------------------ table rows ------------------------------- *)
(* The rows of a table are some natural number.                              *)
LEMMA RowCountType ==
  ASSUME NEW t \in Tables
  PROVE  RowCount(t) \in Nat
BY DEF RowCount, Tables

(* The rows of some tables are a sum over their places.                      *)
LEMMA RowTotalIs ==
  ASSUME NEW ts, AreTables(ts), NEW n \in Nat, Len(ts) <= n, NEW F \in [1 .. n -> Nat],
         \A i \in 1 .. Len(ts) : F[i] = RowCount(ts[i])
  PROVE  RowTotal(ts) = Total(F, 1 .. Len(ts)) /\ RowTotal(ts) \in Nat
<1>1. PICK S : S = 1 .. Len(ts)
  OBVIOUS
<1>2. DOMAIN ts = S /\ Len(ts) \in Nat
  BY <1>1 DEF AreTables, IsList
<1>3. S \in SUBSET (1 .. n) /\ IsFiniteSet(1 .. n)
  <2>1. IsFiniteSet(1 .. n)
    BY FS_Interval
  <2> QED BY <1>1, <1>2, <2>1
<1> DEFINE pick(t) == CHOOSE x \in t : TRUE
           P(g) == g = [t \in SUBSET S |-> IF t = {} THEN 0
                          ELSE RowCount(ts[pick(t)]) + g[t \ {pick(t)}]]
<1>4. RowTotal(ts) = (CHOOSE g : P(g))[S]
  BY <1>2, Zenon DEF RowTotal, MapThenSumSet, MapThenFoldSet
<1>5. \A t \in SUBSET S : t # {} => pick(t) \in S
  OBVIOUS
<1> HIDE DEF pick
<1>6. \A t \in SUBSET S : t # {} => RowCount(ts[pick(t)]) = F[pick(t)]
  BY <1>1, <1>5
<1>7. \A g : P(g) <=> g = [t \in SUBSET S |-> IF t = {} THEN 0 ELSE F[pick(t)] + g[t \ {pick(t)}]]
  BY <1>6
<1>8. \A g : P(g) <=> IsSum(g, F, S)
  BY <1>7 DEF IsSum, pick
<1> HIDE DEF P
<1>9. PICK h : IsSum(h, F, S)
  BY <1>3, TotalFacts
<1>10. PICK k : k = CHOOSE g : P(g)
  OBVIOUS
<1>11. IsSum(k, F, S)
  BY <1>8, <1>9, <1>10, Zenon
<1>12. RowTotal(ts) = Total(F, S)
  BY <1>3, <1>4, <1>10, <1>11, TotalIs
<1>13. Total(F, S) \in Nat
  BY <1>3, TotalFacts
<1> QED BY <1>1, <1>12, <1>13

(* The last table adds its own.                                              *)
LEMMA RowsSplit ==
  ASSUME NEW ts, AreTables(ts), NEW n \in Nat, Len(ts) = n + 1, NEW fs, Shorter(fs, ts, n)
  PROVE  /\ AreTables(fs) /\ RowTotal(fs) \in Nat /\ RowCount(ts[n + 1]) \in Nat
         /\ RowTotal(ts) = RowTotal(fs) + RowCount(ts[n + 1])
<1>1. PICK F : F = [i \in 1 .. n + 1 |-> RowCount(ts[i])]
  OBVIOUS
<1>2. \A i \in 1 .. n + 1 : ts[i] \in Tables
  BY DEF AreTables
<1>3. F \in [1 .. n + 1 -> Nat]
  BY <1>1, <1>2, RowCountType
<1>4. AreTables(fs) /\ Len(fs) = n /\ \A i \in 1 .. n : fs[i] = ts[i]
  BY <1>2 DEF Shorter, AreTables
<1>5. RowTotal(ts) = Total(F, 1 .. n + 1) /\ RowTotal(ts) \in Nat
  <2>1. n + 1 \in Nat /\ Len(ts) <= n + 1 /\ \A i \in 1 .. Len(ts) : F[i] = RowCount(ts[i])
    BY <1>1
  <2>2. RowTotal(ts) = Total(F, 1 .. Len(ts)) /\ RowTotal(ts) \in Nat
    BY <1>3, <2>1, RowTotalIs
  <2> QED BY <2>2
<1>6. RowTotal(fs) = Total(F, 1 .. n) /\ RowTotal(fs) \in Nat
  <2>1. n + 1 \in Nat /\ Len(fs) <= n + 1 /\ \A i \in 1 .. Len(fs) : F[i] = RowCount(fs[i])
    BY <1>1, <1>4
  <2>2. RowTotal(fs) = Total(F, 1 .. Len(fs)) /\ RowTotal(fs) \in Nat
    BY <1>3, <1>4, <2>1, RowTotalIs
  <2> QED BY <1>4, <2>2
<1>7. Total(F, 1 .. n + 1) = F[n + 1] + Total(F, 1 .. n)
  <2>1. PICK D : D = 1 .. n + 1
    OBVIOUS
  <2>5. 1 \in Int /\ n + 1 \in Int
    OBVIOUS
  <2>6. IsFiniteSet(D)
    BY <2>1, <2>5, FS_Interval
  <2>2. IsFiniteSet(D) /\ n + 1 \in D /\ D \ {n + 1} = 1 .. n
    BY <2>1, <2>6
  <2>3. F \in [D -> Nat] /\ D \in SUBSET D
    BY <1>3, <2>1
  <2>4. Total(F, D) = F[n + 1] + Total(F, D \ {n + 1})
    BY <2>2, <2>3, TotalTakes
  <2> QED BY <2>1, <2>2, <2>4
<1>8. F[n + 1] = RowCount(ts[n + 1]) /\ F[n + 1] \in Nat
  BY <1>1, <1>3
<1> QED BY <1>4, <1>5, <1>6, <1>7, <1>8

(* No tables have no rows.                                                   *)
LEMMA NoRows == RowTotal(<<>>) = 0
<1>1. PICK ts : ts = <<>>
  OBVIOUS
<1>2. AreTables(ts) /\ Len(ts) = 0
  BY <1>1 DEF AreTables, IsList
<1>3. PICK F : F = [i \in 1 .. 0 |-> 0]
  OBVIOUS
<1>4. F \in [1 .. 0 -> Nat] /\ 0 \in Nat /\ 1 .. 0 = {}
  BY <1>3
<1>5. Len(ts) <= 0 /\ \A i \in 1 .. Len(ts) : F[i] = RowCount(ts[i])
  BY <1>2
<1>6. RowTotal(ts) = Total(F, 1 .. Len(ts))
  BY <1>2, <1>4, <1>5, RowTotalIs
<1>7. IsFiniteSet({}) /\ F \in [{} -> Nat]
  BY <1>4, FS_EmptySet
<1>8. Total(F, {}) = 0
  BY <1>7, TotalFacts
<1> QED BY <1>1, <1>2, <1>4, <1>6, <1>8

(* The last of some tables, changed: so are the rows.                        *)
LEMMA LastChanges ==
  ASSUME NEW ts, AreTables(ts), NEW n \in Nat, Len(ts) = n + 1, NEW t \in Tables,
         NEW us, us = [ts EXCEPT ![Len(ts)] = t]
  PROVE  /\ AreTables(us) /\ RowCount(ts[n + 1]) \in Nat
         /\ RowTotal(ts) \in Nat /\ RowTotal(us) \in Nat
         /\ RowTotal(us) + RowCount(ts[n + 1]) = RowTotal(ts) + RowCount(t)
<1>1. IsList(ts) /\ \A i \in 1 .. n + 1 : ts[i] \in Tables
  BY DEF AreTables
<1>2. DOMAIN ts = 1 .. n + 1
  BY <1>1 DEF IsList
<1>3. us = [i \in 1 .. n + 1 |-> IF i = n + 1 THEN t ELSE ts[i]]
  BY <1>2
<1>4. us \in Seq(Tables) /\ Len(us) = n + 1
  <2>1. us \in [1 .. n + 1 -> Tables]
    BY <1>1, <1>3
  <2> QED BY <2>1, FunctionIsSeq
<1>5. AreTables(us)
  <2>1. IsList(us)
    BY <1>4, SeqIsList
  <2>2. \A i \in 1 .. Len(us) : us[i] \in Tables
    BY <1>4
  <2> QED BY <2>1, <2>2 DEF AreTables
<1>6. PICK fs : fs = SubSeq(ts, 1, n)
  OBVIOUS
<1>7. Shorter(fs, ts, n)
  BY <1>1, <1>6, ListFirst
<1>8. Shorter(fs, us, n)
  BY <1>3, <1>7 DEF Shorter
<1>9. /\ RowTotal(fs) \in Nat /\ RowCount(ts[n + 1]) \in Nat
      /\ RowTotal(ts) = RowTotal(fs) + RowCount(ts[n + 1])
  BY <1>7, RowsSplit
<1>10. RowTotal(us) = RowTotal(fs) + RowCount(us[n + 1])
  BY <1>4, <1>5, <1>8, RowsSplit
<1>11. us[n + 1] = t /\ RowCount(t) \in Nat
  BY <1>3, RowCountType
<1> QED BY <1>5, <1>9, <1>10, <1>11

(* A list that is not empty has a last element.                              *)
LEMMA ListHasLast ==
  ASSUME NEW s, IsList(s), s # <<>>
  PROVE  \E n \in Nat : Len(s) = n + 1 /\ Last(s) = s[n + 1]
<1>1. Len(s) \in Nat
  BY DEF IsList
<1>2. Len(s) # 0
  <2>1. SUFFICES ASSUME Len(s) = 0 PROVE FALSE
    OBVIOUS
  <2>2. s \in Seq({})
    BY <2>1, ListIsSeq
  <2> QED BY <2>1, <2>2
<1>3. PICK n \in Nat : n = Len(s) - 1
  BY <1>1, <1>2
<1> QED BY <1>1, <1>3 DEF Last

(* A table opens.                                                            *)
LEMMA TablePushed ==
  ASSUME NEW ts, NEW cs, NEW rows, RowsKept(ts, cs, rows),
         NEW t, t = [rows |-> 0, headers |-> FALSE, row |-> "none"]
  PROVE  RowsKept(Append(ts, t), cs, rows)
<1>1. PICK us : us = Append(ts, t)
  OBVIOUS
<1>2. AreTables(ts) /\ IsList(ts) /\ rows \in Nat /\ AreTables(cs)
  BY DEF RowsKept, AreTables
<1>3. PICK n \in Nat : n = Len(ts)
  BY <1>2 DEF IsList
<1>4. Longer(us, ts, t)
  BY <1>1, <1>2, ListAppend
<1>5. t \in Tables /\ RowCount(t) = 0
  BY DEF Tables, RowCount
<1>6. AreTables(us)
  <2>1. ASSUME NEW i \in 1 .. Len(us) PROVE us[i] \in Tables
    <3>1. i \in 1 .. n \/ i = n + 1
      BY <1>3, <1>4, <2>1 DEF Longer
    <3> QED BY <1>2, <1>3, <1>4, <1>5, <3>1 DEF Longer, AreTables
  <2> QED BY <1>4, <2>1 DEF AreTables, Longer
<1>7. Shorter(ts, us, n) /\ Len(us) = n + 1 /\ us[n + 1] = t
  BY <1>2, <1>3, <1>4 DEF Shorter, Longer
<1>8. RowTotal(us) = RowTotal(ts) + RowCount(us[n + 1]) /\ RowTotal(ts) \in Nat
  BY <1>6, <1>7, RowsSplit
<1>9. RowTotal(us) = RowTotal(ts)
  BY <1>5, <1>7, <1>8
<1>10. RowTotal(cs) + RowTotal(ts) = rows
  BY DEF RowsKept
<1> QED BY <1>1, <1>2, <1>6, <1>9, <1>10 DEF RowsKept

(* A table closes: its rows are those of a closed table.                     *)
LEMMA TablePopped ==
  ASSUME NEW ts, NEW cs, NEW rows, RowsKept(ts, cs, rows), ts # <<>>
  PROVE  RowsKept(Front(ts), Append(cs, Last(ts)), rows)
<1>1. AreTables(ts) /\ IsList(ts) /\ rows \in Nat /\ AreTables(cs) /\ IsList(cs)
  BY DEF RowsKept, AreTables
<1>2. PICK n \in Nat : Len(ts) = n + 1 /\ Last(ts) = ts[n + 1]
  BY <1>1, ListHasLast
<1>3. PICK fs, t, ds : fs = Front(ts) /\ t = Last(ts) /\ ds = Append(cs, t)
  OBVIOUS
<1>4. Shorter(fs, ts, n)
  <2>1. fs = SubSeq(ts, 1, n) /\ n <= Len(ts)
    BY <1>2, <1>3 DEF Front
  <2> QED BY <1>1, <2>1, ListFirst
<1>5. /\ AreTables(fs) /\ RowTotal(fs) \in Nat /\ RowCount(t) \in Nat
      /\ RowTotal(ts) = RowTotal(fs) + RowCount(t)
  BY <1>1, <1>2, <1>3, <1>4, RowsSplit
<1>6. PICK m \in Nat : m = Len(cs)
  BY <1>1 DEF IsList
<1>7. Longer(ds, cs, t)
  BY <1>1, <1>3, ListAppend
<1>8. t \in Tables
  <2>1. n + 1 \in 1 .. Len(ts)
    BY <1>2
  <2> QED BY <1>1, <1>2, <1>3, <2>1 DEF AreTables
<1>9. AreTables(ds)
  <2>1. ASSUME NEW i \in 1 .. Len(ds) PROVE ds[i] \in Tables
    <3>1. i \in 1 .. m \/ i = m + 1
      BY <1>6, <1>7, <2>1 DEF Longer
    <3> QED BY <1>1, <1>6, <1>7, <1>8, <3>1 DEF Longer, AreTables
  <2> QED BY <1>7, <2>1 DEF AreTables, Longer
<1>10. Shorter(cs, ds, m) /\ Len(ds) = m + 1 /\ ds[m + 1] = t
  BY <1>1, <1>6, <1>7 DEF Shorter, Longer
<1>11. RowTotal(ds) = RowTotal(cs) + RowCount(t) /\ RowTotal(cs) \in Nat
  BY <1>9, <1>10, RowsSplit
<1>12. RowTotal(cs) + RowTotal(ts) = rows
  BY DEF RowsKept
<1>13. RowTotal(ds) + RowTotal(fs) = rows
  BY <1>5, <1>11, <1>12
<1> QED BY <1>1, <1>3, <1>5, <1>9, <1>13 DEF RowsKept

(* The row under way is none of its table's rows yet.                        *)
LEMMA RowMarked ==
  ASSUME NEW ts, NEW cs, NEW rows, RowsKept(ts, cs, rows), ts # <<>>,
         NEW row \in {"empty", "header", "body"}
  PROVE  RowsKept([ts EXCEPT ![Len(ts)].row = row], cs, rows)
<1>1. AreTables(ts) /\ IsList(ts) /\ rows \in Nat /\ AreTables(cs)
  BY DEF RowsKept, AreTables
<1>2. PICK n \in Nat : Len(ts) = n + 1 /\ Last(ts) = ts[n + 1]
  BY <1>1, ListHasLast
<1>3. PICK t : t = [ts[n + 1] EXCEPT !.row = row]
  OBVIOUS
<1>4. ts[n + 1] \in Tables
  <2>1. n + 1 \in 1 .. Len(ts)
    BY <1>2
  <2> QED BY <1>1, <2>1 DEF AreTables
<1>5. t \in Tables /\ t.rows = ts[n + 1].rows /\ t.headers = ts[n + 1].headers
  BY <1>3, <1>4 DEF Tables
<1>6. RowCount(t) = RowCount(ts[n + 1])
  BY <1>5, Zenon DEF RowCount
<1>7. PICK us : us = [ts EXCEPT ![Len(ts)] = t]
  OBVIOUS
<1>8. us = [ts EXCEPT ![Len(ts)].row = row]
  BY <1>2, <1>3, <1>7
<1>9. /\ AreTables(us) /\ RowCount(ts[n + 1]) \in Nat
      /\ RowTotal(ts) \in Nat /\ RowTotal(us) \in Nat
      /\ RowTotal(us) + RowCount(ts[n + 1]) = RowTotal(ts) + RowCount(t)
  BY <1>1, <1>2, <1>5, <1>7, LastChanges
<1>11. RowTotal(us) = RowTotal(ts)
  BY <1>6, <1>9
<1>12. RowTotal(cs) + RowTotal(ts) = rows
  BY DEF RowsKept
<1> QED BY <1>1, <1>8, <1>9, <1>11, <1>12 DEF RowsKept

(* A closed row is counted once, by its table, unless it is a blank header.   *)
LEMMA RowCounted ==
  ASSUME NEW t \in Tables
  PROVE  /\ WithRow(t) \in Tables
         /\ IsBlankHeader(t) => RowCount(WithRow(t)) = RowCount(t)
         /\ ~IsBlankHeader(t) => RowCount(WithRow(t)) = RowCount(t) + 1
<1>1. CASE IsBlankHeader(t)
  <2>1. WithRow(t) = [t EXCEPT !.row = "none"]
    BY <1>1 DEF WithRow, IsBlankHeader
  <2>2. WithRow(t) \in Tables /\ WithRow(t).rows = t.rows /\ WithRow(t).headers = t.headers
    BY <2>1 DEF Tables
  <2>3. RowCount(WithRow(t)) = RowCount(t)
    BY <2>2, Zenon DEF RowCount
  <2> QED BY <1>1, <2>2, <2>3
<1>2. CASE ~IsBlankHeader(t) /\ t.row = "header" /\ ~t.headers
  <2>1. WithRow(t) = [t EXCEPT !.headers = TRUE, !.row = "none"]
    BY <1>2 DEF WithRow
  <2>2. WithRow(t) \in Tables /\ WithRow(t).rows = t.rows /\ WithRow(t).headers = TRUE
    BY <2>1 DEF Tables
  <2>3. RowCount(WithRow(t)) = t.rows + 1
    BY <2>2, Zenon DEF RowCount
  <2>4. RowCount(t) = t.rows + 0 /\ t.rows \in Nat
    BY <1>2 DEF RowCount, Tables
  <2> QED BY <1>2, <2>2, <2>3, <2>4
<1>3. CASE ~IsBlankHeader(t) /\ ~(t.row = "header" /\ ~t.headers)
  <2>1. WithRow(t) = [t EXCEPT !.rows = @ + 1, !.row = "none"]
    BY <1>3 DEF WithRow
  <2>5. PICK m \in Nat : m = t.rows + 1 /\ t.rows \in Nat
    BY DEF Tables
  <2>6. WithRow(t) = [t EXCEPT !.rows = m, !.row = "none"]
    BY <2>1, <2>5
  <2>7. /\ WithRow(t) \in Tables /\ WithRow(t).rows = m /\ WithRow(t).headers = t.headers
    BY <2>6 DEF Tables
  <2>2. /\ WithRow(t) \in Tables /\ WithRow(t).rows = t.rows + 1
        /\ WithRow(t).headers = t.headers /\ t.rows \in Nat
    BY <2>5, <2>7
  <2>3. PICK a \in Nat : a = IF t.headers THEN 1 ELSE 0
    OBVIOUS
  <2>4. RowCount(t) = t.rows + a /\ RowCount(WithRow(t)) = (t.rows + 1) + a
    BY <2>2, <2>3, Zenon DEF RowCount
  <2> QED BY <1>3, <2>2, <2>4
<1> QED BY <1>1, <1>2, <1>3

LEMMA RowClosed ==
  ASSUME NEW ts, NEW cs, NEW rows, RowsKept(ts, cs, rows), ts # <<>>
  PROVE  RowsKept([ts EXCEPT ![Len(ts)] = WithRow(@)], cs,
                  IF IsBlankHeader(Last(ts)) THEN rows ELSE rows + 1)
<1>1. AreTables(ts) /\ IsList(ts) /\ rows \in Nat /\ AreTables(cs)
  BY DEF RowsKept, AreTables
<1>2. PICK n \in Nat : Len(ts) = n + 1 /\ Last(ts) = ts[n + 1]
  BY <1>1, ListHasLast
<1>3. PICK t : t = WithRow(ts[n + 1])
  OBVIOUS
<1>4. ts[n + 1] \in Tables
  <2>1. n + 1 \in 1 .. Len(ts)
    BY <1>2
  <2> QED BY <1>1, <2>1 DEF AreTables
<1>5. /\ t \in Tables
      /\ IsBlankHeader(ts[n + 1]) => RowCount(t) = RowCount(ts[n + 1])
      /\ ~IsBlankHeader(ts[n + 1]) => RowCount(t) = RowCount(ts[n + 1]) + 1
  BY <1>3, <1>4, RowCounted
<1>6. PICK us : us = [ts EXCEPT ![Len(ts)] = t]
  OBVIOUS
<1>7. us = [ts EXCEPT ![Len(ts)] = WithRow(@)]
  BY <1>2, <1>3, <1>6
<1>8. /\ AreTables(us) /\ RowCount(ts[n + 1]) \in Nat
      /\ RowTotal(ts) \in Nat /\ RowTotal(us) \in Nat
      /\ RowTotal(us) + RowCount(ts[n + 1]) = RowTotal(ts) + RowCount(t)
  BY <1>1, <1>2, <1>5, <1>6, LastChanges
<1>9. RowTotal(cs) + RowTotal(ts) = rows
  BY DEF RowsKept
<1>12. RowTotal(cs) \in Nat
  <2>1. PICK m \in Nat : m = Len(cs)
    BY <1>1 DEF AreTables, IsList
  <2>2. PICK F : F = [i \in 1 .. m |-> RowCount(cs[i])]
    OBVIOUS
  <2>3. \A i \in 1 .. m : cs[i] \in Tables
    BY <1>1, <2>1 DEF AreTables
  <2>4. F \in [1 .. m -> Nat]
    BY <2>2, <2>3, RowCountType
  <2> QED BY <1>1, <2>1, <2>2, <2>4, RowTotalIs
<1>10. CASE IsBlankHeader(ts[n + 1])
  <2>1. RowTotal(cs) + RowTotal(us) = rows
    BY <1>5, <1>8, <1>9, <1>10
  <2>2. RowsKept(us, cs, rows)
    BY <1>1, <1>8, <2>1, Zenon DEF RowsKept
  <2> QED BY <1>2, <1>7, <1>10, <2>2, Zenon
<1>11. CASE ~IsBlankHeader(ts[n + 1])
  <2>1. RowTotal(cs) + RowTotal(us) = rows + 1 /\ rows + 1 \in Nat
    BY <1>1, <1>5, <1>8, <1>9, <1>11, <1>12
  <2>2. RowsKept(us, cs, rows + 1)
    BY <1>1, <1>8, <2>1, Zenon DEF RowsKept
  <2> QED BY <1>2, <1>7, <1>11, <2>2, Zenon
<1> QED BY <1>10, <1>11

(* -------------------------- companyfacts payloads ------------------------ *)
AllInConcept(ranges, secs, concept, pos) ==
  \A i \in 1 .. Len(ranges) : InConcept(ranges[i], secs, concept, pos)

(* What a payload's walk keeps to, in terms of its fields.                   *)
LEMMA PayloadParts ==
  ASSUME NEW w, PayloadWalk(w)
  PROVE  /\ AllInConcept(w.paragraphs, w.sections, w.concept, Len(w.text))
         /\ AllInConcept(w.raw, w.sections, w.concept, Len(w.text))
BY Zenon DEF PayloadWalk, AllInConcept

(* A concept opens: what was observed before lies in sections.               *)
LEMMA OpenConceptStep ==
  ASSUME NEW w, ListsOK(w), PayloadWalk(w), w.concept = None,
         NEW v, v = [w EXCEPT !.concept = Pos(w) + 1, !.text = @ \o <<"\n", "w">>]
  PROVE  ListsOK(v) /\ PayloadWalk(v) /\ SameTables(v, w)
<1>1. PICK p \in Nat : p = Len(w.text)
  BY DEF ListsOK, IsList
<1>2. PICK t : t = w.text \o <<"\n", "w">>
  OBVIOUS
<1>3. IsWalk(w) /\ IsList(w.text) /\ Len(w.sections) \in Nat
  BY DEF ListsOK, IsList
<1>4. IsList(t) /\ Len(t) = p + 2
  BY <1>1, <1>2, <1>3, TextGrows, Zenon
<1>5. /\ IsWalk(v) /\ v.text = t /\ v.concept = p + 1 /\ v.heading = w.heading /\ v.block = w.block
      /\ v.facts = w.facts /\ v.sections = w.sections /\ v.stack = w.stack
      /\ v.paragraphs = w.paragraphs /\ v.raw = w.raw
  BY <1>1, <1>2, <1>3 DEF IsWalk, WalkFields, Pos
<1>6. SameTables(v, w)
  BY <1>3 DEF IsWalk, WalkFields, SameTables
<1>7. ListsOK(v)
  BY <1>4, <1>5, Zenon DEF ListsOK
<1>8. \A s : InConcept(s, w.sections, None, p) => InConcept(s, w.sections, p + 1, p + 2)
  BY <1>3 DEF InConcept
<1>9. /\ AllInConcept(w.paragraphs, w.sections, None, p) /\ AllInConcept(w.raw, w.sections, None, p)
  BY <1>1, PayloadParts, Zenon
<1>10. /\ AllInConcept(w.paragraphs, w.sections, p + 1, p + 2)
       /\ AllInConcept(w.raw, w.sections, p + 1, p + 2)
  BY <1>8, <1>9, Zenon DEF AllInConcept
<1>11. /\ w.heading = None /\ w.block = None /\ w.facts = <<>>
       /\ Len(w.sections) > 0 /\ w.sections[1] = Root
  BY DEF PayloadWalk
<1>12. \A i \in 1 .. Len(w.sections) :
         /\ w.sections[i] \in SectionRecords /\ w.sections[i].parent \in 0 .. Len(w.sections)
         /\ w.sections[i].start <= w.sections[i].end /\ w.sections[i].end <= p + 2
  <2>1. \A i \in 1 .. Len(w.sections) :
         /\ w.sections[i] \in SectionRecords /\ w.sections[i].parent \in 0 .. Len(w.sections)
         /\ w.sections[i].start <= w.sections[i].end /\ w.sections[i].end <= p
    BY <1>1, Zenon DEF PayloadWalk
  <2>2. \A i \in 1 .. Len(w.sections) : w.sections[i].end \in Nat
    BY <2>1 DEF SectionRecords
  <2> QED BY <2>1, <2>2
<1>13. p + 1 \in 0 .. p + 2
  OBVIOUS
<1>14. PayloadWalk(v)
  BY <1>4, <1>5, <1>10, <1>11, <1>12, <1>13, Zenon DEF PayloadWalk, AllInConcept
<1> QED BY <1>6, <1>7, <1>14

(* A range more.                                                             *)
LEMMA ConceptAppend ==
  ASSUME NEW ranges, IsList(ranges), NEW s, NEW secs, NEW c, NEW pos,
         AllInConcept(ranges, secs, c, pos), InConcept(s, secs, c, pos)
  PROVE  IsList(Append(ranges, s)) /\ AllInConcept(Append(ranges, s), secs, c, pos)
<1>1. PICK t : t = Append(ranges, s)
  OBVIOUS
<1>2. Longer(t, ranges, s) /\ Len(ranges) \in Nat
  BY <1>1, ListAppend
<1>3. ASSUME NEW i \in 1 .. Len(t) PROVE InConcept(t[i], secs, c, pos)
  <2>1. i \in 1 .. Len(ranges) \/ i = Len(ranges) + 1
    BY <1>2, <1>3 DEF Longer
  <2>2. CASE i \in 1 .. Len(ranges)
    BY <1>2, <2>2, Zenon DEF Longer, AllInConcept
  <2>3. CASE i = Len(ranges) + 1
    BY <1>2, <2>3, Zenon DEF Longer
  <2> QED BY <2>1, <2>2, <2>3
<1>4. IsList(t)
  BY <1>2 DEF Longer
<1> QED BY <1>1, <1>3, <1>4, Zenon DEF AllInConcept

(* An observation lies in the concept being read.                            *)
LEMMA ObserveStep ==
  ASSUME NEW w, ListsOK(w), PayloadWalk(w), w.concept # None, NEW kind,
         NEW v, v = Observed(w, kind)
  PROVE  ListsOK(v) /\ PayloadWalk(v) /\ SameTables(v, w)
<1> DEFINE u == [w EXCEPT !.text = Append(@, "\n")]
           span == [section |-> Len(u.sections) + 1, kind |-> kind,
                    start |-> Pos(u), end |-> Pos(u) + 1]
           broken == u.broken \/ kind = "bad"
<1>26. u = [w EXCEPT !.text = Append(@, "\n")]
  BY Zenon
<1>27. span = [section |-> Len(u.sections) + 1, kind |-> kind,
               start |-> Pos(u), end |-> Pos(u) + 1]
  BY Zenon
<1>28. v = [u EXCEPT !.text = Append(@, "w"), !.broken = broken,
                     !.paragraphs = Append(@, span),
                     !.raw = IF kind = "good" THEN Append(@, span) ELSE @]
  BY Zenon DEF Observed
<1> HIDE DEF u, span, broken
<1>1. PICK p \in Nat : p = Len(w.text)
  BY DEF ListsOK, IsList
<1>2. IsWalk(w) /\ IsList(w.text) /\ IsList(w.paragraphs) /\ IsList(w.raw)
  BY DEF ListsOK
<1>21. PICK n \in Nat : n = Len(w.sections)
  BY DEF ListsOK, IsList
<1>3. PICK t : t = Append(w.text, "\n")
  OBVIOUS
<1>4. IsList(t) /\ Len(t) = p + 1
  BY <1>1, <1>2, <1>3, ListAppend DEF Longer
<1>5. PICK t2 : t2 = Append(t, "w")
  OBVIOUS
<1>6. IsList(t2) /\ Len(t2) = p + 2
  BY <1>4, <1>5, ListAppend DEF Longer
<1>7. IsWalk(u) /\ u.text = t /\ u.sections = w.sections
  BY <1>2, <1>3, <1>26 DEF IsWalk, WalkFields
<1>8. {"section", "start", "end"} \subseteq DOMAIN span /\ span.section = n + 1 /\ span.start = p + 1 /\ span.end = p + 2
  BY <1>4, <1>7, <1>21, <1>27 DEF Pos
<1>24. PICK ps : ps = Append(w.paragraphs, span)
  BY Zenon
<1> DEFINE rs == IF kind = "good" THEN Append(w.raw, span) ELSE w.raw
<1>25. rs = Append(w.raw, span) \/ rs = w.raw
  BY Zenon
<1>10. /\ IsWalk(v) /\ v.text = t2 /\ v.concept = w.concept /\ v.heading = w.heading
       /\ v.block = w.block /\ v.facts = w.facts /\ v.sections = w.sections /\ v.stack = w.stack
       /\ v.paragraphs = ps /\ v.raw = rs
  BY <1>2, <1>3, <1>5, <1>24, <1>26, <1>28 DEF IsWalk, WalkFields
<1> HIDE DEF rs
<1>11. SameTables(v, w)
  BY <1>2, <1>26, <1>28 DEF IsWalk, WalkFields, SameTables
<1>12. w.concept \in 0 .. p
  BY <1>1 DEF PayloadWalk
<1>13. \A s : InConcept(s, w.sections, w.concept, p) => InConcept(s, w.sections, w.concept, p + 2)
  BY <1>12 DEF InConcept
<1>14. InConcept(span, w.sections, w.concept, p + 2)
  BY <1>8, <1>12, <1>21 DEF InConcept
<1>15. /\ AllInConcept(w.paragraphs, w.sections, w.concept, p)
       /\ AllInConcept(w.raw, w.sections, w.concept, p)
  BY <1>1, PayloadParts, Zenon
<1>16. /\ AllInConcept(w.paragraphs, w.sections, w.concept, p + 2)
       /\ AllInConcept(w.raw, w.sections, w.concept, p + 2)
  BY <1>13, <1>15, Zenon DEF AllInConcept
<1>17. /\ IsList(ps) /\ AllInConcept(ps, w.sections, w.concept, p + 2)
       /\ IsList(rs) /\ AllInConcept(rs, w.sections, w.concept, p + 2)
  BY <1>2, <1>24, <1>25, <1>14, <1>16, ConceptAppend, Zenon
<1>18. ListsOK(v)
  BY <1>6, <1>10, <1>17, Zenon DEF ListsOK
<1>19. /\ w.heading = None /\ w.block = None /\ w.facts = <<>>
       /\ Len(w.sections) > 0 /\ w.sections[1] = Root
  BY DEF PayloadWalk
<1>20. \A i \in 1 .. Len(w.sections) :
         /\ w.sections[i] \in SectionRecords /\ w.sections[i].parent \in 0 .. Len(w.sections)
         /\ w.sections[i].start <= w.sections[i].end /\ w.sections[i].end <= p + 2
  <2>1. \A i \in 1 .. Len(w.sections) :
         /\ w.sections[i] \in SectionRecords /\ w.sections[i].parent \in 0 .. Len(w.sections)
         /\ w.sections[i].start <= w.sections[i].end /\ w.sections[i].end <= p
    BY <1>1, Zenon DEF PayloadWalk
  <2>2. \A i \in 1 .. Len(w.sections) : w.sections[i].end \in Nat
    BY <2>1 DEF SectionRecords
  <2> QED BY <2>1, <2>2
<1>22. w.concept \in 0 .. p + 2
  BY <1>12
<1>23. PayloadWalk(v)
  BY <1>6, <1>10, <1>17, <1>19, <1>20, <1>22, Zenon DEF PayloadWalk, AllInConcept
<1> QED BY <1>11, <1>18, <1>23

(* The concept closes and is the section that was announced.                 *)
LEMMA CloseConceptStep ==
  ASSUME NEW w, ListsOK(w), PayloadWalk(w), w.concept # None,
         NEW v, v = [w EXCEPT !.concept = None, !.text = @ \o <<"\n", "w">>,
                              !.sections = Append(@, [level |-> 1, start |-> w.concept,
                                                      end |-> Pos(w) + 2, parent |-> 1])]
  PROVE  ListsOK(v) /\ PayloadWalk(v) /\ SameTables(v, w)
<1>1. PICK p \in Nat : p = Len(w.text)
  BY DEF ListsOK, IsList
<1>2. PICK t : t = w.text \o <<"\n", "w">>
  OBVIOUS
<1>3. IsWalk(w) /\ IsList(w.text) /\ IsList(w.sections)
  BY DEF ListsOK
<1>4. PICK n \in Nat : n = Len(w.sections) /\ n > 0
  BY DEF ListsOK, IsList, PayloadWalk
<1>5. IsList(t) /\ Len(t) = p + 2
  BY <1>1, <1>2, <1>3, TextGrows, Zenon
<1>6. PICK rec, secs : /\ rec = [level |-> 1, start |-> w.concept, end |-> p + 2, parent |-> 1]
                       /\ secs = Append(w.sections, rec)
  OBVIOUS
<1>7. Longer(secs, w.sections, rec)
  BY <1>3, <1>6, ListAppend
<1>8. /\ IsWalk(v) /\ v.text = t /\ v.concept = None /\ v.heading = w.heading /\ v.block = w.block
      /\ v.facts = w.facts /\ v.sections = secs /\ v.stack = w.stack
      /\ v.paragraphs = w.paragraphs /\ v.raw = w.raw
  BY <1>1, <1>2, <1>3, <1>6 DEF IsWalk, WalkFields, Pos
<1>9. SameTables(v, w)
  BY <1>3 DEF IsWalk, WalkFields, SameTables
<1>10. ListsOK(v)
  BY <1>5, <1>7, <1>8, Zenon DEF ListsOK, Longer
<1>11. w.concept \in 0 .. p
  BY <1>1 DEF PayloadWalk
<1>12. /\ rec \in SectionRecords /\ rec.start = w.concept /\ rec.end = p + 2 /\ rec.parent = 1
  BY <1>6, <1>11 DEF SectionRecords
<1>13. /\ Len(secs) = n + 1 /\ secs[n + 1] = rec /\ \A i \in 1 .. n : secs[i] = w.sections[i]
  BY <1>4, <1>7 DEF Longer
<1>14. ASSUME NEW s, InConcept(s, w.sections, w.concept, p)
       PROVE  InConcept(s, secs, None, p + 2)
  <2>1. /\ {"section", "start", "end"} \subseteq DOMAIN s
        /\ s.section \in Nat /\ s.start \in Nat /\ s.end \in Nat /\ s.start <= s.end /\ s.end <= p
    BY <1>14 DEF InConcept
  <2>2. \/ /\ s.section \in 1 .. n /\ w.sections[s.section].start <= s.start
           /\ s.section > 1 /\ s.end <= w.sections[s.section].end
        \/ s.section = n + 1 /\ w.concept <= s.start
    BY <1>4, <1>14 DEF InConcept
  <2>3. CASE /\ s.section \in 1 .. n /\ w.sections[s.section].start <= s.start
             /\ s.section > 1 /\ s.end <= w.sections[s.section].end
    <3>1. secs[s.section] = w.sections[s.section] /\ s.section \in 1 .. Len(secs)
      BY <1>13, <2>3
    <3> QED BY <2>1, <2>3, <3>1 DEF InConcept
  <2>4. CASE s.section = n + 1 /\ w.concept <= s.start
    <3>1. s.section \in 1 .. Len(secs) /\ secs[s.section] = rec /\ s.section > 1
      BY <1>4, <1>13, <2>4
    <3> QED BY <1>12, <2>1, <2>4, <3>1 DEF InConcept
  <2> QED BY <2>2, <2>3, <2>4
<1>15. /\ AllInConcept(w.paragraphs, w.sections, w.concept, p)
       /\ AllInConcept(w.raw, w.sections, w.concept, p)
  BY <1>1, PayloadParts, Zenon
<1>16. /\ AllInConcept(w.paragraphs, secs, None, p + 2) /\ AllInConcept(w.raw, secs, None, p + 2)
  BY <1>14, <1>15, Zenon DEF AllInConcept
<1>17. w.heading = None /\ w.block = None /\ w.facts = <<>> /\ w.sections[1] = Root
  BY DEF PayloadWalk
<1>18. Len(secs) > 0 /\ secs[1] = Root
  BY <1>4, <1>13, <1>17
<1>19. ASSUME NEW i \in 1 .. Len(secs)
       PROVE  /\ secs[i] \in SectionRecords /\ secs[i].parent \in 0 .. Len(secs)
              /\ secs[i].start <= secs[i].end /\ secs[i].end <= p + 2
  <2>1. CASE i \in 1 .. n
    <3>1. /\ w.sections[i] \in SectionRecords /\ w.sections[i].parent \in 0 .. n
          /\ w.sections[i].start <= w.sections[i].end /\ w.sections[i].end <= p
      BY <1>1, <1>4, <2>1, Zenon DEF PayloadWalk
    <3>2. w.sections[i].end \in Nat
      BY <3>1 DEF SectionRecords
    <3>3. secs[i] = w.sections[i]
      BY <1>13, <2>1
    <3> QED BY <1>13, <3>1, <3>2, <3>3
  <2>2. CASE i = n + 1
    BY <1>11, <1>12, <1>13, <2>2
  <2> QED BY <1>13, <2>1, <2>2
<1>20. PayloadWalk(v)
  BY <1>5, <1>8, <1>16, <1>17, <1>18, <1>19, Zenon DEF PayloadWalk, AllInConcept
<1> QED BY <1>9, <1>10, <1>20

(* ------------------------------ the document ----------------------------- *)
\* A range lies in its section.
FitsIn(s, S) ==
  /\ {"section", "start", "end"} \subseteq DOMAIN s /\ s.start \in Nat /\ s.end \in Nat
  /\ s.section \in DOMAIN S
  /\ S[s.section].start \in Nat /\ S[s.section].end \in Nat
  /\ S[s.section].start <= s.start /\ s.end <= S[s.section].end

AllFit(ranges, S) == \A i \in 1 .. Len(ranges) : FitsIn(ranges[i], S)

\* Sections lie in the text, under a section or none.
SectionsFit(S, pos) ==
  \A i \in DOMAIN S : /\ S[i].start \in Nat /\ S[i].start <= S[i].end /\ S[i].end <= pos
                      /\ S[i].parent \in {0} \cup DOMAIN S

(* What a section's record becomes.                                          *)
LEMMA SectionEnds ==
  ASSUME NEW w, ListsOK(w), NEW voc, NEW S, S = SectionsOf(w, voc),
         \A i \in 1 .. Len(w.sections) : w.sections[i] \in SectionRecords
  PROVE  /\ DOMAIN S = 1 .. Len(w.sections)
         /\ \A i \in DOMAIN S :
              /\ S[i].start = w.sections[i].start /\ S[i].parent = w.sections[i].parent
              /\ "concept" \in voc /\ i > 1 => S[i].end = w.sections[i].end
              /\ "concept" \in voc /\ ~(i > 1) => S[i].end = Len(w.text)
              /\ "concept" \notin voc /\ i = Len(w.sections) => S[i].end = Len(w.text)
              /\ "concept" \notin voc /\ i # Len(w.sections) => S[i].end = w.sections[i + 1].start
<1>1. IsList(w.sections)
  BY DEF ListsOK
<1>2. DOMAIN w.sections = 1 .. Len(w.sections)
  BY <1>1 DEF IsList
<1> DEFINE e(i) == SectionEnd(w, voc, i)
<1>3. S = [i \in 1 .. Len(w.sections) |-> [w.sections[i] EXCEPT !.end = e(i)]]
  BY <1>2 DEF SectionsOf, Pos
<1> HIDE DEF e
<1>4. \A i \in 1 .. Len(w.sections) :
        S[i].start = w.sections[i].start /\ S[i].parent = w.sections[i].parent /\ S[i].end = e(i)
  BY <1>3 DEF SectionRecords
<1>5. DOMAIN S = 1 .. Len(w.sections)
  BY <1>3
<1>6. ASSUME NEW i \in 1 .. Len(w.sections)
      PROVE  /\ "concept" \in voc /\ i > 1 => e(i) = w.sections[i].end
             /\ "concept" \in voc /\ ~(i > 1) => e(i) = Len(w.text)
             /\ "concept" \notin voc /\ i = Len(w.sections) => e(i) = Len(w.text)
             /\ "concept" \notin voc /\ i # Len(w.sections) => e(i) = w.sections[i + 1].start
  BY <1>6, Zenon DEF e, SectionEnd, Pos
<1> QED BY <1>4, <1>5, <1>6

(* Sections and ranges of a filing.                                          *)
LEMMA FilingFits ==
  ASSUME NEW w, ListsOK(w), FilingWalk(w), w.nested, NEW voc, "concept" \notin voc,
         NEW S, S = SectionsOf(w, voc)
  PROVE  SectionsFit(S, Len(w.text)) /\ AllFit(w.paragraphs, S) /\ AllFit(w.raw, S)
<1>1. PICK p \in Nat : p = Len(w.text)
  BY DEF ListsOK, IsList
<1>2. PICK n \in Nat : n = Len(w.sections)
  BY DEF ListsOK, IsList
<1>3. SectionsInOrder(w.sections, w.stack, w.heading, p)
  BY <1>1, Zenon DEF FilingWalk
<1>4. /\ \A i \in 1 .. n : w.sections[i] \in SectionRecords
      /\ \A i \in 1 .. n : w.sections[i].start <= p /\ w.sections[i].parent \in 0 .. n
      /\ \A i, j \in 1 .. n : i <= j => w.sections[i].start <= w.sections[j].start
  BY <1>2, <1>3 DEF SectionsInOrder
<1>5. /\ DOMAIN S = 1 .. n
      /\ \A i \in 1 .. n :
           /\ S[i].start = w.sections[i].start /\ S[i].parent = w.sections[i].parent
           /\ S[i].end = IF i = n THEN p ELSE w.sections[i + 1].start
  <2>1. \A i \in 1 .. Len(w.sections) : w.sections[i] \in SectionRecords
    BY <1>2, <1>4
  <2>2. /\ DOMAIN S = 1 .. Len(w.sections)
        /\ \A i \in DOMAIN S :
              /\ S[i].start = w.sections[i].start /\ S[i].parent = w.sections[i].parent
              /\ "concept" \in voc /\ i > 1 => S[i].end = w.sections[i].end
              /\ "concept" \in voc /\ ~(i > 1) => S[i].end = Len(w.text)
              /\ "concept" \notin voc /\ i = Len(w.sections) => S[i].end = Len(w.text)
              /\ "concept" \notin voc /\ i # Len(w.sections) => S[i].end = w.sections[i + 1].start
    BY <2>1, SectionEnds
  <2> QED BY <1>1, <1>2, <2>2
<1>6. \A i \in 1 .. n : w.sections[i].start \in Nat
  BY <1>4 DEF SectionRecords
<1>7. ASSUME NEW i \in 1 .. n
      PROVE  /\ S[i].start \in Nat /\ S[i].end \in Nat /\ S[i].start <= S[i].end /\ S[i].end <= p
             /\ S[i].parent \in 0 .. n
  <2>1. CASE i = n
    BY <1>4, <1>5, <1>6, <1>7, <2>1
  <2>2. CASE i # n
    <3>1. i + 1 \in 1 .. n
      BY <1>7, <2>2
    <3>2. S[i].start = w.sections[i].start /\ S[i].end = w.sections[i + 1].start
      BY <1>5, <1>7, <2>2
    <3>3. /\ w.sections[i].start \in Nat /\ w.sections[i + 1].start \in Nat
          /\ w.sections[i].start <= w.sections[i + 1].start /\ w.sections[i + 1].start <= p
      BY <1>4, <1>6, <1>7, <3>1
    <3>4. S[i].parent \in 0 .. n
      BY <1>4, <1>5, <1>7
    <3> QED BY <3>2, <3>3, <3>4
  <2> QED BY <2>1, <2>2
<1>8. SectionsFit(S, Len(w.text))
  <2>1. 0 .. n \subseteq {0} \cup 1 .. n
    OBVIOUS
  <2> QED BY <1>1, <1>5, <1>7, <2>1 DEF SectionsFit
<1>9. ASSUME NEW s, InSection(s, w.sections, w.heading, p) PROVE FitsIn(s, S)
  <2>1. /\ {"section", "start", "end"} \subseteq DOMAIN s
        /\ s.section \in 1 .. n /\ s.start \in Nat /\ s.end \in Nat
        /\ w.sections[s.section].start <= s.start /\ s.end <= p
        /\ s.section < n => s.end <= w.sections[s.section + 1].start
    BY <1>2, <1>9 DEF InSection
  <2>2. S[s.section].start = w.sections[s.section].start
    BY <1>5, <2>1
  <2>3. s.end <= S[s.section].end
    <3>1. CASE s.section = n
      BY <1>5, <2>1, <3>1
    <3>2. CASE s.section # n
      BY <1>5, <2>1, <3>2
    <3> QED BY <3>1, <3>2
  <2>4. S[s.section].start \in Nat /\ S[s.section].end \in Nat
    BY <1>7, <2>1
  <2> QED BY <1>5, <2>1, <2>2, <2>3, <2>4 DEF FitsIn
<1>10. Nests(w.sections, w.heading, p, w.block, w.paragraphs, w.facts, w.raw)
  BY <1>1, Zenon DEF FilingWalk
<1>11. AllFit(w.paragraphs, S) /\ AllFit(w.raw, S)
  BY <1>9, <1>10, Zenon DEF Nests, AllInSection, AllFit
<1> QED BY <1>8, <1>11

(* Sections and ranges of a payload, once its last concept is closed.        *)
LEMMA PayloadFits ==
  ASSUME NEW w, ListsOK(w), PayloadWalk(w), w.concept = None, NEW voc, "concept" \in voc,
         NEW S, S = SectionsOf(w, voc)
  PROVE  SectionsFit(S, Len(w.text)) /\ AllFit(w.paragraphs, S) /\ AllFit(w.raw, S)
<1>1. PICK p \in Nat : p = Len(w.text)
  BY DEF ListsOK, IsList
<1>2. PICK n \in Nat : n = Len(w.sections)
  BY DEF ListsOK, IsList
<1>3. \A i \in 1 .. n :
        /\ w.sections[i] \in SectionRecords /\ w.sections[i].parent \in 0 .. n
        /\ w.sections[i].start <= w.sections[i].end /\ w.sections[i].end <= p
  BY <1>1, <1>2, Zenon DEF PayloadWalk
<1>4. /\ DOMAIN S = 1 .. n
      /\ \A i \in 1 .. n :
           /\ S[i].start = w.sections[i].start /\ S[i].parent = w.sections[i].parent
           /\ S[i].end = IF i > 1 THEN w.sections[i].end ELSE p
  <2>1. \A i \in 1 .. Len(w.sections) : w.sections[i] \in SectionRecords
    BY <1>2, <1>3
  <2>2. /\ DOMAIN S = 1 .. Len(w.sections)
        /\ \A i \in DOMAIN S :
              /\ S[i].start = w.sections[i].start /\ S[i].parent = w.sections[i].parent
              /\ "concept" \in voc /\ i > 1 => S[i].end = w.sections[i].end
              /\ "concept" \in voc /\ ~(i > 1) => S[i].end = Len(w.text)
              /\ "concept" \notin voc /\ i = Len(w.sections) => S[i].end = Len(w.text)
              /\ "concept" \notin voc /\ i # Len(w.sections) => S[i].end = w.sections[i + 1].start
    BY <2>1, SectionEnds
  <2> QED BY <1>1, <1>2, <2>2
<1>5. \A i \in 1 .. n : w.sections[i].start \in Nat /\ w.sections[i].end \in Nat
  BY <1>3 DEF SectionRecords
<1>6. ASSUME NEW i \in 1 .. n
      PROVE  /\ S[i].start \in Nat /\ S[i].end \in Nat /\ S[i].start <= S[i].end /\ S[i].end <= p
             /\ S[i].parent \in 0 .. n
  <2>1. CASE i > 1
    BY <1>3, <1>4, <1>5, <1>6, <2>1
  <2>2. CASE ~(i > 1)
    BY <1>3, <1>4, <1>5, <1>6, <2>2
  <2> QED BY <2>1, <2>2
<1>7. SectionsFit(S, Len(w.text))
  <2>1. 0 .. n \subseteq {0} \cup 1 .. n
    OBVIOUS
  <2> QED BY <1>1, <1>4, <1>6, <2>1 DEF SectionsFit
<1>8. ASSUME NEW s, InConcept(s, w.sections, None, p) PROVE FitsIn(s, S)
  <2>1. /\ {"section", "start", "end"} \subseteq DOMAIN s
        /\ s.section \in 1 .. n /\ s.start \in Nat /\ s.end \in Nat
        /\ w.sections[s.section].start <= s.start
        /\ s.section > 1 /\ s.end <= w.sections[s.section].end
    BY <1>2, <1>8 DEF InConcept
  <2>2. /\ S[s.section].start = w.sections[s.section].start
        /\ S[s.section].end = w.sections[s.section].end
    BY <1>4, <2>1
  <2>3. S[s.section].start \in Nat /\ S[s.section].end \in Nat
    BY <1>6, <2>1
  <2> QED BY <1>4, <2>1, <2>2, <2>3 DEF FitsIn
<1>9. /\ AllInConcept(w.paragraphs, w.sections, None, p) /\ AllInConcept(w.raw, w.sections, None, p)
  BY <1>1, PayloadParts, Zenon
<1>10. AllFit(w.paragraphs, S) /\ AllFit(w.raw, S)
  BY <1>8, <1>9, Zenon DEF AllInConcept, AllFit
<1> QED BY <1>7, <1>10

(* A trimmed range lies in the range.                                        *)
LEMMA TrimmedFits ==
  ASSUME NEW w, NEW s, NEW S, FitsIn(s, S), NEW t, t = Trimmed(w, s)
  PROVE  /\ t.section \in DOMAIN S /\ t.start \in Nat /\ t.end \in Nat
         /\ t.start < t.end => S[t.section].start <= t.start /\ t.end <= S[t.section].end
<1>1. PICK a, b \in Nat : a = s.start /\ b = s.end
  BY DEF FitsIn
<1>2. PICK ink : ink = {i \in a + 1 .. b : w.text[i] = "w"}
  OBVIOUS
<1>3. {"section", "start", "end"} \subseteq DOMAIN s
  BY DEF FitsIn
<1>4. CASE ink = {}
  <2>1. t = [s EXCEPT !.end = a]
    BY <1>1, <1>2, <1>4 DEF Trimmed
  <2>2. t.section = s.section /\ t.start = a /\ t.end = a
    BY <1>1, <1>3, <2>1
  <2> QED BY <2>2 DEF FitsIn
<1>5. CASE ink # {}
  <2>1. ink \subseteq Nat /\ ink \subseteq 0 .. b
    BY <1>1, <1>2
  <2>2. PICK lo : lo = CHOOSE i \in ink : \A j \in ink : i <= j
    OBVIOUS
  <2>3. PICK hi : hi = CHOOSE i \in ink : \A j \in ink : j <= i
    OBVIOUS
  <2>4. lo \in ink
    BY <1>5, <2>1, <2>2, LeastNatural, Zenon
  <2>5. hi \in ink
    <3>1. Max(ink) \in ink /\ \A y \in ink : Max(ink) >= y
      BY <1>5, <2>1, MaxOfNaturals
    <3>2. \A x, y \in ink : x >= y => y <= x
      BY <2>1
    <3>3. \E i \in ink : \A j \in ink : j <= i
      BY <3>1, <3>2, Zenon
    <3> QED BY <2>3, <3>3, Zenon
  <2>6. t = [s EXCEPT !.start = lo - 1, !.end = hi]
    BY <1>1, <1>2, <1>5, <2>2, <2>3, Zenon DEF Trimmed
  <2>7. lo \in a + 1 .. b /\ hi \in a + 1 .. b
    BY <1>2, <2>4, <2>5
  <2>8. t.section = s.section /\ t.start = lo - 1 /\ t.end = hi
    BY <1>3, <2>6
  <2>9. /\ s.section \in DOMAIN S /\ S[s.section].start \in Nat /\ S[s.section].end \in Nat
        /\ S[s.section].start <= a /\ b <= S[s.section].end
    BY <1>1 DEF FitsIn
  <2> QED BY <2>7, <2>8, <2>9
<1> QED BY <1>4, <1>5

(* The facts of a document, in their order, are kept ranges without blanks.  *)
LEMMA FactsAreTrimmed ==
  ASSUME NEW w, ListsOK(w), NEW S, AllFit(w.raw, S), NEW f, f = FactsInOrder(w)
  PROVE  \E n \in Nat : /\ DOMAIN f = 1 .. n
                        /\ \A k \in 1 .. n : \E i \in 1 .. Len(w.raw) :
                             f[k] = Trimmed(w, w.raw[i]) /\ Kept(f[k])
<1>1. PICK m \in Nat : m = Len(w.raw) /\ DOMAIN w.raw = 1 .. m
  BY DEF ListsOK, IsList
<1> DEFINE kept == KeptFacts(w)
<1>3. kept \subseteq 1 .. m /\ \A i \in kept : Kept(Trimmed(w, w.raw[i]))
  BY <1>1, Zenon DEF KeptFacts
<1>4. IsFiniteSet(kept)
  <2>1. IsFiniteSet(1 .. m)
    BY FS_Interval
  <2> QED BY <1>3, <2>1, FS_Subset
<1>5. PICK n \in Nat : n = Cardinality(kept)
  BY <1>4, FS_CardinalityType
<1> DEFINE at(k) == CHOOSE x \in kept : Cardinality({y \in kept : Precedes(w, y, x)}) = k - 1
<1>6. PICK order : order = FactOrder(w)
  OBVIOUS
<1>7. /\ order = [k \in 1 .. n |-> at(k)]
      /\ f = [k \in DOMAIN order |-> Trimmed(w, w.raw[order[k]])]
  <2>1. order = [k \in 1 .. Cardinality(kept) |-> at(k)]
    BY <1>6, Zenon DEF FactOrder, SortedBy
  <2> HIDE DEF at
  <2>2. order = [k \in 1 .. n |-> at(k)]
    BY <1>5, <2>1
  <2>3. f = [k \in DOMAIN order |-> Trimmed(w, w.raw[order[k]])]
    BY <1>6, Zenon DEF FactsInOrder
  <2> QED BY <2>2, <2>3
<1> HIDE DEF at
<1>8. PICK R : R = {p \in kept \X kept : Precedes(w, p[1], p[2])}
  OBVIOUS
<1>9. \A x, y \in kept : <<x, y>> \in R <=> Precedes(w, x, y)
  BY <1>8
<1>10. OrdersStrictly(R, kept)
  <2>1. PICK a, b : a = [i \in 1 .. m |-> w.raw[i].start] /\ b = [i \in 1 .. m |-> w.raw[i].end]
    OBVIOUS
  <2>2. \A i \in 1 .. m : w.raw[i].start \in Nat /\ w.raw[i].end \in Nat
    BY <1>1, Zenon DEF AllFit, FitsIn
  <2>3. \A i \in kept : i \in Int /\ a[i] \in Int /\ b[i] \in Int
    BY <1>3, <2>1, <2>2
  <2>4. \A i \in kept : a[i] = w.raw[i].start /\ b[i] = w.raw[i].end
    BY <1>3, <2>1
  <2>5. \A x, y \in kept :
          <<x, y>> \in R <=> a[x] < a[y] \/ (a[x] = a[y] /\ (b[x] > b[y] \/ (b[x] = b[y] /\ x < y)))
    <3>1. SUFFICES ASSUME NEW x \in kept, NEW y \in kept
                   PROVE  Precedes(w, x, y) <=>
                            a[x] < a[y] \/ (a[x] = a[y] /\ (b[x] > b[y] \/ (b[x] = b[y] /\ x < y)))
      BY <1>9
    <3> QED BY <2>4 DEF Precedes
  <2> QED BY <2>3, <2>5 DEF OrdersStrictly
<1>11. PICK B : B = Before(R, kept)
  OBVIOUS
<1>12. \A x \in kept : {y \in kept : Precedes(w, y, x)} = B[x]
  BY <1>9, <1>11 DEF Before
<1>13. ASSUME NEW k \in 1 .. n, NEW x \in kept, Cardinality(B[x]) = k - 1
       PROVE  order[k] \in kept /\ Cardinality(B[order[k]]) = k - 1
  <2>1. Cardinality({y \in kept : Precedes(w, y, x)}) = k - 1
    BY <1>12, <1>13
  <2>2. order[k] = at(k)
    BY <1>7
  <2>3. order[k] \in kept /\ Cardinality({y \in kept : Precedes(w, y, order[k])}) = k - 1
    BY <2>1, <2>2, Zenon DEF at
  <2> QED BY <1>12, <2>3
<1>14. PlacedBy(order, B, kept)
  <2>1. \A k \in 1 .. n : \A x \in kept :
          Cardinality(B[x]) = k - 1 => order[k] \in kept /\ Cardinality(B[order[k]]) = k - 1
    BY <1>13
  <2>2. order = [k \in 1 .. n |-> order[k]]
    BY <1>7
  <2> QED BY <1>5, <2>1, <2>2 DEF PlacedBy
<1>15. order \in [1 .. n -> kept]
  BY <1>4, <1>5, <1>10, <1>11, <1>14, RanksOrder DEF ListsInOrder
<1>16. DOMAIN f = 1 .. n /\ \A k \in 1 .. n : f[k] = Trimmed(w, w.raw[order[k]]) /\ order[k] \in kept
  BY <1>7, <1>15
<1>17. ASSUME NEW k \in 1 .. n
       PROVE  \E i \in 1 .. Len(w.raw) : f[k] = Trimmed(w, w.raw[i]) /\ Kept(f[k])
  <2>1. order[k] \in 1 .. Len(w.raw) /\ f[k] = Trimmed(w, w.raw[order[k]])
    BY <1>1, <1>3, <1>16
  <2>2. Kept(f[k])
    BY <1>3, <1>16, <2>1, Zenon
  <2> QED BY <2>1, <2>2, Zenon
<1> QED BY <1>16, <1>17

(* Every fact covers a span.                                                 *)
LEMMA FactsResolve ==
  ASSUME NEW w, NEW n \in Nat, NEW f, DOMAIN f = 1 .. n, NEW k \in 1 .. n,
         NEW spans, spans = ParagraphSpans(w) \cup FactSpans(w, f)
  PROVE  \E s \in spans : SameRange(s, f[k])
<1>1. CASE \E s \in ParagraphSpans(w) : SameRange(s, f[k])
  BY <1>1, Zenon
<1>2. CASE ~\E s \in ParagraphSpans(w) : SameRange(s, f[k])
  <2>1. PICK T : T = {j \in 1 .. n : SameRange(f[j], f[k])}
    OBVIOUS
  <2>2. k \in T
    BY <2>1 DEF SameRange
  <2>3. PICK j \in T : \A y \in T : j <= y
    <3>1. T \subseteq Nat
      BY <2>1
    <3> QED BY <2>2, <3>1, LeastNatural
  <2>4. j \in 1 .. n /\ SameRange(f[j], f[k])
    BY <2>1
  <2>5. ~\E s \in ParagraphSpans(w) : SameRange(s, f[j])
    BY <1>2, <2>4, Zenon DEF SameRange
  <2>6. ASSUME NEW i \in 1 .. j - 1, SameRange(f[i], f[j]) PROVE FALSE
    <3>1. i \in 1 .. n /\ ~(j <= i)
      BY <2>4
    <3>2. SameRange(f[i], f[k])
      BY <2>4, <2>6, Zenon DEF SameRange
    <3> QED BY <2>1, <2>3, <3>1, <3>2
  <2>7. j \in DOMAIN f
    BY <2>4
  <2>8. f[j] \in FactSpans(w, f)
    BY <2>5, <2>6, <2>7, Zenon DEF FactSpans
  <2> QED BY <2>4, <2>8, Zenon
<1> QED BY <1>1, <1>2

(* What is filed under a section or none opens in the reader.                *)
LEMMA DocumentOpens ==
  ASSUME WalkInv(walk, vocabulary), walk.nested, walk.concept = None,
         parsed = Document(walk, vocabulary)
  PROVE  Opens
<1>1. PICK S : S = SectionsOf(walk, vocabulary)
  OBVIOUS
<1>2. PICK f : f = FactsInOrder(walk)
  OBVIOUS
<1>3. PICK spans : spans = ParagraphSpans(walk) \cup FactSpans(walk, f)
  OBVIOUS
<1>4. parsed = [status |-> "parsed", sections |-> S, facts |-> f, spans |-> spans]
  BY <1>1, <1>2, <1>3, Zenon DEF Document
<1>5. parsed.sections = S /\ parsed.facts = f /\ parsed.spans = spans
  BY <1>4
<1>6. ListsOK(walk)
  BY Zenon DEF WalkInv
<1>7. SectionsFit(S, Len(walk.text)) /\ AllFit(walk.paragraphs, S) /\ AllFit(walk.raw, S)
  <2>1. CASE "concept" \in vocabulary
    <3>1. PayloadWalk(walk)
      BY <2>1, Zenon DEF WalkInv
    <3> QED BY <1>1, <1>6, <2>1, <3>1, PayloadFits, Zenon
  <2>2. CASE "concept" \notin vocabulary
    <3>1. FilingWalk(walk)
      BY <2>2, Zenon DEF WalkInv
    <3> QED BY <1>1, <1>6, <2>2, <3>1, FilingFits, Zenon
  <2> QED BY <2>1, <2>2
<1>8. PICK n \in Nat : /\ DOMAIN f = 1 .. n
                       /\ \A k \in 1 .. n : \E i \in 1 .. Len(walk.raw) :
                            f[k] = Trimmed(walk, walk.raw[i]) /\ Kept(f[k])
  BY <1>2, <1>6, <1>7, FactsAreTrimmed
<1>9. ASSUME NEW s, NEW t, FitsIn(s, S), t = Trimmed(walk, s), t.start < t.end
      PROVE  SpanFits(t)
  <2>1. /\ t.section \in DOMAIN S
        /\ S[t.section].start <= t.start /\ t.end <= S[t.section].end
    BY <1>9, TrimmedFits, Zenon
  <2> QED BY <1>5, <2>1, Zenon DEF SpanFits
<1>10. ASSUME NEW t \in ParagraphSpans(walk) PROVE SpanFits(t)
  <2>1. DOMAIN walk.paragraphs = 1 .. Len(walk.paragraphs)
    BY <1>6 DEF ListsOK, IsList
  <2>2. PICK i \in DOMAIN walk.paragraphs : t = Trimmed(walk, walk.paragraphs[i]) /\ t.start < t.end
    BY <1>10, Zenon DEF ParagraphSpans
  <2>3. FitsIn(walk.paragraphs[i], S)
    BY <1>7, <2>1, <2>2, Zenon DEF AllFit
  <2> QED BY <1>9, <2>2, <2>3, Zenon
<1>11. ASSUME NEW t \in FactSpans(walk, f) PROVE SpanFits(t)
  <2>1. PICK k \in DOMAIN f : t = f[k]
    BY <1>11, Zenon DEF FactSpans
  <2>2. k \in 1 .. n
    BY <1>8, <2>1
  <2>3. PICK i \in 1 .. Len(walk.raw) : f[k] = Trimmed(walk, walk.raw[i]) /\ Kept(f[k])
    BY <1>8, <2>2, Zenon
  <2>4. FitsIn(walk.raw[i], S)
    BY <1>7, <2>3, Zenon DEF AllFit
  <2>5. t.start < t.end
    BY <2>1, <2>3, Zenon DEF Kept
  <2> QED BY <1>9, <2>1, <2>3, <2>4, <2>5, Zenon
<1>12. \A t \in spans : SpanFits(t)
  BY <1>3, <1>10, <1>11, Zenon
<1>13. \A k \in DOMAIN f : FactFits(f[k])
  BY <1>3, <1>5, <1>8, FactsResolve, Zenon DEF FactFits
<1>14. \A i \in DOMAIN S : SectionFits(S[i]) /\ S[i].parent \in {0} \cup DOMAIN S
  BY <1>7 DEF SectionsFit, SectionFits, Pos
<1> QED BY <1>5, <1>12, <1>13, <1>14, Zenon DEF Opens

(* ---------------------------- steps of a filing --------------------------- *)
FilingInv(w) == ListsOK(w) /\ FilingWalk(w) /\ RowsKept(w.tables, w.closed, w.rows)
PayloadInv(w) == ListsOK(w) /\ PayloadWalk(w) /\ RowsKept(w.tables, w.closed, w.rows)

LEMMA TablesStay ==
  ASSUME NEW w, NEW v, SameTables(v, w), RowsKept(w.tables, w.closed, w.rows)
  PROVE  RowsKept(v.tables, v.closed, v.rows)
BY Zenon DEF SameTables

LEMMA PlacesStay ==
  ASSUME NEW w, FilingInv(w), NEW v, IsWalk(v), SamePlaces(v, w), IsList(v.text),
         Len(w.text) <= Len(v.text), RowsKept(v.tables, v.closed, v.rows)
  PROVE  FilingInv(v)
BY TextStep, Zenon DEF FilingInv

LEMMA NewLineInv ==
  ASSUME NEW w, FilingInv(w)
  PROVE  FilingInv(OnNewLine(w))
<1>1. IsWalk(w) /\ IsList(w.text)
  BY DEF FilingInv, ListsOK
<1>2. PICK v : v = OnNewLine(w)
  OBVIOUS
<1>3. /\ IsWalk(v) /\ SamePlaces(v, w) /\ SameTables(v, w)
      /\ IsList(v.text) /\ Len(w.text) <= Len(v.text)
  BY <1>1, <1>2, NewLineStep
<1>4. RowsKept(v.tables, v.closed, v.rows)
  BY <1>3, TablesStay, Zenon DEF FilingInv
<1> QED BY <1>2, <1>3, <1>4, PlacesStay

LEMMA DataInv ==
  ASSUME NEW w, FilingInv(w)
  PROVE  FilingInv([w EXCEPT !.text = AppendData(@)])
<1>1. IsWalk(w) /\ IsList(w.text)
  BY DEF FilingInv, ListsOK
<1>2. PICK v : v = [w EXCEPT !.text = AppendData(w.text)]
  OBVIOUS
<1>3. IsWalk(v) /\ v.text = AppendData(w.text)
  BY <1>1, <1>2 DEF IsWalk, WalkFields
<1>4. SamePlaces(v, w)
  BY <1>1, <1>2 DEF IsWalk, WalkFields, SamePlaces
<1>5. SameTables(v, w)
  BY <1>1, <1>2 DEF IsWalk, WalkFields, SameTables
<1>6. IsList(v.text) /\ Len(w.text) <= Len(v.text)
  BY <1>1, <1>3, TextGrows
<1>7. RowsKept(v.tables, v.closed, v.rows)
  BY <1>5, TablesStay, Zenon DEF FilingInv
<1> QED BY <1>2, <1>3, <1>4, <1>6, <1>7, PlacesStay

(* What is read in ix:header says nothing of places or tables.               *)
LEMMA HeaderInv ==
  ASSUME NEW w, FilingInv(w), NEW x,
         NEW v, \/ v = [w EXCEPT !.inHeader = x] \/ v = [w EXCEPT !.context = x]
                \/ v = [w EXCEPT !.unit = x] \/ v = [w EXCEPT !.broken = x]
  PROVE  FilingInv(v)
<1>1. IsWalk(w) /\ IsList(w.text) /\ Len(w.text) <= Len(w.text)
  BY DEF FilingInv, ListsOK, IsList
<1>2. IsWalk(v) /\ v.text = w.text
  BY <1>1 DEF IsWalk, WalkFields
<1>3. SamePlaces(v, w)
  BY <1>1 DEF IsWalk, WalkFields, SamePlaces
<1>4. SameTables(v, w)
  BY <1>1 DEF IsWalk, WalkFields, SameTables
<1>5. RowsKept(v.tables, v.closed, v.rows)
  BY <1>4, TablesStay, Zenon DEF FilingInv
<1> QED BY <1>1, <1>2, <1>3, <1>5, PlacesStay

(* A hook that changes the tables only.                                      *)
LEMMA TablesChange ==
  ASSUME NEW w, FilingInv(w), NEW ts, NEW cs, NEW rows, RowsKept(ts, cs, rows),
         NEW v, \/ v = [w EXCEPT !.tables = ts, !.closed = cs] /\ rows = w.rows
                \/ v = [w EXCEPT !.tables = ts, !.rows = rows] /\ cs = w.closed
                \/ v = [w EXCEPT !.tables = ts] /\ cs = w.closed /\ rows = w.rows
  PROVE  FilingInv(v)
<1>1. IsWalk(w) /\ IsList(w.text) /\ Len(w.text) <= Len(w.text)
  BY DEF FilingInv, ListsOK, IsList
<1>2. IsWalk(v) /\ v.text = w.text
  BY <1>1 DEF IsWalk, WalkFields
<1>3. SamePlaces(v, w)
  BY <1>1 DEF IsWalk, WalkFields, SamePlaces
<1>4. v.tables = ts /\ v.closed = cs /\ v.rows = rows
  BY <1>1 DEF IsWalk, WalkFields
<1>5. RowsKept(v.tables, v.closed, v.rows)
  BY <1>4, Zenon
<1> QED BY <1>1, <1>2, <1>3, <1>5, PlacesStay

LEMMA PushInv ==
  ASSUME NEW w, FilingInv(w)
  PROVE  FilingInv(PushTable(w))
<1>1. PICK t : t = [rows |-> 0, headers |-> FALSE, row |-> "none"]
  OBVIOUS
<1>2. RowsKept(w.tables, w.closed, w.rows)
  BY Zenon DEF FilingInv
<1>3. RowsKept(Append(w.tables, t), w.closed, w.rows)
  BY <1>1, <1>2, TablePushed, Zenon
<1>4. PushTable(w) = [w EXCEPT !.tables = Append(w.tables, t)]
  BY <1>1, Zenon DEF PushTable
<1> QED BY <1>3, <1>4, TablesChange, Zenon

LEMMA InTableInv ==
  ASSUME NEW w, FilingInv(w), w.tables # <<>>, NEW row \in {"empty", "header", "body"}
  PROVE  FilingInv(InTable(w, row))
<1>1. RowsKept(w.tables, w.closed, w.rows)
  BY Zenon DEF FilingInv
<1>2. PICK ts : ts = [w.tables EXCEPT ![Len(w.tables)].row = row]
  OBVIOUS
<1>3. RowsKept(ts, w.closed, w.rows)
  BY <1>1, <1>2, RowMarked, Zenon
<1>4. InTable(w, row) = [w EXCEPT !.tables = ts]
  BY <1>2, Zenon DEF InTable
<1> QED BY <1>3, <1>4, TablesChange, Zenon

LEMMA CloseRowInv ==
  ASSUME NEW w, FilingInv(w), w.tables # <<>>
  PROVE  FilingInv([w EXCEPT !.tables = EndRow(@),
                             !.rows = IF IsBlankHeader(Last(w.tables)) THEN @ ELSE @ + 1])
<1>1. RowsKept(w.tables, w.closed, w.rows)
  BY Zenon DEF FilingInv
<1>2. PICK ts : ts = EndRow(w.tables)
  OBVIOUS
<1>3. PICK rows : rows = IF IsBlankHeader(Last(w.tables)) THEN w.rows ELSE w.rows + 1
  OBVIOUS
<1>4. RowsKept(ts, w.closed, rows)
  BY <1>1, <1>2, <1>3, RowClosed, Zenon DEF EndRow
<1>5. FilingInv([w EXCEPT !.tables = ts, !.rows = rows])
  BY <1>4, TablesChange, Zenon
<1> QED BY <1>2, <1>3, <1>5, Zenon

LEMMA CloseTableInv ==
  ASSUME NEW w, FilingInv(w), w.tables # <<>>
  PROVE  FilingInv([w EXCEPT !.tables = Front(@), !.closed = Append(@, Last(w.tables))])
<1>1. RowsKept(w.tables, w.closed, w.rows)
  BY Zenon DEF FilingInv
<1>2. RowsKept(Front(w.tables), Append(w.closed, Last(w.tables)), w.rows)
  BY <1>1, TablePopped, Zenon
<1> QED BY <1>2, TablesChange, Zenon

(* ------------------------------- the actions ------------------------------ *)
(* A tag of a filing, and what is left to show of it.                         *)
LEMMA FilingTag ==
  ASSUME ParseInv, NEW name, Tag(name), name \notin {"concept", "/concept", "observation"}
  PROVE  FilingInv(walk) /\ (FilingInv(walk') => ParseInv')
<1>1. "concept" \notin vocabulary
  <2>1. name \in vocabulary /\ vocabulary \in Vocabularies
    BY DEF Tag, ParseInv
  <2> QED BY <2>1, ParseAssumption
<1>2. FilingInv(walk)
  BY <1>1, Zenon DEF ParseInv, WalkInv, FilingInv
<1>3. /\ parsed.status = "none" /\ vocabulary' = vocabulary /\ parsed' = parsed /\ served' = served
  BY Zenon DEF Tag
<1>4. "none" # "parsed" /\ "none" # "integrity_error"
  OBVIOUS
<1>5. vocabulary \in Vocabularies /\ served = "none"
  BY <1>3, <1>4, Zenon DEF ParseInv
<1>6. ASSUME FilingInv(walk') PROVE ParseInv'
  <2>1. WalkInv(walk', vocabulary')
    BY <1>1, <1>3, <1>6, Zenon DEF WalkInv, FilingInv
  <2> QED BY <1>3, <1>4, <1>5, <2>1, Zenon DEF ParseInv
<1> QED BY <1>2, <1>6

(* A step of a payload, likewise.                                             *)
LEMMA PayloadTag ==
  ASSUME ParseInv, NEW name, Tag(name), name = "concept" \/ walk.concept # None
  PROVE  PayloadInv(walk) /\ (PayloadInv(walk') => ParseInv')
<1>1. "concept" \in vocabulary
  <2>1. CASE name = "concept"
    BY <2>1, Zenon DEF Tag
  <2>2. CASE walk.concept # None
    BY <2>2, Zenon DEF ParseInv, WalkInv, FilingWalk
  <2> QED BY <2>1, <2>2
<1>2. PayloadInv(walk)
  BY <1>1, Zenon DEF ParseInv, WalkInv, PayloadInv
<1>3. /\ parsed.status = "none" /\ vocabulary' = vocabulary /\ parsed' = parsed /\ served' = served
  BY Zenon DEF Tag
<1>4. "none" # "parsed" /\ "none" # "integrity_error"
  OBVIOUS
<1>5. vocabulary \in Vocabularies /\ served = "none"
  BY <1>3, <1>4, Zenon DEF ParseInv
<1>6. ASSUME PayloadInv(walk') PROVE ParseInv'
  <2>1. WalkInv(walk', vocabulary')
    BY <1>1, <1>3, <1>6, Zenon DEF WalkInv, PayloadInv
  <2> QED BY <1>3, <1>4, <1>5, <2>1, Zenon DEF ParseInv
<1> QED BY <1>2, <1>6

(* A hook of the visible document.                                            *)
LEMMA HookStep ==
  ASSUME ParseInv, NEW name, Tag(name), name \notin {"concept", "/concept", "observation"},
         walk' = walk \/ (FilingInv(walk) => FilingInv(walk'))
  PROVE  ParseInv'
BY FilingTag, Zenon

LEMMA DataStep ==
  ASSUME ParseInv, Data
  PROVE  ParseInv'
<1>1. Tag("text") /\ (walk' = walk \/ walk' = [walk EXCEPT !.text = AppendData(@)])
  BY Zenon DEF Data, Hook
<1>2. "text" \notin {"concept", "/concept", "observation"}
  OBVIOUS
<1>3. ASSUME FilingInv(walk) PROVE FilingInv([walk EXCEPT !.text = AppendData(@)])
  BY <1>3, DataInv, Zenon
<1> QED BY <1>1, <1>2, <1>3, HookStep, Zenon

LEMMA HeadingStep ==
  ASSUME ParseInv, NEW level \in Levels, OpenHeading(level)
  PROVE  ParseInv'
<1>1. Tag("h") /\ (walk' = walk \/ walk' = [OnNewLine(walk) EXCEPT !.heading = Pos(OnNewLine(walk)), !.level = level,
      !.nested = @ /\ OnNewLine(walk).block = None /\ OnNewLine(walk).facts = <<>>
                   /\ OnNewLine(walk).heading = None])
  BY Zenon DEF OpenHeading, Hook
<1>2. "h" \notin {"concept", "/concept", "observation"}
  OBVIOUS
<1>3. ASSUME FilingInv(walk) PROVE FilingInv([OnNewLine(walk) EXCEPT !.heading = Pos(OnNewLine(walk)), !.level = level,
      !.nested = @ /\ OnNewLine(walk).block = None /\ OnNewLine(walk).facts = <<>>
                   /\ OnNewLine(walk).heading = None])
  <2>1. PICK w, v : w = OnNewLine(walk) /\ v = [w EXCEPT !.heading = Pos(w), !.level = level,
           !.nested = @ /\ w.block = None /\ w.facts = <<>> /\ w.heading = None]
    BY Zenon
  <2>2. level \in Nat
    BY ParseAssumption
  <2>3. FilingInv(w)
    BY <1>3, <2>1, NewLineInv, Zenon
  <2>4. ListsOK(v) /\ FilingWalk(v) /\ SameTables(v, w)
    BY <2>1, <2>2, <2>3, OpenHeadingStep, Zenon DEF FilingInv
  <2> QED BY <2>1, <2>3, <2>4, TablesStay, Zenon DEF FilingInv
<1> QED BY <1>1, <1>2, <1>3, HookStep, Zenon

LEMMA EndHeadingStep ==
  ASSUME ParseInv, CloseHeading
  PROVE  ParseInv'
<1>1. Tag("/h") /\ (walk' = walk \/ walk' = OnNewLine(
       IF walk.heading = None THEN walk
       ELSE IF IsBlank(walk.text, walk.heading, Pos(walk)) THEN [walk EXCEPT !.heading = None]
       ELSE WithSection(walk)))
  BY Zenon DEF CloseHeading, Hook
<1>2. "/h" \notin {"concept", "/concept", "observation"}
  OBVIOUS
<1>3. ASSUME FilingInv(walk) PROVE FilingInv(OnNewLine(
       IF walk.heading = None THEN walk
       ELSE IF IsBlank(walk.text, walk.heading, Pos(walk)) THEN [walk EXCEPT !.heading = None]
       ELSE WithSection(walk)))
  <2>1. ASSUME walk.heading # None PROVE FilingInv([walk EXCEPT !.heading = None])
    <3>1. PICK v : v = [walk EXCEPT !.heading = None]
      BY Zenon
    <3>2. ListsOK(v) /\ FilingWalk(v) /\ SameTables(v, walk)
      BY <1>3, <2>1, <3>1, BlankHeadingStep, Zenon DEF FilingInv
    <3> QED BY <1>3, <3>1, <3>2, TablesStay, Zenon DEF FilingInv
  <2>2. ASSUME walk.heading # None PROVE FilingInv(WithSection(walk))
    <3>1. PICK v : v = WithSection(walk)
      BY Zenon
    <3>2. ListsOK(v) /\ FilingWalk(v) /\ SameTables(v, walk)
      BY <1>3, <2>2, <3>1, SectionStep, Zenon DEF FilingInv
    <3> QED BY <1>3, <3>1, <3>2, TablesStay, Zenon DEF FilingInv
  <2> QED BY <1>3, <2>1, <2>2, NewLineInv, Zenon
<1> QED BY <1>1, <1>2, <1>3, HookStep, Zenon

LEMMA ParagraphStep ==
  ASSUME ParseInv, OpenParagraph
  PROVE  ParseInv'
<1>1. Tag("p") /\ (walk' = walk \/ walk' = [OnNewLine(walk) EXCEPT !.block = Pos(OnNewLine(walk)), !.nested = @ /\ OnNewLine(walk).heading = None])
  BY Zenon DEF OpenParagraph, Hook
<1>2. "p" \notin {"concept", "/concept", "observation"}
  OBVIOUS
<1>3. ASSUME FilingInv(walk) PROVE FilingInv([OnNewLine(walk) EXCEPT !.block = Pos(OnNewLine(walk)), !.nested = @ /\ OnNewLine(walk).heading = None])
  <2>1. PICK w, v : /\ w = OnNewLine(walk)
                    /\ v = [w EXCEPT !.block = Pos(w), !.nested = @ /\ w.heading = None]
    BY Zenon
  <2>2. FilingInv(w)
    BY <1>3, <2>1, NewLineInv, Zenon
  <2>3. ListsOK(v) /\ FilingWalk(v) /\ SameTables(v, w)
    BY <2>1, <2>2, OpenParagraphStep, Zenon DEF FilingInv
  <2> QED BY <2>1, <2>2, <2>3, TablesStay, Zenon DEF FilingInv
<1> QED BY <1>1, <1>2, <1>3, HookStep, Zenon

LEMMA EndParagraphStep ==
  ASSUME ParseInv, CloseParagraph
  PROVE  ParseInv'
<1>1. Tag("/p") /\ (walk' = walk \/ walk' = OnNewLine(
       IF walk.block = None THEN walk
       ELSE [walk EXCEPT
           !.block = None,
           !.paragraphs = IF Pos(walk) = walk.block THEN @
                          ELSE Append(@, [section |-> Last(walk.stack),
                                          start |-> walk.block, end |-> Pos(walk)])]))
  BY Zenon DEF CloseParagraph, Hook
<1>2. "/p" \notin {"concept", "/concept", "observation"}
  OBVIOUS
<1>3. ASSUME FilingInv(walk) PROVE FilingInv(OnNewLine(
       IF walk.block = None THEN walk
       ELSE [walk EXCEPT
           !.block = None,
           !.paragraphs = IF Pos(walk) = walk.block THEN @
                          ELSE Append(@, [section |-> Last(walk.stack),
                                          start |-> walk.block, end |-> Pos(walk)])]))
  <2>1. PICK v : v = [walk EXCEPT
           !.block = None,
           !.paragraphs = IF Pos(walk) = walk.block THEN @
                          ELSE Append(@, [section |-> Last(walk.stack),
                                          start |-> walk.block, end |-> Pos(walk)])]
    BY Zenon
  <2>2. ASSUME walk.block # None PROVE FilingInv(v)
    <3>1. ListsOK(v) /\ FilingWalk(v) /\ SameTables(v, walk)
      BY <1>3, <2>1, <2>2, CloseParagraphStep, Zenon DEF FilingInv
    <3> QED BY <1>3, <3>1, TablesStay, Zenon DEF FilingInv
  <2> QED BY <1>3, <2>1, <2>2, NewLineInv, Zenon
<1> QED BY <1>1, <1>2, <1>3, HookStep, Zenon

LEMMA FactStep ==
  ASSUME ParseInv, NEW kind, OpenFact(kind)
  PROVE  ParseInv'
<1>1. Tag("fact") /\ (walk' = walk \/ walk' = [walk EXCEPT !.facts = Append(@, [kind |-> kind, start |-> Pos(walk)]),
                            !.nested = @ /\ walk.heading = None])
  BY Zenon DEF OpenFact, Hook
<1>2. "fact" \notin {"concept", "/concept", "observation"}
  OBVIOUS
<1>3. ASSUME FilingInv(walk) PROVE FilingInv([walk EXCEPT !.facts = Append(@, [kind |-> kind, start |-> Pos(walk)]),
                            !.nested = @ /\ walk.heading = None])
  <2>1. PICK v : v = [walk EXCEPT !.facts = Append(@, [kind |-> kind, start |-> Pos(walk)]),
                            !.nested = @ /\ walk.heading = None]
    BY Zenon
  <2>2. ListsOK(v) /\ FilingWalk(v) /\ SameTables(v, walk)
    BY <1>3, <2>1, OpenFactStep, Zenon DEF FilingInv
  <2> QED BY <1>3, <2>1, <2>2, TablesStay, Zenon DEF FilingInv
<1> QED BY <1>1, <1>2, <1>3, HookStep, Zenon

LEMMA EndFactStep ==
  ASSUME ParseInv, CloseFact
  PROVE  ParseInv'
<1>1. Tag("/fact") /\ (walk' = walk \/ walk' = (IF walk.facts = <<>> THEN walk
      ELSE [walk EXCEPT
           !.facts = Front(@),
           !.raw = Append(@, [kind |-> Last(walk.facts).kind, start |-> Last(walk.facts).start,
                              end |-> Pos(walk), section |-> Last(walk.stack)])]))
  BY Zenon DEF CloseFact, Hook
<1>2. "/fact" \notin {"concept", "/concept", "observation"}
  OBVIOUS
<1>3. ASSUME FilingInv(walk) PROVE FilingInv((IF walk.facts = <<>> THEN walk
      ELSE [walk EXCEPT
           !.facts = Front(@),
           !.raw = Append(@, [kind |-> Last(walk.facts).kind, start |-> Last(walk.facts).start,
                              end |-> Pos(walk), section |-> Last(walk.stack)])]))
  <2>1. PICK v : v = [walk EXCEPT
           !.facts = Front(@),
           !.raw = Append(@, [kind |-> Last(walk.facts).kind, start |-> Last(walk.facts).start,
                              end |-> Pos(walk), section |-> Last(walk.stack)])]
    BY Zenon
  <2>2. ASSUME walk.facts # <<>> PROVE FilingInv(v)
    <3>1. ListsOK(v) /\ FilingWalk(v) /\ SameTables(v, walk)
      BY <1>3, <2>1, <2>2, CloseFactStep, Zenon DEF FilingInv
    <3> QED BY <1>3, <3>1, TablesStay, Zenon DEF FilingInv
  <2> QED BY <1>3, <2>1, <2>2, Zenon
<1> QED BY <1>1, <1>2, <1>3, HookStep, Zenon

LEMMA TableStep ==
  ASSUME ParseInv, OpenTable
  PROVE  ParseInv'
<1>1. Tag("table") /\ (walk' = walk \/ walk' = PushTable(OnNewLine(walk)))
  BY Zenon DEF OpenTable, Hook
<1>2. "table" \notin {"concept", "/concept", "observation"}
  OBVIOUS
<1>3. ASSUME FilingInv(walk) PROVE FilingInv(PushTable(OnNewLine(walk)))
  BY <1>3, NewLineInv, PushInv, Zenon
<1> QED BY <1>1, <1>2, <1>3, HookStep, Zenon

LEMMA RowStep ==
  ASSUME ParseInv, OpenRow
  PROVE  ParseInv'
<1>1. Tag("tr") /\ (walk' = walk \/ walk' = (IF OnNewLine(walk).tables = <<>> THEN OnNewLine(walk) ELSE InTable(OnNewLine(walk), "empty")))
  BY Zenon DEF OpenRow, Hook
<1>2. "tr" \notin {"concept", "/concept", "observation"}
  OBVIOUS
<1>3. ASSUME FilingInv(walk) PROVE FilingInv((IF OnNewLine(walk).tables = <<>> THEN OnNewLine(walk) ELSE InTable(OnNewLine(walk), "empty")))
  <2>1. "empty" \in {"empty", "header", "body"}
    OBVIOUS
  <2> QED BY <1>3, <2>1, NewLineInv, InTableInv, Zenon
<1> QED BY <1>1, <1>2, <1>3, HookStep, Zenon

LEMMA CellStep ==
  ASSUME ParseInv, NEW kind \in {"td", "th"}, Cell(kind)
  PROVE  ParseInv'
<1>1. /\ Tag(kind)
      /\ \/ walk' = walk
         \/ walk.tables # <<>> /\ (walk' = InTable(walk, "body") \/ walk' = InTable(walk, "header"))
  BY Zenon DEF Cell, Hook
<1>2. kind \notin {"concept", "/concept", "observation"}
  OBVIOUS
<1>3. "body" \in {"empty", "header", "body"} /\ "header" \in {"empty", "header", "body"}
  OBVIOUS
<1>4. ASSUME FilingInv(walk), walk' # walk PROVE FilingInv(walk')
  BY <1>1, <1>3, <1>4, InTableInv, Zenon
<1> QED BY <1>1, <1>2, <1>4, HookStep, Zenon

LEMMA EndRowStep ==
  ASSUME ParseInv, CloseRow
  PROVE  ParseInv'
<1>1. Tag("/tr") /\ (walk' = walk \/ walk' = OnNewLine(
       IF walk.tables = <<>> \/ Last(walk.tables).row = "none" THEN walk
       ELSE [walk EXCEPT !.tables = EndRow(@),
                      !.rows = IF IsBlankHeader(Last(walk.tables)) THEN @ ELSE @ + 1]))
  BY Zenon DEF CloseRow, Hook
<1>2. "/tr" \notin {"concept", "/concept", "observation"}
  OBVIOUS
<1>3. ASSUME FilingInv(walk) PROVE FilingInv(OnNewLine(
       IF walk.tables = <<>> \/ Last(walk.tables).row = "none" THEN walk
       ELSE [walk EXCEPT !.tables = EndRow(@),
                      !.rows = IF IsBlankHeader(Last(walk.tables)) THEN @ ELSE @ + 1]))
  BY <1>3, CloseRowInv, NewLineInv, Zenon
<1> QED BY <1>1, <1>2, <1>3, HookStep, Zenon

LEMMA EndTableStep ==
  ASSUME ParseInv, CloseTable
  PROVE  ParseInv'
<1>1. Tag("/table") /\ (walk' = walk \/ walk' = OnNewLine(
       IF walk.tables = <<>> THEN walk
       ELSE [walk EXCEPT !.tables = Front(@), !.closed = Append(@, Last(walk.tables))]))
  BY Zenon DEF CloseTable, Hook
<1>2. "/table" \notin {"concept", "/concept", "observation"}
  OBVIOUS
<1>3. ASSUME FilingInv(walk) PROVE FilingInv(OnNewLine(
       IF walk.tables = <<>> THEN walk
       ELSE [walk EXCEPT !.tables = Front(@), !.closed = Append(@, Last(walk.tables))]))
  BY <1>3, CloseTableInv, NewLineInv, Zenon
<1> QED BY <1>1, <1>2, <1>3, HookStep, Zenon

LEMMA HeaderStep ==
  ASSUME ParseInv, OpenHeader \/ CloseHeader \/ \E name \in {"context", "unit", "baddate"} : HeaderTag(name)
  PROVE  ParseInv'
<1>1. PICK name \in {"header", "/header", "context", "unit", "baddate"} :
        /\ Tag(name)
        /\ \/ walk' = walk \/ walk' = [walk EXCEPT !.inHeader = TRUE]
           \/ walk' = [walk EXCEPT !.inHeader = FALSE] \/ walk' = [walk EXCEPT !.context = TRUE]
           \/ walk' = [walk EXCEPT !.unit = TRUE] \/ walk' = [walk EXCEPT !.broken = TRUE]
  <2>1. CASE OpenHeader
    BY <2>1, Zenon DEF OpenHeader
  <2>2. CASE CloseHeader
    BY <2>2, Zenon DEF CloseHeader
  <2>3. ASSUME NEW name \in {"context", "unit", "baddate"}, HeaderTag(name)
        PROVE  /\ Tag(name)
               /\ \/ walk' = walk \/ walk' = [walk EXCEPT !.context = TRUE]
                  \/ walk' = [walk EXCEPT !.unit = TRUE] \/ walk' = [walk EXCEPT !.broken = TRUE]
    <3>1. CASE walk.inHeader
      <4>1. "context" # "unit" /\ "context" # "baddate" /\ "unit" # "baddate"
        OBVIOUS
      <4> QED BY <2>3, <3>1, <4>1, Zenon DEF HeaderTag
    <3>2. CASE ~walk.inHeader
      BY <2>3, <3>2, Zenon DEF HeaderTag
    <3> QED BY <3>1, <3>2
  <2>4. CASE \E name \in {"context", "unit", "baddate"} : HeaderTag(name)
    BY <2>3, <2>4, Zenon
  <2> QED BY <2>1, <2>2, <2>4, Zenon
<1>2. name \notin {"concept", "/concept", "observation"}
  OBVIOUS
<1>3. ASSUME FilingInv(walk), walk' # walk PROVE FilingInv(walk')
  BY <1>1, <1>3, HeaderInv, Zenon
<1> QED BY <1>1, <1>2, <1>3, HookStep, Zenon

LEMMA ConceptStep ==
  ASSUME ParseInv, OpenConcept
  PROVE  ParseInv'
<1>1. /\ walk.concept = None /\ Tag("concept")
      /\ walk' = [walk EXCEPT !.concept = Pos(walk) + 1, !.text = @ \o <<"\n", "w">>]
  BY Zenon DEF OpenConcept
<1>2. PayloadInv(walk) /\ (PayloadInv(walk') => ParseInv')
  BY <1>1, PayloadTag, Zenon
<1>3. ListsOK(walk') /\ PayloadWalk(walk') /\ SameTables(walk', walk)
  BY <1>1, <1>2, OpenConceptStep, Zenon DEF PayloadInv
<1> QED BY <1>2, <1>3, TablesStay, Zenon DEF PayloadInv

LEMMA EndConceptStep ==
  ASSUME ParseInv, CloseConcept
  PROVE  ParseInv'
<1>1. /\ walk.concept # None /\ Tag("/concept")
      /\ walk' = [walk EXCEPT !.concept = None, !.text = @ \o <<"\n", "w">>,
                   !.sections = Append(@, [level |-> 1, start |-> walk.concept,
                                           end |-> Pos(walk) + 2, parent |-> 1])]
  BY Zenon DEF CloseConcept
<1>2. PayloadInv(walk) /\ (PayloadInv(walk') => ParseInv')
  BY <1>1, PayloadTag, Zenon
<1>3. ListsOK(walk') /\ PayloadWalk(walk') /\ SameTables(walk', walk)
  BY <1>1, <1>2, CloseConceptStep, Zenon DEF PayloadInv
<1> QED BY <1>2, <1>3, TablesStay, Zenon DEF PayloadInv

LEMMA ObservationStep ==
  ASSUME ParseInv, NEW kind, Observe(kind)
  PROVE  ParseInv'
<1>1. walk.concept # None /\ Tag("observation") /\ walk' = Observed(walk, kind)
  BY Zenon DEF Observe
<1>2. PayloadInv(walk) /\ (PayloadInv(walk') => ParseInv')
  BY <1>1, PayloadTag, Zenon
<1>3. ListsOK(walk') /\ PayloadWalk(walk') /\ SameTables(walk', walk)
  BY <1>1, <1>2, ObserveStep, Zenon DEF PayloadInv
<1> QED BY <1>2, <1>3, TablesStay, Zenon DEF PayloadInv

LEMMA FinishStep ==
  ASSUME ParseInv, Finish
  PROVE  ParseInv'
<1>1. /\ parsed.status = "none" /\ walk.concept = None
      /\ parsed' = [status |-> "quarantined"] \/ parsed' = Document(walk, vocabulary)
      /\ vocabulary' = vocabulary /\ walk' = walk /\ served' = served
  BY Zenon DEF Finish
<1>2. "none" # "parsed" /\ "none" # "integrity_error" /\ "quarantined" # "parsed"
  OBVIOUS
<1>3. vocabulary \in Vocabularies /\ WalkInv(walk, vocabulary) /\ served = "none"
  BY <1>1, <1>2, Zenon DEF ParseInv
<1>4. CASE parsed' = [status |-> "quarantined"]
  <2>1. parsed'.status = "quarantined"
    BY <1>4
  <2> QED BY <1>1, <1>2, <1>3, <2>1, Zenon DEF ParseInv
<1>5. CASE parsed' = Document(walk, vocabulary)
  <2>1. parsed' = Document(walk', vocabulary')
    BY <1>1, <1>5, Zenon
  <2> QED BY <1>1, <1>2, <1>3, <2>1, Zenon DEF ParseInv
<1> QED BY <1>1, <1>4, <1>5, Zenon

LEMMA ServeStep ==
  ASSUME ParseInv, Serve
  PROVE  ParseInv'
<1>1. /\ parsed.status = "parsed" /\ served' = IF Opens THEN "served" ELSE "integrity_error"
      /\ vocabulary' = vocabulary /\ walk' = walk /\ parsed' = parsed
  BY Zenon DEF Serve
<1>2. /\ vocabulary \in Vocabularies /\ WalkInv(walk, vocabulary)
      /\ walk.concept = None /\ parsed = Document(walk, vocabulary)
  BY <1>1, Zenon DEF ParseInv
<1>3. walk.nested => Opens
  BY <1>2, DocumentOpens, Zenon
<1>4. "served" # "integrity_error"
  OBVIOUS
<1>5. served' = "integrity_error" => ~walk'.nested
  BY <1>1, <1>3, <1>4, Zenon
<1> QED BY <1>1, <1>2, <1>5, Zenon DEF ParseInv

LEMMA ParseStarts ==
  ASSUME ParseInit
  PROVE  ParseInv
<1>1. PICK resources \in BOOLEAN :
        walk = [text |-> <<>>, sections |-> <<Root>>, stack |-> <<1>>,
                heading |-> None, level |-> 0, block |-> None,
                paragraphs |-> <<>>, facts |-> <<>>, raw |-> <<>>,
                tables |-> <<>>, closed |-> <<>>, inHeader |-> FALSE,
                context |-> resources, unit |-> resources, broken |-> FALSE,
                concept |-> None, nested |-> TRUE, rows |-> 0]
  BY Zenon DEF ParseInit
<1>2. /\ IsWalk(walk) /\ walk.text = <<>> /\ walk.sections = <<Root>> /\ walk.stack = <<1>>
      /\ walk.heading = None /\ walk.level = 0 /\ walk.block = None
      /\ walk.paragraphs = <<>> /\ walk.facts = <<>> /\ walk.raw = <<>>
      /\ walk.tables = <<>> /\ walk.closed = <<>> /\ walk.concept = None /\ walk.rows = 0
  BY <1>1 DEF IsWalk, WalkFields
<1>3. IsList(<<>>) /\ IsList(<<Root>>) /\ IsList(<<1>>) /\ Len(<<>>) = 0
  BY DEF IsList
<1>4. ListsOK(walk)
  BY <1>2, <1>3, Zenon DEF ListsOK
<1>5. RowsKept(walk.tables, walk.closed, walk.rows)
  <2>1. AreTables(<<>>)
    BY <1>3 DEF AreTables
  <2>2. 0 + 0 = 0 /\ 0 \in Nat
    OBVIOUS
  <2>3. RowsKept(<<>>, <<>>, 0)
    BY <2>1, <2>2, NoRows DEF RowsKept
  <2> QED BY <1>2, <2>3, Zenon
<1>6. Root \in SectionRecords /\ Root.start = 0 /\ Root.end = 0 /\ Root.parent = 0
  BY DEF Root, SectionRecords
<1>7. FilingWalk(walk)
  <2>1. SectionsInOrder(<<Root>>, <<1>>, None, 0)
    BY <1>6 DEF SectionsInOrder
  <2>2. Nests(<<Root>>, None, 0, None, <<>>, <<>>, <<>>)
    BY DEF Nests, AllInSection
  <2>3. 0 \in Nat
    OBVIOUS
  <2> QED BY <1>2, <1>3, <2>1, <2>2, <2>3, Zenon DEF FilingWalk
<1>8. PayloadWalk(walk)
  <2>1. walk.sections[1] = Root /\ Len(walk.sections) = 1 /\ Len(walk.text) = 0
    BY <1>2
  <2>2. \A i \in 1 .. Len(walk.sections) :
          /\ walk.sections[i] \in SectionRecords
          /\ walk.sections[i].parent \in 0 .. Len(walk.sections)
          /\ walk.sections[i].start <= walk.sections[i].end
          /\ walk.sections[i].end <= Len(walk.text)
    BY <1>6, <2>1
  <2>3. Len(walk.sections) > 0
    BY <2>1
  <2>4. \A i \in 1 .. 0 : FALSE
    OBVIOUS
  <2> QED BY <1>2, <1>3, <2>1, <2>2, <2>3, <2>4, Zenon DEF PayloadWalk
<1>9. /\ vocabulary \in Vocabularies /\ parsed.status = "none" /\ served = "none"
  BY DEF ParseInit
<1>10. "none" # "parsed" /\ "none" # "integrity_error"
  OBVIOUS
<1> QED BY <1>4, <1>5, <1>7, <1>8, <1>9, <1>10, Zenon DEF ParseInv, WalkInv

(* A document that the pipeline stored opens in the reader unless its        *)
(* headings cross its paragraphs or facts, and no row is lost or counted     *)
(* twice by nesting tables: parser.py's walk and reader.py, for every        *)
(* vocabulary of tags, set of levels and length of document.                 *)
THEOREM ParseSpecReadable == ParseSpec => []ParseIsReadable
<1>1. ParseInit => ParseInv
  BY ParseStarts
<1>2. ParseInv /\ [ParseNext]_parseVars => ParseInv'
  <2>1. SUFFICES ASSUME ParseInv, [ParseNext]_parseVars PROVE ParseInv'
    OBVIOUS
  <2>2. CASE Data
    BY <2>1, <2>2, DataStep
  <2>3. ASSUME NEW level \in Levels, OpenHeading(level) PROVE ParseInv'
    BY <2>1, <2>3, HeadingStep
  <2>4. CASE CloseHeading
    BY <2>1, <2>4, EndHeadingStep
  <2>5. CASE OpenParagraph
    BY <2>1, <2>5, ParagraphStep
  <2>6. CASE CloseParagraph
    BY <2>1, <2>6, EndParagraphStep
  <2>7. ASSUME NEW kind \in {"good", "nil", "bad"}, OpenFact(kind) PROVE ParseInv'
    BY <2>1, <2>7, FactStep
  <2>8. CASE CloseFact
    BY <2>1, <2>8, EndFactStep
  <2>9. ASSUME NEW kind \in {"td", "th"}, Cell(kind) PROVE ParseInv'
    BY <2>1, <2>9, CellStep
  <2>10. CASE OpenTable
    BY <2>1, <2>10, TableStep
  <2>11. CASE OpenRow
    BY <2>1, <2>11, RowStep
  <2>12. CASE CloseRow
    BY <2>1, <2>12, EndRowStep
  <2>13. CASE CloseTable
    BY <2>1, <2>13, EndTableStep
  <2>14. CASE OpenHeader \/ CloseHeader \/ \E name \in {"context", "unit", "baddate"} : HeaderTag(name)
    BY <2>1, <2>14, HeaderStep
  <2>15. CASE OpenConcept
    BY <2>1, <2>15, ConceptStep
  <2>16. CASE CloseConcept
    BY <2>1, <2>16, EndConceptStep
  <2>17. ASSUME NEW kind \in {"good", "nil", "bad"}, Observe(kind) PROVE ParseInv'
    BY <2>1, <2>17, ObservationStep
  <2>18. CASE Finish
    BY <2>1, <2>18, FinishStep
  <2>19. CASE Serve
    BY <2>1, <2>19, ServeStep
  <2>20. CASE UNCHANGED parseVars
    <3>1. /\ vocabulary' = vocabulary /\ walk' = walk /\ parsed' = parsed /\ served' = served
      BY <2>20 DEF parseVars
    <3> QED BY <2>1, <3>1, Zenon DEF ParseInv
  <2> QED
    BY <2>1, <2>2, <2>3, <2>4, <2>5, <2>6, <2>7, <2>8, <2>9, <2>10, <2>11, <2>12, <2>13, <2>14,
       <2>15, <2>16, <2>17, <2>18, <2>19, <2>20, Zenon DEF ParseNext
<1>3. ParseInv => ParseIsReadable
  BY Zenon DEF ParseInv, WalkInv, RowsKept, ParseIsReadable, StoredDocumentOpens, RowsSurviveNesting
<1> QED BY <1>1, <1>2, <1>3, PTL DEF ParseSpec
=============================================================================
