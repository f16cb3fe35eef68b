------------------------------ MODULE Classifier ------------------------------
(***************************************************************************)
(* From the blocks a parser makes of a document to what becomes of each:   *)
(* the contents and the title page are tagged (apply_book_structure_tags), *)
(* and a block is translated, shown as it is, or left out                  *)
(* (classify_blocks); last, a heading that is prose becomes a paragraph    *)
(* and a subtitle is found (enrich_classified_blocks).  What the regular   *)
(* expressions find in a text is its role, and a text has one; a list is   *)
(* left to the paragraphs.                                                 *)
(***************************************************************************)
EXTENDS Integers, Sequences, FiniteSetsExt

CONSTANTS
  TitleWords, AuthorWords, AuthorLines,   \* 15, 25 and 4: what may be on a title page
  PartWords, RowWords,                    \* 24 and 55: a title of a part, a row below it
  SubtitleHeadWords, SubtitleWords        \* 14 and 22: a subtitle that is a heading, or is none

ASSUME ClassifierConstants ==
  {TitleWords, AuthorWords, AuthorLines, PartWords, RowWords, SubtitleHeadWords, SubtitleWords} \subseteq Nat

Heading(b) == b.type = "heading" /\ b.text # <<>>
Paragraph(b) == b.type = "paragraph" /\ b.text # <<>>
Line(b) == Heading(b) \/ Paragraph(b)

-----------------------------------------------------------------------------
(* What the words of a line say of it *)

\* "Contents"; a row below that, "Chapter 3 ... 12"; all rows in one.
ContentsLabel(b) == Line(b) /\ b.role = "contents"
ContentsRow(b) == Line(b) /\ b.role = "entry"
ContentsInOne(b) == Line(b) /\ b.role \in {"flat", "imprint flat"}

\* A line, a row or all rows in one with a word of the publisher's, as in "Chapter 3. The
\* Press": no row at all, but for a heading below "Contents".
ImprintWords(b) == Line(b) /\ b.role \in {"imprint", "imprint entry", "imprint flat"}
ImprintRow(b) == Heading(b) /\ b.role = "imprint entry"

\* "Bibliography"; a line of the publisher, of the site the file is from, of the law, and one
\* that stands on every page.
SectionTitle(b) == Line(b) /\ b.role = "section"
Imprint(b) == Paragraph(b) /\ ImprintWords(b)
Distributor(b) == Line(b) /\ b.role = "boilerplate"
Copyright(b) == Paragraph(b) /\ b.role = "copyright"
Runner(b) == Line(b) /\ b.role = "runner"

\* "Part 2", and "7." on its own.
PartTitle(b) == Line(b) /\ b.role = "part"
OrphanNumber(b) == Line(b) /\ b.role = "orphan"

-----------------------------------------------------------------------------
(* Contents and title page: app/services/formatter/book_structure.py *)

\* _looks_like_chapter_or_milestone_heading
Milestone(b) == b.role \in {"chapter", "part", "entry", "imprint entry"}

\* Whether the contents go on after b, or begin with it.
Within(inside, b) ==
  \/ inside /\ (b.type = "table" \/ ContentsRow(b) \/ ImprintRow(b))
  \/ ContentsLabel(b) /\ (Heading(b) \/ ~inside)

\* _tag_orphan_printed_toc_runs: three printed rows, or two under a label.
OrphanRun(doc, k) == \E i \in 1 .. k, j \in k .. Len(doc) :
  /\ j - i >= 2
  /\ ContentsLabel(doc[i]) \/ ContentsRow(doc[i])
  /\ \A m \in i + 1 .. j : ContentsRow(doc[m])

Contents(doc) ==
  LET within[k \in 0 .. Len(doc)] == k > 0 /\ Within(within[k - 1], doc[k])
  IN  {k \in DOMAIN doc : within[k] \/ OrphanRun(doc, k) \/ ContentsInOne(doc[k])}

\* Only before the contents; a first heading that opens a chapter is no title.
Title(doc, contents) ==
  {k \in {1} \cap DOMAIN doc :
     /\ k \notin contents
     /\ \/ Heading(doc[k]) /\ doc[k].level = 1 /\ ~Milestone(doc[k])
        \/ Paragraph(doc[k]) /\ Len(doc[k].text) <= TitleWords}

Authors(doc, contents) ==
  LET first == Cardinality(Title(doc, contents)) + 1
  IN  {k \in first .. Min({Len(doc), first + AuthorLines - 1}) :
         /\ contents \cap 1 .. k = {}
         /\ \A m \in first .. k : Paragraph(doc[m]) /\ Len(doc[m].text) <= AuthorWords}

\* apply_book_structure_tags
Tagged(doc) ==
  LET contents == Contents(doc)
      title == Title(doc, contents)
      authors == Authors(doc, contents)
      tag(k) == IF k \in contents THEN "toc" ELSE IF k \in title THEN "title"
                ELSE IF k \in authors THEN "author" ELSE "none"
  IN  [k \in DOMAIN doc |-> [doc[k] EXCEPT !.tag = tag(k)]]

-----------------------------------------------------------------------------
(* The printed inventory of a part: app/services/classifier/part_inventory_omit.py *)

Opens(b) == PartTitle(b) /\ Len(b.text) <= PartWords

\* A block without a text, as a table is one, counts as blank.
Closes(b) == b.text = <<>> \/ (Heading(b) /\ b.role = "conclusion")

Lists(b, part) ==
  /\ b.tag = "none"
  /\ \/ Closes(b) \/ OrphanNumber(b)
     \/ /\ b.role = "row" /\ \A n \in DOMAIN b.numbers : b.numbers[n] = part
        /\ b.type = "paragraph" /\ Len(b.text) > RowWords => Len(b.numbers) >= 2

\* _try_part_subsection_inventory_run: the blocks from i on, if they are an inventory with
\* three numbered rows or more.
InventoryFrom(doc, i) ==
  LET opener == IF Heading(doc[i]) /\ doc[i].role = "digit" /\ i < Len(doc) THEN i + 1 ELSE i
      part == IF doc[opener].numbers = <<>> THEN 0 ELSE doc[opener].numbers[1]
      upTo(Goes(_), from) == Min({k \in from .. Len(doc) + 1 : k = Len(doc) + 1 \/ ~Goes(doc[k])})
      rows == opener + 1 .. upTo(LAMBDA b : Lists(b, part), opener + 1) - 1
  IN  IF /\ doc[i].tag = "none" /\ Opens(doc[opener])
         /\ MapThenSumSet(LAMBDA k : Len(doc[k].numbers), rows) >= 3
      THEN i .. upTo(Closes, Max(rows) + 1) - 1 ELSE {}

\* part_subsection_inventory_indices; no inventory begins inside another one.
Inventory(doc) == UNION {InventoryFrom(doc, i) : i \in DOMAIN doc}

-----------------------------------------------------------------------------
(* app/services/classifier/section_classifier.py *)

\* A heading the scan does not look at: it neither opens nor ends a section.
Unseen(doc, inventory, k) == k \in inventory \/ doc[k].tag = "toc" \/ Runner(doc[k])

\* skip_until_level after each block; 0 is None.
SkipUntil(doc, inventory) ==
  LET level[k \in 0 .. Len(doc)] ==
        IF k = 0 THEN 0
        ELSE IF ~Heading(doc[k]) \/ Unseen(doc, inventory, k) THEN level[k - 1]
        ELSE IF SectionTitle(doc[k]) THEN doc[k].level
        ELSE IF doc[k].level <= level[k - 1] THEN 0 ELSE level[k - 1]
  IN  level

\* Lines that are left out wherever they are.
Clutter(b) ==
  \/ Runner(b) \/ Distributor(b) \/ Copyright(b)
  \/ Imprint(b) /\ b.tag = "none"
  \/ SectionTitle(b) /\ Paragraph(b)

\* classify_blocks.  Contents are shown as they are, but for rows with words of the
\* publisher's.
Classify(doc) ==
  LET inventory == Inventory(doc)
      until == SkipUntil(doc, inventory)
      contents(k) == doc[k].tag = "toc"
      unlisted(k) == k \in inventory \/ (contents(k) /\ ImprintWords(doc[k]))
      action(k) == IF unlisted(k) THEN "omit"
                   ELSE IF contents(k) THEN "skip"
                   ELSE IF until[k] > 0 \/ Clutter(doc[k]) THEN "omit" ELSE "translate"
  IN  [k \in DOMAIN doc |-> [doc[k] EXCEPT !.action = action(k),
                                           !.tag = IF unlisted(k) THEN "none" ELSE @]]

\* What the pipeline takes the parsed blocks for.
Classified(doc) == Classify(Tagged(doc))

-----------------------------------------------------------------------------
(* app/services/document_pipeline/stages/semantic_enrichment.py *)

\* _demote_false_heading: "prose" is a heading of many words, or with a comma or several
\* sentences in it.
FalseHeading(b) == b.action = "translate" /\ b.tag = "none" /\ Heading(b) /\ b.role = "prose"
Demoted(doc) ==
  [k \in DOMAIN doc |-> [doc[k] EXCEPT !.type = IF FalseHeading(doc[k]) THEN "paragraph" ELSE @]]

\* chapter_like_heading_text
ChapterLike(b) == Milestone(b) \/ b.role \in {"digit", "row"}

OneSentence(t) == \A i \in 2 .. Len(t) : t[i - 1].mark = "stop" => t[i].continues

SubtitleLike(b) ==
  /\ b.action # "omit" /\ b.tag = "none" /\ ~ImprintWords(b)
  /\ \/ Heading(b) /\ Len(b.text) <= SubtitleHeadWords /\ ~ChapterLike(b)
     \/ Paragraph(b) /\ Len(b.text) \in 2 .. SubtitleWords /\ OneSentence(b.text)

\* _find_subtitle_candidate: the first one behind a title and before the contents; none
\* is {}.
SubtitleAt(doc) ==
  LET behind(k) == \E i \in 1 .. k - 1 : doc[i].tag = "title" /\ doc[i].action # "omit"
      before(k) == \A i \in 1 .. k : doc[i].tag # "toc"
      found == {k \in DOMAIN doc : behind(k) /\ before(k) /\ SubtitleLike(doc[k])}
  IN  {k \in found : \A i \in found : k <= i}

Subtitled(doc) ==
  LET at == SubtitleAt(doc)
  IN  [k \in DOMAIN doc |-> [doc[k] EXCEPT !.subtitle = k \in at /\ doc[k].action = "translate"]]

\* enrich_classified_blocks
Enriched(doc) == Subtitled(Demoted(doc))
=============================================================================
