-------------------------------- MODULE Export --------------------------------
(***************************************************************************)
(* The file that is written of the translated blocks: a new document built *)
(* from its structure, or, for a docx, the document that was uploaded with *)
(* its texts replaced.  A file is the sequence of its paragraphs and       *)
(* tables, each as the grid of its texts; style and layout are left out.   *)
(***************************************************************************)
EXTENDS TextPlan

FrontMatter(blocks, tag) == SelectSeq(blocks, LAMBDA b : b.action # "omit" /\ b.tag = tag)

\* The contents are left to the headings, and the subtitle has a place of its own.
Body(blocks) == SelectSeq(blocks, LAMBDA b : b.action = "translate" /\ b.tag \notin {"title", "author"} /\ ~b.subtitle)
Subtitle(blocks) == SelectSeq(blocks, LAMBDA b : b.action # "omit" /\ b.tag \notin {"title", "author"} /\ b.subtitle)

\* build_structured_document: what the sidecar beside the file tells.
Structured(blocks) ==
  LET kept == Dedupe(blocks)
  IN  [title |-> FrontMatter(kept, "title"), subtitle |-> Subtitle(kept),
       authors |-> FrontMatter(kept, "author"), content |-> Body(kept)]

\* build_docx_from_structured: of that, what stands in the file; the subtitle does not.
Rebuilt(doc) == Each(Grid, doc.title \o doc.authors \o doc.content)

\* The cells of a table, as far as there are new ones.
Overlay(cells, new) ==
  [r \in DOMAIN cells |-> [c \in DOMAIN cells[r] |->
     IF r \in DOMAIN new /\ c \in DOMAIN new[r] THEN new[r][c] ELSE cells[r][c]]]

\* What a place of the document becomes when b is the block for it: a paragraph does not
\* become a table, nor a table a paragraph.
InPlaceOf(place, b) ==
  LET kept == Grid(place)
      table == place.type = "table"
  IN  IF b.action = "skip" \/ (table /\ b.type # "table") THEN kept
      ELSE IF b.action = "omit" THEN [r \in DOMAIN kept |-> [c \in DOMAIN kept[r] |-> <<>>]]
      ELSE IF table THEN Overlay(kept, b.cells)
      ELSE IF b.type = "table" THEN <<<<<<>>>>>> ELSE Grid(b)

\* apply_translations_inplace: the blocks are taken for the places one by one, and the
\* places left over stay as they are.
InPlace(document, blocks) ==
  [k \in DOMAIN document |->
     IF k \in DOMAIN blocks THEN InPlaceOf(document[k], blocks[k]) ELSE Grid(document[k])]

\* write_classified_to_docx, with its settings as they are by default.
Exported(docx, document, blocks) == IF docx THEN InPlace(document, blocks) ELSE Rebuilt(Structured(blocks))
===============================================================================
