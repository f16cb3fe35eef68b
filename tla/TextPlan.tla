------------------------------ MODULE TextPlan ------------------------------
(***************************************************************************)
(* From the blocks of a document to the texts that are sent to OpenAI, and *)
(* back.  A text is a sequence of words; a word knows whether it ends a    *)
(* sentence, whether it goes on with one (a lower-case letter or no letter *)
(* at all), whether a blank line stands before it, whether its sentence is *)
(* worth translating, and which language it is in.  A word is one token.   *)
(*                                                                         *)
(* Its mark is "stop" if its last character is one of . ! and ?, which is  *)
(* more than to end a sentence: a danda ends one too, and so does a quote  *)
(* behind the stop.  "quote" opens or closes a quotation; "hook" begins    *)
(* the figure of speech that the model likes to write twice (yeh aisa hai  *)
(* jaise), and "cut" breaks it off (STOP! YEH EK).                         *)
(***************************************************************************)
EXTENDS Batching

CONSTANTS
  ChunkMax,       \* chunk_max_tokens
  MinTranslate    \* min_translate_tokens

ASSUME TextConstants == ChunkMax \in Nat \ {0} /\ MinTranslate \in Nat

-----------------------------------------------------------------------------
(* Texts *)

Marks     == {"none", "stop", "quote", "hook", "cut"}
WordType  == [id : Nat, ends : BOOLEAN, continues : BOOLEAN, broken : BOOLEAN, worth : BOOLEAN, lang : STRING,
              mark : Marks]
TextType  == Seq(WordType)
Forms     == {"heading", "paragraph", "table"}
Tags      == {"none", "toc", "title", "author"}
Actions   == {"none", "translate", "skip", "omit"}
BlockType == [type : Forms, role : STRING, level : Nat, numbers : Seq(Nat), tag : Tags, action : Actions,
              label : BOOLEAN, subtitle : BOOLEAN, text : TextType, cells : Seq(Seq(TextType))]

SetBreak(t, broken) == IF t = <<>> THEN t ELSE [t EXCEPT ![1].broken = broken]

\* " ".join and "\n\n".join of stripped texts; an empty one adds no word.
Joined(ts, broken) ==
  FoldLeft(LAMBDA all, t : all \o SetBreak(t, broken /\ all # <<>>), <<>>, ts)
Spaced(ts) == Joined(ts, FALSE)
Stacked(ts) == Joined(ts, TRUE)

\* The parts of t that begin at the places From, each stripped.
PartPlaces(t, From) == GroupWhile(LAMBDA places, i : i \notin From, Indices(t))
Parts(t, From) ==
  LET part(places) == SetBreak([k \in DOMAIN places |-> t[places[k]]], FALSE)
  IN  Each(part, PartPlaces(t, From))

Paragraphs(t) == Parts(t, {i \in DOMAIN t : t[i].broken})
SplitSentences(t) == Parts(t, {i \in 2 .. Len(t) : t[i - 1].mark = "stop"})

Tokens(ts) == FoldLeft(LAMBDA n, t : n + Len(t), 0, ts)

-----------------------------------------------------------------------------
(* Chunks: app/utils/chunking.py *)

HardSplitWordsUnflushed(t) == [k \in 1 .. Len(t) \div ChunkMax |-> SetBreak(SubSeq(t, (k - 1) * ChunkMax + 1, k * ChunkMax), FALSE)]

\* Full chunks of words, and a last one.
FullChunks(t) == GroupWhile(LAMBDA cur, w : Len(cur) < ChunkMax, t)
HardSplitWords(t) == Each(LAMBDA words : SetBreak(words, FALSE), FullChunks(t))

\* Neither has room for the other, or one of them is too large for a chunk on its own.
FitsChunk(cur, t) == Len(t) <= ChunkMax /\ Tokens(cur) + Len(t) <= ChunkMax
ChunkGroups(ts) == GroupWhile(FitsChunk, ts)

\* An oversized paragraph, by sentences and, where a sentence is too long, by words.
SplitOversized(para) ==
  LET chunks(g) == IF Len(Head(g)) > ChunkMax THEN HardSplitWords(Head(g)) ELSE <<Spaced(g)>>
      split(sentences) == IF Len(sentences) <= 1 THEN HardSplitWords(para)
                          ELSE Concat(Each(chunks, ChunkGroups(sentences)))
  IN  Once(split, SplitSentences(para))

\* chunk_text_respecting_paragraphs.  A full chunk is closed at once, and chunk_min_tokens
\* makes no difference: both branches that read it close the chunk.
Chunks(t) ==
  LET chunks(g) == IF Len(Head(g)) > ChunkMax THEN SplitOversized(Head(g)) ELSE <<Stacked(g)>>
  IN  Concat(Each(chunks, ChunkGroups(Paragraphs(t))))

-----------------------------------------------------------------------------
(* What is worth translating: app/utils/translate_filter.py *)

Complete(t) == t = <<>> \/ Last(t).ends
Continues(t) == t # <<>> /\ Head(t).continues

\* _apply_word_budget: of the sentences to send the shortest are left out, until what is
\* left is in the budget.
WordBudget(sentences, send, budget) ==
  LET shorter(i, j) == \/ Len(sentences[i]) < Len(sentences[j])
                       \/ Len(sentences[i]) = Len(sentences[j]) /\ i < j
      order == SetToSortSeq(send, shorter)
      kept(k) == {order[m] : m \in k + 1 .. Len(order)}
      words(S) == MapThenSumSet(LAMBDA i : Len(sentences[i]), S)
  IN  kept(CHOOSE k \in 0 .. Len(order) :
             words(kept(k)) <= budget /\ \A less \in 0 .. k - 1 : words(kept(less)) > budget)

\* plan_paragraph_for_translation: the sentences, and which of them are sent; at 100
\* percent the paragraph is sent as one.
PlanParagraph(para, percent) ==
  LET sentences == IF percent >= 100 THEN <<para>> ELSE SplitSentences(para)
      worth == {i \in DOMAIN sentences : percent >= 100 \/ Head(sentences[i]).worth}
      send == IF percent \in 1 .. 99
              THEN WordBudget(sentences, worth, (Len(para) * percent) \div 100 + 1) ELSE worth
  IN  [i \in DOMAIN sentences |-> [text |-> sentences[i], send |-> i \in send]]

-----------------------------------------------------------------------------
(* The plan: app/services/translation_plan.py *)

MergeCandidate(b) == b.action = "translate" /\ b.type = "paragraph" /\ b.text # <<>> /\ b.tag = "none"

StopMerge(prev, next) ==
  \/ prev.label \/ next.label
  \/ Complete(prev.text) /\ ~Continues(next.text)

Glue(prev, next) ==
  IF Complete(prev) /\ ~Continues(next) THEN Stacked(<<prev, next>>) ELSE Spaced(<<prev, next>>)

Glued(text, blocks) == FoldLeft(LAMBDA t, b : Glue(t, b.text), text, blocks)
JoinedBlock(group) == [Head(group) EXCEPT !.text = Glued(@, Tail(group))]

Shards(blocks) ==
  LET fits(group, b) == MergeCandidate(Head(group)) /\ MergeCandidate(b) /\ ~StopMerge(JoinedBlock(group), b)
  IN  GroupWhile(fits, blocks)

\* merge_adjacent_translate_paragraphs: the shards of a paragraph become one block again.
MergeAdjacent(blocks) == Each(JoinedBlock, Shards(blocks))

\* _merge_paragraphs_for_translation_units
TranslationUnits(t) == Each(Stacked, ChunkGroups(Paragraphs(t)))

Skip(t) == [job |-> FALSE, text |-> t]
Job(t)  == [job |-> TRUE, text |-> t]

\* Sentences that are sent together, as far as a chunk has room for them.
Blob(sentences) == Spaced(Each(LAMBDA s : s.text, sentences))
Runs(sentences) ==
  LET fits(run, s) == Head(run).send /\ s.send /\ Len(Blob(run)) + Len(s.text) <= ChunkMax
  IN  GroupWhile(fits, sentences)

\* _paragraph_to_piece: what is skipped as it stands, what is sent in chunks.
ParagraphPiece(para, percent) ==
  LET jobs(t) == IF Len(t) < MinTranslate THEN <<Skip(t)>> ELSE Each(Job, Chunks(t))
      spans(run) == IF Head(run).send THEN Once(jobs, Blob(run)) ELSE <<Skip(Blob(run))>>
  IN  Concat(Each(spans, Runs(PlanParagraph(para, percent))))

\* The texts of a block as a table of its cells, or of its one text.
Grid(b) == IF b.type = "table" THEN b.cells ELSE <<<<b.text>>>>

\* The spans of the units of a text, each with the number of its unit.
UnitPieces(t, percent) == Each(LAMBDA unit : ParagraphPiece(unit, percent), TranslationUnits(t))
NumberedByUnit(pieces) ==
  [u \in DOMAIN pieces |-> Each(LAMBDA span : [unit |-> u, job |-> span.job, text |-> span.text], pieces[u])]

\* _text_to_paragraph_pieces: the spans of a text, each with the unit it is a part of.
TextPieces(t, percent) == Concat(Once(NumberedByUnit, UnitPieces(t, percent)))

\* The places of the texts to translate, in their order; a skipped block has none.
TextPlaces(blocks) ==
  LET row(b, r) == [c \in DOMAIN Grid(blocks[b])[r] |-> <<b, r, c>>]
      block(b) == IF blocks[b].action # "translate" THEN <<>>
                  ELSE Concat([r \in DOMAIN Grid(blocks[b]) |-> row(b, r)])
  IN  Concat([b \in DOMAIN blocks |-> block(b)])

\* The spans of the text at a place.
SpansAt(blocks, percent, place) ==
  LET text == Grid(blocks[place[1]])[place[2]][place[3]]
  IN  Each(LAMBDA piece : [place |-> place, unit |-> piece.unit, job |-> piece.job, text |-> piece.text],
           TextPieces(text, percent))

\* build_translation_plan: the spans of all texts in the order in which the jobs among them
\* are numbered, each with the place it belongs to.
TranslationPlan(blocks, percent) ==
  Concat(Each(LAMBDA place : SpansAt(blocks, percent, place), TextPlaces(blocks)))

JobsOf(plan) == Chosen(LAMBDA span : span.job, plan)
GlobalJobs(plan) ==
  Each(LAMBDA span : span.text, JobsOf(plan))

-----------------------------------------------------------------------------
(* The way back *)

\* The spans of the plan, each job replaced by the translation of its number.
Told(plan, translations) ==
  [k \in DOMAIN plan |->
     IF plan[k].job
     THEN [plan[k] EXCEPT !.text = translations[Len(SelectSeq(SubSeq(plan, 1, k), LAMBDA span : span.job))]]
     ELSE plan[k]]

\* _reassemble_paragraph: the spans of a unit with a space between them, the units with a
\* blank line; an empty one leaves no trace.
TextAt(spans, place) ==
  LET own == SelectSeq(spans, LAMBDA span : span.place = place /\ span.text # <<>>)
      opens(k) == k > 1 /\ own[k].unit # own[k - 1].unit
  IN  Concat([k \in DOMAIN own |-> SetBreak(own[k].text, opens(k))])

\* reassemble_from_plan.  A skipped block keeps its text.
ReassembleFromPlan(blocks, plan, translations) ==
  LET spans == Told(plan, translations)
      grid(b) == [r \in DOMAIN Grid(blocks[b]) |-> [c \in DOMAIN Grid(blocks[b])[r] |-> TextAt(spans, <<b, r, c>>)]]
  IN  [b \in DOMAIN blocks |->
         IF blocks[b].action # "translate" THEN blocks[b]
         ELSE IF blocks[b].type = "table" THEN [blocks[b] EXCEPT !.cells = grid(b)]
         ELSE [blocks[b] EXCEPT !.text = grid(b)[1][1]]]

-----------------------------------------------------------------------------
(* Paragraphs that came out twice: paragraph_overlap_dedupe.py *)

DedupeCandidate(b) == b.action = "translate" /\ b.type = "paragraph" /\ b.text # <<>> /\ b.tag = "none"

Ids(t) == [i \in DOMAIN t |-> t[i].id]
Says(t) == [i \in DOMAIN t |-> <<t[i].id, t[i].lang>>]

\* _likely_truncated_for_fuzzy_duplicate: a quotation is left open, or the figure of
\* speech broken off.
CutOff(t) ==
  \/ Cardinality({i \in DOMAIN t : t[i].mark = "quote"}) % 2 = 1
  \/ t # <<>> /\ Last(t).mark = "cut"

\* They share at least half of their words.
Alike(t, u) ==
  LET a == Range(Says(t))
      b == Range(Says(u))
  IN  2 * Cardinality(a \cap b) >= Cardinality(a \cup b)

RedundantEvenIfWhole(shorter, longer) ==
  Len(shorter) < Len(longer) /\ (IsPrefix(Says(shorter), Says(longer)) \/ Alike(shorter, longer))

\* _redundant_translate_paragraph_pair: the shorter of two is redundant if the longer one
\* begins with it and no full stop is its last character, or if it was cut off, whatever is
\* its last character, and the longer one is much the same.
Redundant(shorter, longer) ==
  /\ Len(shorter) < Len(longer)
  /\ \/ IsPrefix(Says(shorter), Says(longer)) /\ Last(shorter).mark # "stop"
     \/ CutOff(shorter) /\ Alike(shorter, longer)

HooksOf(t) == {i \in DOMAIN t : t[i].mark = "hook"}
Without(t, from, to) == SubSeq(t, 1, from - 1) \o SubSeq(t, to, Len(t))
Unbroken(t) == [k \in DOMAIN t |-> [t[k] EXCEPT !.broken = FALSE]]

\* _strip_inner_voice_truncation_echo, one round: from the first hook to one that stands
\* right behind the cut.
StripEcho(t) ==
  LET again == {j \in HooksOf(t) : j > Min(HooksOf(t)) /\ t[j - 1].mark = "cut"}
  IN  IF again = {} THEN t ELSE Unbroken(Without(t, Min(HooksOf(t)), Min(again)))

\* _collapse_interior_near_duplicate_once: from the first hook to the second, if what
\* begins there makes it redundant.
CollapseTwin(t) ==
  LET first == Min(HooksOf(t))
      second == Min(HooksOf(t) \ {first})
      twin == SubSeq(t, first, second - 1)
      tail == SubSeq(t, second, Len(t))
  IN  IF Cardinality(HooksOf(t)) >= 2 /\ \E n \in DOMAIN tail : Redundant(twin, SubSeq(tail, 1, n))
      THEN SubSeq(t, 1, first - 1) \o Unbroken(tail) ELSE t

Repeated(Op(_), times, t) ==
  LET after[n \in 0 .. times] == IF n = 0 THEN t ELSE Op(after[n - 1]) IN after[times]

\* _sanitize_translate_paragraph_interior: what the model wrote twice in one paragraph.
Sanitized(b) ==
  IF DedupeCandidate(b)
  THEN [b EXCEPT !.text = Repeated(CollapseTwin, 4, Repeated(StripEcho, 5, @))] ELSE b

\* One pass: a block makes the kept ones before it go while it makes them redundant, and
\* goes itself where the last of them makes it so.
DedupeOnce(blocks) ==
  LET drops(gone, by) == DedupeCandidate(gone) /\ DedupeCandidate(by) /\ Redundant(gone.text, by.text)
      left(kept, b) == SubSeq(kept, 1, Max({k \in 0 .. Len(kept) : k = 0 \/ ~drops(kept[k], b)}))
      step(kept, b) == LET rest == left(kept, b)
                       IN  IF rest # <<>> /\ drops(b, Last(rest)) THEN rest ELSE Append(rest, b)
  IN  FoldLeft(step, <<>>, blocks)

\* dedupe_consecutive_redundant_translate_paragraphs: each paragraph for itself, and then
\* pass after pass until nothing goes.
Dedupe(blocks) ==
  LET rounds == Max({16, Len(blocks) + 8})
      pass[n \in 0 .. rounds] ==
        IF n = 0 THEN Each(Sanitized, blocks)
        ELSE LET cur == pass[n - 1]
                 next == DedupeOnce(cur)
             IN  IF Len(next) = Len(cur) THEN cur ELSE next
  IN  pass[rounds]
=============================================================================
