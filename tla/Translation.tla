----------------------------- MODULE Translation -----------------------------
(***************************************************************************)
(* app/services/document_pipeline: one document through the pipeline of    *)
(* one process.  It is parsed, planned, translated and written; threads    *)
(* move the bar while it is parsed and written, a timer of the event loop  *)
(* while it is translated.  What the legacy API does with the docx, to     *)
(* convert it and to show it as done, ends the behaviour.                  *)
(*                                                                         *)
(* run.document is what the parser makes of the upload; what is omitted,   *)
(* the plan, and with it the segments and the batches, are settled by it   *)
(* and by the settings, and so they are part of the initial state.         *)
(***************************************************************************)
EXTENDS BatchTranslator, Export

CONSTANTS
  Scenarios,    \* the values of run
  ShardMax      \* the most words, or tokens, of a batch of the queue

\* What the cache says of a text is the translation of that text into that language.
Truthful(known) ==
  \A key \in DOMAIN known : known[key] = [k \in DOMAIN key.text |-> [key.text[k] EXCEPT !.lang = key.target]]

\* A document with its settings.  The key and the cache are what earlier runs have left.
ScenarioOK(r) ==
  /\ r.document \in Seq(BlockType) /\ r.target \in STRING
  /\ {r.concurrency, r.inflight, r.ticks, r.faults} \subseteq Nat /\ r.pulses \subseteq Nat
  /\ r.replies \subseteq Shapes /\ {r.docx, r.parsed} \subseteq BOOLEAN
  /\ r.before.stage \in Range(Stages) /\ OfStage(r.before) /\ r.before.segs \in Nat \cup {Unsaid}
  /\ r.before = Entry(r.before.pct, r.before.stage, r.before.segs)
  /\ Truthful(r.cached)

ASSUME ScenariosOK == \A r \in Scenarios : ScenarioOK(r)

VARIABLE pc    \* how far the main thread is

vars == <<pc, batchVars, progressVars>>

\* The blocks to write, once the main thread has got that far; with nothing to translate
\* they are as they were classified.
Output ==
  IF segments = <<>> THEN Dedupe(Enriched(Classified(run.document)))
  ELSE Dedupe(ReassembleFromPlan(merged, plan, results))

File == Exported(run.docx, run.document, Output)

Init ==
  /\ run \in Scenarios
  /\ pc = IF run.parsed THEN "classify" ELSE "parse"
  /\ OpenBatches
  /\ bar = run.before.pct /\ stored = run.before
  /\ pubs = [who \in Publishers |-> Silent]
  /\ pulses = [parse |-> 10, docx |-> 92, batch |-> 24, pulse |-> 24]
  /\ faults = 0 /\ late = FALSE

-----------------------------------------------------------------------------
(* Up to the call of the batch translator *)

\* The main thread goes on when what it publishes has been written, or has failed.
At(where) == pc = where /\ Idle("main")
Goto(where) == pc' = where

ParseTick ==
  /\ pc = "parse" /\ pulses.parse < 10 + run.ticks
  /\ Tick("parse", 13, "parsing_document", Unsaid)
  /\ UNCHANGED <<pc, batchVars>>

ParseDone ==
  /\ pc = "parse" /\ Join("parse", run.faults)
  /\ Goto("classify") /\ Bump(14)
  /\ UNCHANGED <<batchVars, stored, pubs, pulses>>

Fail(who) ==
  /\ Join(who, run.faults)
  /\ Goto("failed") /\ bar' = 0
  /\ UNCHANGED <<batchVars, stored, pubs, pulses>>

ParseFails == pc = "parse" /\ run.broken = "parse" /\ Fail("parse")

\* classify_source_blocks, and the plan; how many batches there will be is told at once.
Plan ==
  /\ At("classify")
  /\ Goto("start") /\ Bump(22)
  /\ Publish("main", Entry(24, "translating", 0))
  /\ UNCHANGED <<batchVars, stored, pulses, faults, late>>

\* Nothing to translate: the blocks are written as they were classified.
SkipTranslation ==
  /\ At("start") /\ segments = <<>>
  /\ Goto("generate") /\ Bump(88)
  /\ Publish("main", Entry(90, "generating_file", 0))
  /\ UNCHANGED <<batchVars, stored, pulses, faults, late>>

Start ==
  /\ At("start") /\ segments # <<>>
  /\ Goto("translate")
  /\ UNCHANGED <<batchVars, progressVars>>

-----------------------------------------------------------------------------
(* The event loop *)

Step(b) ==
  /\ At("translate")
  /\ TaskStep(b)
  /\ UNCHANGED <<pc, bar, stored, pubs, pulses, late>>

Finish(b) == At("translate") /\ TaskFinish(b) /\ UNCHANGED pc

StepOne(i) ==
  /\ At("translate")
  /\ SingleStep(i)
  /\ UNCHANGED <<pc, bar, stored, pubs, pulses, late>>

\* The timer fires until gather returns or raises.  Of the pulses at a percent the clock has
\* reached before only the silent ones at the start are there: a later one would publish once
\* more what is in the key.
Pulse ==
  /\ At("translate") /\ ~failing /\ doneBatches < Len(batches)
  /\ \E candidate \in run.pulses :
       /\ candidate > pulses.pulse \/ {candidate, pulses.pulse} = {24}
       /\ PulseProgress(candidate, Len(segments), doneBatches, Len(batches))
  /\ UNCHANGED <<pc, batchVars>>

\* asyncio.run cancels the tasks that are still at work, after gather has raised.
Close ==
  /\ At("translate") /\ failing
  /\ Goto("failed") /\ bar' = 0
  /\ UNCHANGED <<batchVars, stored, pubs, pulses, faults, late>>

\* ... or all of them are done.
Reassemble ==
  /\ At("translate") /\ ~failing /\ doneBatches = Len(batches)
  /\ Goto("generate") /\ Bump(88)
  /\ Publish("main", Entry(90, "generating_file", Len(segments)))
  /\ UNCHANGED <<batchVars, stored, pulses, faults, late>>

-----------------------------------------------------------------------------
(* The file *)

WriteBegin ==
  /\ At("generate")
  /\ Goto("write") /\ Bump(92)
  /\ UNCHANGED <<batchVars, stored, pubs, pulses, faults, late>>

DocxTick ==
  /\ pc = "write" /\ pulses.docx < 92 + run.ticks
  /\ Tick("docx", 95, "writing_docx", Len(segments))
  /\ UNCHANGED <<pc, batchVars>>

WriteDone ==
  /\ pc = "write" /\ Join("docx", run.faults)
  /\ Goto("written") /\ Bump(96)
  /\ Publish("main", Entry(96, "docx_ready", Len(segments)))
  /\ UNCHANGED <<batchVars, stored, pulses>>

WriteFails == pc = "write" /\ run.broken = "write" /\ Fail("docx")

\* _run_milestone_job: told, and then set, not maximised.
Export ==
  /\ At("written")
  /\ Goto("convert")
  /\ Publish("main", Entry(97, "converting_to_pdf", Unsaid))
  /\ UNCHANGED <<batchVars, bar, stored, pulses, faults, late>>

ShowDone ==
  /\ At("convert")
  /\ Goto("done") /\ bar' = 100
  /\ UNCHANGED <<batchVars, stored, pubs, pulses, faults, late>>

-----------------------------------------------------------------------------
Main ==
  \/ ParseDone \/ ParseFails \/ Plan \/ SkipTranslation \/ Start \/ Close \/ Reassemble
  \/ WriteBegin \/ WriteDone \/ WriteFails \/ Export \/ ShowDone

Ticks == ParseTick \/ DocxTick \/ Pulse

PublishStep(who) == (PublishGet(who) \/ PublishSet(who)) /\ UNCHANGED <<pc, batchVars>>
PublishFault(who) == PublishFails(who, run.faults) /\ UNCHANGED <<pc, batchVars>>

Next ==
  \/ Main \/ Ticks
  \/ \E who \in Publishers : PublishStep(who) \/ PublishFault(who)
  \/ \E b \in DOMAIN task : Step(b) \/ Finish(b)
  \/ \E i \in DOMAIN single : StepOne(i)

\* Every thread runs, and asyncio wakes every task whose answer is there.  The timers
\* need not fire.
Fairness ==
  /\ WF_vars(Main)
  /\ \A who \in Publishers : WF_vars(PublishStep(who))
  /\ WF_vars(\E b \in DOMAIN task : Step(b) \/ Finish(b))
  /\ WF_vars(\E i \in DOMAIN single : StepOne(i))

Spec == Init /\ [][Next]_vars /\ Fairness

-----------------------------------------------------------------------------
(* Properties *)

\* The values each variable takes.
TypeOK ==
  /\ run \in Scenarios
  /\ pc \in {"parse", "classify", "start", "translate", "generate", "write", "written", "convert", "done", "failed"}
  /\ \A b \in DOMAIN task :
       /\ task[b].pc \in {"waiting", "ready", "calling", "singles", "store", "answered", "finished", "raised"}
       /\ Range(task[b].misses) \subseteq Range(batches[b])
       /\ task[b].format \in 1 .. Formats /\ task[b].failures \in 0 .. Retries - 1
  /\ \A i \in DOMAIN single :
       /\ single[i].pc \in {"none", "waiting", "ready", "calling", "put", "done", "raised"}
       /\ single[i].tries \in 0 .. Retries - 1
  /\ doneBatches \in 0 .. Len(batches) /\ failing \in BOOLEAN
  /\ {bar, stored.pct} \subseteq 0 .. 100 /\ stored.stage \in Range(Stages) /\ stored.segs >= Unsaid
  /\ \A who \in Publishers : pubs[who].pc \in {"idle", "get", "set"}
  /\ pulses.parse \in 10 .. 13 /\ pulses.docx \in 92 .. 95 /\ pulses.batch \in 24 .. 88
  /\ faults \in 0 .. run.faults /\ late \in BOOLEAN

\* What is said of a text that must not change: its words and, at 100 percent, where its
\* paragraphs begin.  (Below 100 percent reassembly puts a space between sentences of two
\* paragraphs.)
Wording(t) == [k \in DOMAIN t |-> <<t[k].id, t[k].broken /\ run.percent >= 100>>]
WordingOf(b) == [r \in DOMAIN Grid(b) |-> [c \in DOMAIN Grid(b)[r] |-> Wording(Grid(b)[r][c])]]
WordsOf(b) == [r \in DOMAIN Grid(b) |-> [c \in DOMAIN Grid(b)[r] |-> Ids(Grid(b)[r][c])]]

\* Splitting a document into paragraphs, sentences and chunks and putting it together again
\* loses, doubles and moves no word, whatever is sent and what is skipped; no segment is
\* empty or larger than a chunk (chunk_text_respecting_paragraphs, _paragraph_to_piece,
\* reassemble_from_plan).
TextIsKept ==
  pc = "start" =>
    LET back == ReassembleFromPlan(merged, plan, segments) IN
    /\ FlattenSeq([b \in DOMAIN merged |-> Ids(merged[b].text)]) = FlattenSeq([b \in DOMAIN run.document |-> Ids(run.document[b].text)])
    /\ \A b \in DOMAIN merged : WordingOf(back[b]) = WordingOf(merged[b])
    /\ \A t \in Range(segments) : Len(t) \in 1 .. ChunkMax

\* The back-matter heading above block k that no heading of its rank or above has ended.
UnderSection(doc, inventory, k) ==
  LET seen(m) == Heading(doc[m]) /\ ~Unseen(doc, inventory, m)
  IN  \E h \in 1 .. k :
        /\ seen(h) /\ SectionTitle(doc[h])
        /\ \A m \in h + 1 .. k : seen(m) => ~SectionTitle(doc[m]) /\ doc[m].level > doc[h].level

\* What goes with the inventory of a part: no text of the body, though a table may, and no
\* row of another part.
OfInventory(doc, inventory, k) ==
  /\ doc[k].text = <<>> \/ doc[k].role \in {"digit", "part", "row", "orphan", "conclusion"}
  /\ doc[k].role = "row" =>
       \E i \in 1 .. k : /\ Opens(doc[i]) /\ i .. k \subseteq inventory
                         /\ Range(doc[k].numbers) = Range(doc[i].numbers)

\* A block is left out for a reason, and for none other.
LeftOutForReason ==
  LET doc == Tagged(run.document)
      inventory == Inventory(doc)
      classified == Classify(doc)
  IN  \A k \in DOMAIN doc :
        /\ k \in inventory => OfInventory(doc, inventory, k)
        /\ classified[k].action = "translate" <=>
             /\ k \notin inventory /\ ~Unseen(doc, inventory, k)
             /\ ~UnderSection(doc, inventory, k) /\ ~Clutter(doc[k])

\* A block as it is, and without a stretch of its text from the first hook to a later one.
Trims(b) ==
  {b} \cup {[b EXCEPT !.text = Without(@, Min(HooksOf(@)), j)] : j \in IF DedupeCandidate(b) THEN HooksOf(b.text) ELSE {}}

\* What may go: a paragraph that was cut off in the middle of a quotation or of its figure
\* of speech, or one with no full stop behind it that another paragraph begins with.
PrintedTwice(in, b) ==
  /\ DedupeCandidate(b)
  /\ \E t \in {c.text : c \in Trims(b)} :
       \/ CutOff(t)
       \/ /\ Last(t).mark # "stop"
          /\ \E other \in Range(in) \ {b} : \E c \in Trims(other) : DedupeCandidate(c) /\ IsPrefix(Ids(t), Ids(c.text))

\* Only the dedupe takes a block out of those to write, or a part of one, it takes out none
\* but what was printed twice or cut off, and it leaves nothing a further pass would take;
\* the others keep their order.
DedupeKeepsWhole(in, out) ==
  LET written == [k \in DOMAIN out |-> WordsOf(out[k])]
      fates(b) == {WordsOf(c) : c \in Trims(b)}
      kept == SelectSeq(in, LAMBDA b : fates(b) \cap Range(written) # {})
  IN  /\ Len(kept) = Len(out) /\ \A k \in DOMAIN out : written[k] \in fates(kept[k])
      /\ \A b \in Range(in) : fates(b) \cap Range(written) # {} \/ PrintedTwice(in, b)
      /\ DedupeOnce(out) = out

\* The texts of a file in their order: those of the blocks that are shown, and no others.
\* A new document has no place for the subtitle.
Texts(grids) == Concat(Each(Concat, grids))
FileIs(out) ==
  LET shown == SelectSeq(out, LAMBDA b : IF run.docx THEN b.action # "omit" ELSE b.action = "translate" /\ ~b.subtitle)
  IN  Concat(Texts(File)) = Concat(Texts(Each(Grid, shown)))

AtWrite == pc = "write" /\ pulses.docx = 92 /\ Idle("docx") /\ "empty" \notin run.replies

\* Every block of the document is in the file, in its place and translated, or there is a
\* reason why it is not: the sections of a book that nobody wants translated, its contents,
\* the clutter of its pages, what was printed twice or cut off, and the subtitle, which a
\* new document loses (classify_blocks, dedupe_consecutive_redundant_translate_paragraphs,
\* build_structured_document; a docx written in place only where no block was merged or
\* taken out, see InPlaceFollows).
OutputIsDocument ==
  AtWrite =>
    LET out == Output
    IN  /\ LeftOutForReason
        /\ DedupeKeepsWhole(IF segments = <<>> THEN Enriched(Classified(run.document)) ELSE merged, out)
        /\ (run.docx => Len(out) = Len(run.document)) => FileIs(out)

\* "Walk the document body in the same order as parse_docx and apply translated text for
\* TRANSLATE blocks; SKIP leaves content unchanged" (apply_translations_inplace).
InPlaceFollows == AtWrite => FileIs(Output)

\* Every segment is in one batch, in order; a batch keeps to its bounds, unless one segment
\* alone does not, and none is closed early.  The batches of the queue keep to theirs too,
\* and what is there to merge small ones never finds one it may merge (pack_segment_indices,
\* pack_segment_indices_by_words, pack_segment_indices_by_tokens).
BatchesCover ==
  LET size == [i \in DOMAIN segments |-> Len(segments[i])]
      cost(batch) == Weight(size, batch) + Overhead * Len(batch)
  IN  pc = "start" =>
        /\ FlattenSeq(batches) = Indices(size)
        /\ \A b \in DOMAIN batches :
             /\ Len(batches[b]) \in 1 .. BatchCap
             /\ cost(batches[b]) <= BatchBudget \/ Len(batches[b]) = 1
             /\ b < Len(batches) =>
                  Len(batches[b]) = BatchCap \/ cost(Append(batches[b], batches[b + 1][1])) > BatchBudget
        /\ \A least \in {1, ShardMax} : PackByWeight(size, least, ShardMax) = FillUpTo(size, ShardMax)
        /\ FlattenSeq(FillUpTo(size, ShardMax)) = Indices(size)

\* From the document to the calls and back no word is lost, doubled or moved: every word is
\* in one segment and every segment in one batch, each within its bounds.
TextIsBatched == TextIsKept /\ BatchesCover

\* What the cache says of a text is the translation of that text into that language, whoever
\* reads it: no source text that OpenAI gave back, no answer to another segment.
CacheIsTrue == Truthful(cache)

\* However replies and errors alternate, a batch is asked for once in each format and once
\* more for each failure that is not the last; and no more calls are out, and no more batches
\* at work, than the settings allow.
CallsAreBounded ==
  /\ \A b \in DOMAIN task : task[b].calls <= Retries + Formats - 1
  /\ InFlightOf({"calling"}) <= run.inflight /\ Cardinality(Active) <= run.concurrency
  /\ \A b \in DOMAIN batches : Cardinality(Busy(b)) <= 4

\* While the translation goes on, nobody who reads the key is told that all segments are
\* translated before they are (approx_segments).
CompleteIsComplete ==
  pc = "translate" /\ run.before.segs = Unsaid /\ stored.segs = Len(segments) =>
    \A i \in DOMAIN results : results[i] # NoText

\* The bar in the key never goes back, nor the stage, whatever the order in which batches
\* end and timers fire; unless a thread outlives the second it is waited for.
StoredNeverFalls ==
  [][late' \/ (stored'.pct >= stored.pct /\ Rank(stored'.stage) >= Rank(stored.stage))]_vars

\* Every translation ends: no retry goes on for ever, and no call waits for a slot that is
\* not given back.
TranslationEnds == <>(pc \in {"done", "failed"})

-----------------------------------------------------------------------------
(* The batch translator is the service the pipeline takes it for *)

ServiceState ==
  IF \/ segments = <<>>
     \/ pc \in {"parse", "classify", "start"}
     \/ pc = "failed" /\ ~failing /\ doneBatches = 0
  THEN "idle"
  ELSE IF pc = "translate" THEN "asked"
  ELSE IF failing /\ pc = "failed" THEN "raised" ELSE "returned"

Asked(s) == IF ServiceState = "idle" THEN <<>> ELSE s

Service == INSTANCE SegmentService
             WITH asked <- Asked(segments), answers <- Asked(results), state <- ServiceState, language <- run.target, Unanswered <- NoText

\* translate_segments_batched_async, with its cache, formats, retries and fallbacks,
\* implements SegmentService.
ServesSegments == Service!Spec
=============================================================================
