--------------------------- MODULE BatchTranslator ---------------------------
(***************************************************************************)
(* app/services/translator/batch_translator.py: the segments of a document *)
(* are packed into batches, each an asyncio task.  A task asks the cache,  *)
(* sends what it does not know to OpenAI in one call, asks again in a      *)
(* looser response format where the reply cannot be parsed, and in the end *)
(* falls back on one call for each segment.  Two semaphores bound the      *)
(* tasks and the calls; the first task to raise fails the translation.     *)
(*                                                                         *)
(* A task or a call looks into the cache as the first thing it does in its *)
(* slot, so both are one step.  The callbacks of the bar block the event   *)
(* loop: no task moves while the main thread is publishing.                *)
(***************************************************************************)
EXTENDS Progress, Classifier, TextPlan, ReplyParser

CONSTANTS
  BatchBudget,    \* translate_api_batch_max_input_tokens, less the reserve for the prompt
  BatchCap,       \* translate_api_batch_max_segments
  Overhead,       \* overhead_per_seg
  Retries,        \* gpt_max_retries
  Formats         \* response formats, from the strictest to none

ASSUME BatchConstants ==
  /\ {BatchBudget, BatchCap, Retries, Formats} \subseteq Nat \ {0}
  /\ Overhead \in Nat

VARIABLES
  run,          \* the document, the settings, and what goes wrong in this behaviour
  merged,       \* its blocks, after merge_adjacent_translate_paragraphs
  plan,         \* block_work
  segments,     \* global_jobs
  batches,      \* the indices of each batch
  task,         \* per batch: run_batch
  single,       \* per segment: _async_translate_one
  got,          \* per segment: what its task or call has in hand
  results,
  cache,        \* translator:tx:v2, as a function of key and target
  doneBatches,
  failing       \* a task has raised, and gather with it

given == <<run, merged, plan, segments, batches>>
batchVars == <<given, task, single, got, results, cache, doneBatches, failing>>

Translated(t) == [k \in DOMAIN t |-> [t[k] EXCEPT !.lang = run.target]]
KeyOf(i) == [text |-> segments[i], target |-> run.target]

NewTask == [pc |-> "waiting", misses |-> <<>>, format |-> 1, failures |-> 0, calls |-> 0]
NewSingle == [pc |-> "none", tries |-> 0]

\* pack_segment_indices as it is called: the framing of a segment counts.
BatchesOf(texts) ==
  PackSegmentIndices([i \in DOMAIN texts |-> Len(texts[i]) + Overhead], BatchBudget, BatchCap)

\* classify_source_blocks, enrich_classified_blocks, build_translation_plan, and translate_segments_batched_async up to gather.
OpenBatches ==
  /\ merged = MergeAdjacent(Enriched(Classified(run.document)))
  /\ plan = TranslationPlan(merged, run.percent)
  /\ segments = GlobalJobs(plan)
  /\ batches = BatchesOf(segments)
  /\ task = [b \in DOMAIN batches |-> NewTask]
  /\ single = [i \in DOMAIN segments |-> NewSingle]
  /\ got = [i \in DOMAIN segments |-> NoText]
  /\ results = got
  /\ cache = run.cached
  /\ doneBatches = 0 /\ failing = FALSE

-----------------------------------------------------------------------------
(* The semaphores *)

Active == {b \in DOMAIN task : task[b].pc \notin {"waiting", "finished", "raised"}}

InFlightOf(tasks) ==
  Cardinality({b \in DOMAIN task : task[b].pc \in tasks}) + Cardinality({i \in DOMAIN single : single[i].pc = "calling"})

\* The fallback runs inside the call of its batch.
InFlightKept == InFlightOf({"calling", "singles"})

InFlight == InFlightOf({"calling"})

\* _fallback_single_segment_parallelism, and the semaphore local to one batch.
FallbackParallelism == Max({1, Min({4, Max({1, run.concurrency \div 2})})})
Busy(b) == {i \in Range(batches[b]) : single[i].pc \in {"ready", "calling", "put"}}
BatchOf(i) == CHOOSE b \in DOMAIN batches : i \in Range(batches[b])

-----------------------------------------------------------------------------
(* The cache: app/services/translation_cache.py *)

\* Redis answers, or it does not and the error is swallowed.
Reached(ok) == IF ok THEN UNCHANGED faults ELSE faults < run.faults /\ faults' = faults + 1

\* lookup_cached_translations: which of the segments are found; a blank one is its own.
Found(is, ok) == {i \in is : segments[i] = <<>> \/ (ok /\ KeyOf(i) \in DOMAIN cache)}
Missing(batch, found) == Chosen(LAMBDA i : i \notin found, batch)
Known(i) == IF segments[i] = <<>> THEN <<>> ELSE cache[KeyOf(i)]
Take(found) == got' = [i \in DOMAIN got |-> IF i \in found THEN Known(i) ELSE got[i]]

AnyAnswer(i) == got[i] # <<>>
WorthStoring(i) == segments[i] # <<>> /\ got[i] # <<>> /\ got[i] # segments[i]

\* store_cached_translations
Store(is, ok) ==
  LET sent == {i \in is : WorthStoring(i)}
      keys == {KeyOf(i) : i \in sent}
      value(key) == got[CHOOSE i \in sent : KeyOf(i) = key]
  IN  cache' = IF ok THEN [key \in keys \cup DOMAIN cache |-> IF key \in keys THEN value(key) ELSE cache[key]]
               ELSE cache

-----------------------------------------------------------------------------
(* A batch: run_batch, _async_translate_multi, _openai_translate_multi_segment *)

To(b, pc) == task' = [task EXCEPT ![b].pc = pc]

\* A task raises: its slots are free, and gather fails.
Raise(b) == To(b, "raised") /\ failing' = TRUE

\* One call for each of the misses.
FallBack(b, misses) ==
  /\ task' = [task EXCEPT ![b].pc = "singles", ![b].misses = misses]
  /\ single' = [i \in DOMAIN single |-> IF i \in Range(misses) THEN [single[i] EXCEPT !.pc = "waiting"] ELSE single[i]]

CanLoosenOnceMore(b) == task[b].format <= Formats
CanLoosen(b) == task[b].format < Formats

AskTheSame(b) == To(b, "ready")
Loosen(b) == task' = [task EXCEPT ![b].pc = "ready", ![b].format = @ + 1]

\* A batch of one segment leaves the cache to the call for it.
TaskStart(b, ok) ==
  LET all == Range(batches[b])
      found == Found(all, ok)
      misses == Missing(batches[b], found)
  IN  /\ task[b].pc = "waiting" /\ Cardinality(Active) < run.concurrency
      /\ IF Len(batches[b]) = 1
         THEN ok /\ FallBack(b, batches[b]) /\ UNCHANGED <<got, faults>>
         ELSE /\ Reached(ok)
              /\ Take(found)
              /\ CASE misses = <<>> -> To(b, "answered") /\ UNCHANGED single
                   [] Len(misses) = 1 -> FallBack(b, misses)
                   [] OTHER -> task' = [task EXCEPT ![b].pc = "ready", ![b].misses = misses] /\ UNCHANGED single
      /\ UNCHANGED <<given, results, cache, doneBatches, failing>>

BatchCall(b) ==
  /\ task[b].pc = "ready" /\ InFlight < run.inflight
  /\ task' = [task EXCEPT ![b].pc = "calling", ![b].calls = @ + 1]
  /\ UNCHANGED <<given, single, got, results, cache, doneBatches, failing, faults>>

\* Where the answers of a call belong: misses[k] gets the k-th of them.
PlacesFromTheFirst(b) == [k \in DOMAIN task[b].misses |-> batches[b][k]]
Places(b) == task[b].misses

BatchReply(b, shape) ==
  LET n == Len(task[b].misses)
      texts == [k \in 1 .. n |-> Translated(segments[task[b].misses[k]])]
      parsed == Parse(RepliesTo(texts)[shape], n)
      position(i) == CHOOSE k \in 1 .. n : Places(b)[k] = i
  IN  /\ task[b].pc = "calling"
      /\ IF parsed # NotParsed
         THEN /\ got' = [i \in DOMAIN got |-> IF i \in Range(Places(b)) THEN parsed[position(i)] ELSE got[i]]
              /\ To(b, "store")
              /\ UNCHANGED single
         ELSE /\ IF CanLoosen(b) THEN Loosen(b) /\ UNCHANGED single ELSE FallBack(b, task[b].misses)
              /\ UNCHANGED got
      /\ UNCHANGED <<given, results, cache, doneBatches, failing, faults>>

\* "busy" is a rate limit, a timeout or a 5xx and counts as a failure; "rejected" is a 400
\* and may be due to the format; any other answer raises.
BatchError(b, error) ==
  /\ task[b].pc = "calling"
  /\ CASE error = "busy" /\ task[b].failures + 1 < Retries ->
            task' = [task EXCEPT ![b].pc = "ready", ![b].failures = @ + 1] /\ UNCHANGED failing
       [] error = "rejected" /\ CanLoosen(b) -> Loosen(b) /\ UNCHANGED failing
       [] OTHER -> Raise(b)
  /\ UNCHANGED <<given, single, got, results, cache, doneBatches, faults>>

\* All of the single calls have returned; what a batch of one has, its call has stored.
TaskGather(b) ==
  /\ task[b].pc = "singles" /\ \A i \in Range(task[b].misses) : single[i].pc = "done"
  /\ To(b, IF Len(batches[b]) = 1 THEN "answered" ELSE "store")
  /\ UNCHANGED <<given, single, got, results, cache, doneBatches, failing, faults>>

TaskStore(b, ok) ==
  /\ task[b].pc = "store" /\ Reached(ok)
  /\ Store(Range(task[b].misses), ok)
  /\ To(b, "answered")
  /\ UNCHANGED <<given, single, got, results, doneBatches, failing>>

TaskFinish(b) ==
  /\ task[b].pc = "answered"
  /\ To(b, "finished")
  /\ results' = [i \in DOMAIN results |-> IF i \in Range(batches[b]) THEN got[i] ELSE results[i]]
  /\ doneBatches' = doneBatches + 1
  /\ BatchProgress(Len(segments), doneBatches + 1, Len(batches))
  /\ UNCHANGED <<given, single, got, cache, failing>>

-----------------------------------------------------------------------------
(* A call for one segment: _async_translate_one *)

OneTo(i, pc) == single' = [single EXCEPT ![i].pc = pc]

SingleStart(i, ok) ==
  LET found == Found({i}, ok)
  IN  /\ single[i].pc = "waiting" /\ Cardinality(Busy(BatchOf(i))) < FallbackParallelism
      /\ Reached(ok)
      /\ Take(found)
      /\ OneTo(i, IF found = {} THEN "ready" ELSE "done")
      /\ UNCHANGED <<given, task, results, cache, doneBatches, failing>>

SingleCall(i) ==
  /\ single[i].pc = "ready" /\ InFlight < run.inflight
  /\ OneTo(i, "calling")
  /\ UNCHANGED <<given, task, got, results, cache, doneBatches, failing, faults>>

\* An empty answer gives the segment back as it is, and nothing is stored.
SingleReply(i, empty) ==
  /\ single[i].pc = "calling"
  /\ got' = [got EXCEPT ![i] = IF empty THEN segments[i] ELSE Translated(segments[i])]
  /\ OneTo(i, IF empty THEN "done" ELSE "put")
  /\ UNCHANGED <<given, task, results, cache, doneBatches, failing, faults>>

SinglePut(i, ok) ==
  /\ single[i].pc = "put" /\ Reached(ok)
  /\ Store({i}, ok)
  /\ OneTo(i, "done")
  /\ UNCHANGED <<given, task, got, results, doneBatches, failing>>

SingleError(i, error) ==
  /\ single[i].pc = "calling"
  /\ IF error = "busy" /\ single[i].tries + 1 < Retries
     THEN single' = [single EXCEPT ![i].pc = "ready", ![i].tries = @ + 1] /\ UNCHANGED <<task, failing>>
     ELSE OneTo(i, "raised") /\ Raise(BatchOf(i))
  /\ UNCHANGED <<given, got, results, cache, doneBatches, faults>>

-----------------------------------------------------------------------------
\* What one task does next, and one call of a fallback.
TaskStep(b) ==
  \/ \E ok \in BOOLEAN : TaskStart(b, ok) \/ TaskStore(b, ok)
  \/ BatchCall(b) \/ TaskGather(b)
  \/ \E shape \in run.replies : BatchReply(b, shape)
  \/ \E error \in run.errors : BatchError(b, error)

SingleStep(i) ==
  \/ \E ok \in BOOLEAN : SingleStart(i, ok) \/ SinglePut(i, ok)
  \/ SingleCall(i)
  \/ \E empty \in {FALSE} \cup {shape = "empty" : shape \in run.replies} : SingleReply(i, empty)
  \/ \E error \in run.errors : SingleError(i, error)
=============================================================================
