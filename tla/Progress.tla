------------------------------ MODULE Progress ------------------------------
(***************************************************************************)
(* The bar of a translation: the percent in the memory of the process that *)
(* runs it and the key translator:job:<id>:progress, which is read, merged *)
(* and written back in two round trips by the main thread and by the       *)
(* threads that move the bar while a document is parsed and written.       *)
(***************************************************************************)
EXTENDS Integers, FiniteSetsExt

VARIABLES
  bar,       \* progress_percent of the job in memory
  stored,    \* the key: percent, stage and how many segments are said to be done
  pubs,      \* per thread, what it is about to write
  pulses,    \* pulse_val, docx_pulse_pct, and batch_pct, pulse_pct of prog_state
  faults,    \* Redis failed, or a thread was not waited for any longer
  late       \* ... the second

progressVars == <<bar, stored, pubs, pulses, faults, late>>

Publishers == {"main", "parse", "docx"}

\* The stages in the order they are reached.
Stages == <<"none", "parsing_document", "translating", "generating_file", "writing_docx",
            "docx_ready", "converting_to_pdf">>
Rank(stage) == CHOOSE k \in DOMAIN Stages : Stages[k] = stage

\* The percents a stage is published with.
PercentsOf(stage) ==
  CASE stage = "none" -> 0 .. 10
    [] stage = "parsing_document" -> 11 .. 13
    [] stage = "translating" -> 24 .. 88
    [] stage = "generating_file" -> {90}
    [] stage = "writing_docx" -> 93 .. 95
    [] stage = "docx_ready" -> {96}
    [] stage = "converting_to_pdf" -> {97}

Unsaid == -1
Entry(pct, stage, segs) == [pct |-> pct, stage |-> stage, segs |-> segs]
Silent == [pc |-> "idle", new |-> Entry(0, "none", Unsaid), prev |-> Entry(0, "none", Unsaid)]
OfStage(entry) == entry.pct \in PercentsOf(entry.stage)
Idle(who) == pubs[who].pc = "idle"

Bump(pct) == bar' = Max({bar, pct})

\* publish_translation_progress: GET ...
Publish(who, entry) == pubs' = [pubs EXCEPT ![who] = [Silent EXCEPT !.pc = "get", !.new = entry]]

PublishGet(who) ==
  /\ pubs[who].pc = "get"
  /\ pubs' = [pubs EXCEPT ![who].pc = "set", ![who].prev = stored]
  /\ UNCHANGED <<bar, stored, pulses, faults, late>>

MergedAsTold(prev, new) == [new EXCEPT !.segs = IF @ = Unsaid THEN prev.segs ELSE @]

\* The higher percent with its stage; what is not said is kept.
Merged(prev, new) ==
  [pct   |-> Max({prev.pct, new.pct}),
   stage |-> IF prev.pct > new.pct THEN prev.stage ELSE new.stage,
   segs  |-> IF new.segs = Unsaid THEN prev.segs ELSE new.segs]

\* ... and SET.
PublishSet(who) ==
  /\ pubs[who].pc = "set"
  /\ stored' = Merged(pubs[who].prev, pubs[who].new)
  /\ pubs' = [pubs EXCEPT ![who] = Silent]
  /\ UNCHANGED <<bar, pulses, faults, late>>

\* Redis cannot be reached; the error is only logged.
PublishFails(who, most) ==
  /\ ~Idle(who) /\ faults < most
  /\ faults' = faults + 1
  /\ pubs' = [pubs EXCEPT ![who] = Silent]
  /\ UNCHANGED <<bar, stored, pulses, late>>

\* A thread that moves the bar: one more percent up to its last, in memory and in the key.
Tick(who, most, stage, segs) ==
  /\ Idle(who) /\ pulses[who] < most
  /\ pulses' = [pulses EXCEPT ![who] = @ + 1]
  /\ Bump(pulses[who] + 1)
  /\ Publish(who, Entry(pulses[who] + 1, stage, segs))
  /\ UNCHANGED <<stored, faults, late>>

\* It is told to stop and waited for, but not for long.
Join(who, most) ==
  \/ Idle(who) /\ UNCHANGED <<faults, late>>
  \/ ~Idle(who) /\ faults < most /\ faults' = faults + 1 /\ late' = TRUE

-----------------------------------------------------------------------------
(* The bar while OpenAI is at work: stages/translate.py *)

Clamped(pct) == Min({88, Max({23, pct})})

ApproxSegmentsRounded(d, n, done, of) ==
  IF done >= of THEN n ELSE Min({n, (n * (d - 24) + 32) \div 64})

\* As many segments as the percent stands for, and all of them once every batch is done.
ApproxSegments(d, n, done, of) ==
  IF done >= of THEN n ELSE Min({n, (n * (d - 24)) \div 64})

\* _apply_translation_progress: the memory first, then the key.
ApplyProgress(pct, n, done, of) ==
  /\ Bump(Clamped(pct))
  /\ Publish("main", Entry(Clamped(pct), "translating", ApproxSegments(Clamped(pct), n, done, of)))

\* on_batch_done
BatchProgress(n, done, of) ==
  LET pct == Max({pulses.batch, Clamped(22 + (66 * done) \div of)}) IN
  /\ pulses' = [pulses EXCEPT !.batch = pct]
  /\ ApplyProgress(pct, n, done, of)
  /\ UNCHANGED <<stored, faults, late>>

\* on_translation_pulse: by the clock the bar would stand at candidate.
PulseProgress(candidate, n, done, of) ==
  LET pulse == Max({pulses.pulse, candidate})
      merged == Max({pulses.batch, Min({87, pulse})})
  IN  /\ pulses' = [pulses EXCEPT !.pulse = pulse]
      /\ IF merged > pulses.batch \/ pulse > 24 THEN ApplyProgress(merged, n, done, of)
         ELSE UNCHANGED <<bar, pubs>>
      /\ UNCHANGED <<stored, faults, late>>
=============================================================================
