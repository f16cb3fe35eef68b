--------------------------- MODULE SegmentService ---------------------------
(***************************************************************************)
(* What the pipeline relies on translate_segments_batched_async for:       *)
(* "results align 1:1 with segment_texts".  It is asked once.  The answer  *)
(* to a segment is the segment in the target language, the segment itself  *)
(* or nothing, never what belongs to another one; it is given once; and    *)
(* the service returns when all of them are answered, or it raises.        *)
(***************************************************************************)
EXTENDS Integers, Sequences

CONSTANT Unanswered

VARIABLES asked, answers, state, language

serviceVars == <<asked, answers, state, language>>

\* A text is a sequence of words that say which language they are in.
MayAnswer(text, answer) ==
  answer \in {text, <<>>, [k \in DOMAIN text |-> [text[k] EXCEPT !.lang = language]]}

Init ==
  /\ state = "idle"
  /\ asked = <<>> /\ answers = <<>>

Ask ==
  /\ state = "idle" /\ state' = "asked"
  /\ asked' # <<>>
  /\ answers' = [i \in DOMAIN asked' |-> Unanswered]
  /\ UNCHANGED language

\* Some segments, those of a batch, are answered together.
Answer ==
  /\ state = "asked"
  /\ DOMAIN answers' = DOMAIN asked
  /\ \A i \in DOMAIN asked :
       answers'[i] # answers[i] => answers[i] = Unanswered /\ MayAnswer(asked[i], answers'[i])
  /\ UNCHANGED <<asked, state, language>>

Return ==
  /\ state = "asked" /\ \A i \in DOMAIN asked : answers[i] # Unanswered
  /\ state' = "returned"
  /\ UNCHANGED <<asked, answers, language>>

Raise ==
  /\ state = "asked" /\ state' = "raised"
  /\ UNCHANGED <<asked, answers, language>>

Next == Ask \/ Answer \/ Return \/ Raise

Spec == Init /\ [][Next]_serviceVars
=============================================================================
