----------------------------- MODULE ReplyParser -----------------------------
(***************************************************************************)
(* app/services/translator/batch_translator.py: what is made of OpenAI's   *)
(* answer to a batch.  The prompt asks for one JSON object whose keys are  *)
(* the numbers of the segments, from 0; models answer in other ways too.   *)
(* A value of the reply is a text, or a member of NoTexts where it holds   *)
(* none; a reply is what is left once the JSON is repaired and its         *)
(* wrappers of one key are taken off.                                      *)
(***************************************************************************)
EXTENDS Batching

NoText == <<[none |-> TRUE]>>
NotParsed == <<NoText>>

\* The numbered entries 0 .. n - 1, or 1 .. n where they do not start at 0.
InOrder(entries, n) ==
  IF 0 .. n - 1 \subseteq DOMAIN entries THEN [i \in 1 .. n |-> entries[i - 1]]
  ELSE IF 1 .. n \subseteq DOMAIN entries THEN [i \in 1 .. n |-> entries[i]]
  ELSE NotParsed

\* _extract_ordered_segments_from_dict: keys that are no numbers are passed over, a
\* numbered entry without a text spoils the reply.
FromMap(entries, n) ==
  IF \E k \in DOMAIN entries : entries[k] = NoText THEN NotParsed ELSE InOrder(entries, n)

\* _parse_segment_list: the values themselves, in order; or rows of an id and a text.
FromValues(values, n) ==
  IF Len(values) # n \/ \E k \in DOMAIN values : values[k] = NoText THEN NotParsed ELSE values

WithText(rows) == Chosen(LAMBDA row : row.text # NoText, rows)

\* A row without a text is passed over unless there is one row for each segment; rows
\* with an id and rows without do not go together; of two with one id the last counts.
FromRows(rows, n) ==
  LET told == WithText(rows)
      ids == {told[k].id : k \in DOMAIN told} \ {-1}
      last(id) == CHOOSE k \in DOMAIN told : told[k].id = id /\ \A m \in k + 1 .. Len(told) : told[m].id # id
  IN  IF \/ Len(rows) < n
         \/ Len(rows) = n /\ Len(told) < n
         \/ ids # {} /\ \E k \in DOMAIN told : told[k].id = -1
      THEN NotParsed
      ELSE IF ids # {} THEN InOrder([id \in ids |-> told[last(id)].text], n)
      ELSE IF Len(told) = n THEN [k \in 1 .. n |-> told[k].text] ELSE NotParsed

FromReply(reply, n) ==
  CASE reply.kind = "map" -> FromMap(reply.entries, n)
    [] reply.kind = "values" -> FromValues(reply.values, n)
    [] reply.kind = "rows" -> FromRows(reply.rows, n)
    [] OTHER -> NotParsed

\* _parse_multi_segment_json: the reply itself or, if it is an object that does not do,
\* the first object or list in it that does.
Parse(reply, n) ==
  LET found == {k \in DOMAIN reply.within : FromReply(reply.within[k], n) # NotParsed}
  IN  IF FromReply(reply, n) # NotParsed \/ reply.kind # "map" \/ found = {}
      THEN FromReply(reply, n)
      ELSE FromReply(reply.within[CHOOSE k \in found : \A m \in found : k <= m], n)

-----------------------------------------------------------------------------
(* The replies a model gives to texts it numbers as it was asked to, or from 1 *)

Reply == [kind |-> "junk", within |-> <<>>]
Map(first, texts) ==
  [kind |-> "map", entries |-> [k \in first .. first + Len(texts) - 1 |-> texts[k - first + 1]], within |-> <<>>]
Values(texts) == [kind |-> "values", values |-> texts, within |-> <<>>]
Rows(first, texts) ==
  [kind |-> "rows", rows |-> [k \in DOMAIN texts |-> [id |-> first + k - 1, text |-> texts[k]]], within |-> <<>>]

Shapes == {"zero", "one", "values", "rows", "unnamed", "extra", "nested", "short", "untold", "empty", "junk"}

RepliesTo(texts) ==
  LET n == Len(texts) IN
  [zero    |-> Map(0, texts),
   one     |-> Map(1, texts),
   values  |-> Values(texts),
   rows    |-> Rows(0, texts),
   unnamed |-> [Rows(0, texts) EXCEPT !.rows = [k \in DOMAIN texts |-> [id |-> -1, text |-> texts[k]]]],
   extra   |-> [Rows(1, texts) EXCEPT !.rows = Append(@, [id |-> -1, text |-> NoText])],
   nested  |-> [Map(0, <<>>) EXCEPT !.within = <<Reply, Map(1, texts)>>],
   short   |-> Map(0, SubSeq(texts, 1, n - 1)),
   untold  |-> Map(0, [texts EXCEPT ![n] = NoText]),
   empty   |-> Map(0, [texts EXCEPT ![n] = <<>>]),
   junk    |-> Reply]
=============================================================================
