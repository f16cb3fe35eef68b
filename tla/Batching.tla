------------------------------ MODULE Batching ------------------------------
(***************************************************************************)
(* The packers: paragraphs into chunks, segments into the batches of one   *)
(* API call, segments into the chunks of the queue.  They all fill a group *)
(* from left to right and close it before the first item that does not fit *)
(* any more; what fits is what they differ in.                             *)
(***************************************************************************)
EXTENDS Integers, SequencesExt, FiniteSetsExt

\* Op(x) with x evaluated once, where TLC would evaluate it at every place Op has it.
Once(Op(_), x) == CHOOSE r \in {Op(v) : v \in {x}} : TRUE

Concat(seqs) == LET all(ss) == FoldLeft(LAMBDA done, s : done \o s, <<>>, ss) IN Once(all, seqs)
Each(Op(_), seq) == LET all(s) == [k \in DOMAIN s |-> Op(s[k])] IN Once(all, seq)

\* The items that pass Test, in their order: SelectSeq as a fold.
Chosen(Test(_), items) == FoldLeft(LAMBDA kept, x : IF Test(x) THEN Append(kept, x) ELSE kept, <<>>, items)

\* items in groups: an item joins the last group if Fits lets it, or opens the next one.
GroupWhile(Fits(_, _), items) ==
  LET put(groups, x) == IF groups # <<>> /\ Fits(Last(groups), x)
                        THEN [groups EXCEPT ![Len(groups)] = Append(@, x)]
                        ELSE Append(groups, <<x>>)
      all(seq) == FoldLeft(put, <<>>, seq)
  IN  Once(all, items)

Indices(size) == [i \in DOMAIN size |-> i]
Weight(size, batch) == FoldLeft(LAMBDA sum, i : sum + size[i], 0, batch)

-----------------------------------------------------------------------------
(* The batches of one API call *)

PackLoosely(size, budget, cap) ==
  GroupWhile(LAMBDA batch, i : Weight(size, batch) <= budget /\ (cap = 0 \/ Len(batch) < cap), Indices(size))

\* pack_segment_indices: size counts the framing of a segment, cap = 0 is no cap.
PackSegmentIndices(size, budget, cap) ==
  GroupWhile(LAMBDA batch, i : /\ Weight(size, batch) + size[i] <= budget
                               /\ cap = 0 \/ Len(batch) < cap,
             Indices(size))

-----------------------------------------------------------------------------
(* The chunks of the queue: by words and by tokens the same two steps *)

FillUpTo(size, most) ==
  GroupWhile(LAMBDA batch, i : Weight(size, batch) + size[i] <= most, Indices(size))

\* From the last batch to the second: one below the least joins the batch before it, if
\* both keep to the most.
MergeBackward(size, least, most, batches) ==
  FoldRight(LAMBDA i, bs :
              IF /\ Weight(size, bs[i]) < least
                 /\ Weight(size, bs[i - 1]) + Weight(size, bs[i]) <= most
              THEN SubSeq(bs, 1, i - 2) \o <<bs[i - 1] \o bs[i]>> \o SubSeq(bs, i + 1, Len(bs))
              ELSE bs,
            [i \in 1 .. Len(batches) - 1 |-> i + 1], batches)

\* From the first on: a batch takes in the next one while it is below the least.
MergeForward(size, least, most, batches) ==
  Each(Concat, GroupWhile(LAMBDA joined, b : /\ Weight(size, Concat(joined)) < least
                                             /\ Weight(size, Concat(joined) \o b) <= most,
                          batches))

\* pack_segment_indices_by_words, pack_segment_indices_by_tokens
PackByWeight(size, least, most) ==
  LET batches == FillUpTo(size, most)
  IN  IF least > 0 /\ Len(batches) >= 2
      THEN MergeForward(size, least, most, MergeBackward(size, least, most, batches))
      ELSE batches
=============================================================================
