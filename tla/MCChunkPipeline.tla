--------------------------- MODULE MCChunkPipeline ---------------------------
(* Instances of ChunkPipeline for TLC. *)
EXTENDS ChunkPipeline, TLC

CONSTANTS h1, h2, w1, w2     \* model values

\* Both handlers in one chunk_worker process, or one in each of two.
OneProcess  == [h \in Handlers |-> 1]
TwoProcesses == (h1 :> 1) @@ (h2 :> 2)

Symmetric == Permutations(Handlers) \cup Permutations(Workers)
=============================================================================
