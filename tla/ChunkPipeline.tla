--------------------------- MODULE ChunkPipeline ---------------------------
(***************************************************************************)
(* One document job from its upload to its end: chunk workers and RQ       *)
(* workers over the shared state, with the user who uploads the document   *)
(* again when the job failed and the cleanup pass that removes its files.  *)
(***************************************************************************)
EXTENDS ChunkWorker, RqTasks

Init ==
  /\ nBatches \in 0 .. MaxBatches
  /\ status = "pending" /\ attempt = 0 /\ usageRows = 0
  /\ input = TRUE /\ manifest = FALSE /\ outDir = FALSE
  /\ out = [b \in Batches |-> "none"]
  /\ total = 0 /\ done = 0 /\ failed = 0 /\ doneMark = {} /\ failMark = {}
  /\ chunkLock = {} /\ finEnqueued = FALSE /\ finRunning = FALSE /\ inflight = 0
  /\ chunkQueue = <<>> /\ rqQueue = <<"prepare">>
  /\ workQueue = [p \in Procs |-> <<>>]
  /\ hnd = [h \in Handlers |-> IdleHandler]
  /\ wrk = [w \in Workers |-> IdleWorker]
  /\ retryThreads = [w \in Workers |-> <<>>]
  /\ faults = 0 /\ resubmits = 0

\* create_and_enqueue_job_from_bytes on a document whose job FAILED: the same
\* job starts over; nothing of its files but the input, and no Redis key, is reset.
Resubmit ==
  /\ status = "failed" /\ resubmits < MaxResubmits
  /\ status' = "pending" /\ attempt' = 0 /\ input' = TRUE
  /\ rqQueue' = Append(rqQueue, "prepare")
  /\ resubmits' = resubmits + 1
  /\ UNCHANGED <<nBatches, usageRows, manifest, outDir, out, counterVars, locks,
                 finRunning, chunkQueue, handlerVars, workerVars, faults>>

\* cleanup_expired_job_files goes by the directory's age, whatever the job does.
Cleanup ==
  /\ Fault("cleanup")
  /\ input' = FALSE /\ manifest' = FALSE /\ outDir' = FALSE
  /\ out' = [b \in Batches |-> "none"]
  /\ UNCHANGED <<dbVars, counterVars, locks, finRunning, queues, handlerVars, workerVars>>

System ==
  \/ \E p \in Procs : Pop(p)
  \/ \E h \in Handlers : HandlerStep(h)
  \/ \E w \in Workers : WorkerStep(w) \/ RetryThreadRuns(w)

Next == System \/ ChunkWorkerFault \/ RqTasksFault \/ Resubmit \/ Cleanup

Spec == Init /\ [][Next]_vars

\* Every task of a running process gets to its next await, every daemon thread
\* that nobody ended to its enqueue.
Fairness ==
  /\ \A p \in Procs : WF_vars(Pop(p))
  /\ \A h \in Handlers : WF_vars(HandlerStep(h))
  /\ \A w \in Workers : WF_vars(WorkerStep(w)) /\ WF_vars(RetryThreadRuns(w))

FairSpec == Spec /\ Fairness

-----------------------------------------------------------------------------
(* Safety, under every fault *)

\* chunk_worker.py:117-119,193-194 and document_chunk_prepare.py:123-137: the
\* global counter never exceeds the cap and never counts less than the handlers
\* and inline batches that hold a slot, so no more than the cap call the API.
SlotsAccounted ==
  /\ Cardinality(SlotHandlers) + Cardinality(InlineSlots) <= inflight
  /\ inflight <= InflightCap

\* chunk_worker.py:90-99,215-216 (without lock expiry): no two handlers work on one
\* batch at a time, so no two write its output file.
BatchExclusive ==
  \A g, h \in Handlers : HoldsLock(g) /\ HoldsLock(h) /\ g # h => Batch(g) # Batch(h)

\* rq_tasks.py:342-344: at most one worker is past the finalize lock, and while
\* one is, the lock is held.
FinalizeExclusive ==
  \A v, w \in Workers :
     wrk[v].pc \in FinalizeHeld => finRunning /\ (wrk[w].pc \in FinalizeHeld => v = w)

\* chunk_queue.py:123-134: a counter, with the INCRs under way, never exceeds the
\* batches marked, whatever was retried, duplicated or reset.
DoneIncrs == {h \in Handlers : hnd[h].pc = "incr"}
FailIncrs == {h \in Handlers : hnd[h].pc = "incr_failed"}
InlineIncrs == {w \in Workers : wrk[w].pc = "i_incr"}

NeverOverCounted ==
  /\ done + Cardinality(DoneIncrs) + Cardinality(InlineIncrs) <= Cardinality(doneMark)
  /\ failed + Cardinality(FailIncrs) <= Cardinality(failMark)

\* rq_tasks.py:363-392: a job completes, or gets past the checks of finalize, only
\* when each of its batches was translated once at least.
NoPartialCompletion ==
  status = "completed" \/ (\E w \in Workers : wrk[w].pc \in {"f_merge", "f_charge"})
    => doneMark = Batches

\* rq_tasks.py:318-319,499-529 ("idempotent"): however often finalize is retried or
\* enqueued, the user is charged for the job once at most.
ChargedOnce == usageRows <= 1

-----------------------------------------------------------------------------
(* Safety under some faults: README.md says which, and what breaks it *)

\* rq_tasks.py:172-181,331-340: no late prepare or finalize takes a completed job
\* back, and whatever happened to the row, it is completed if it was charged (crashes
\* allowed, Redis errors and removed files not).
CompletedIsFinal == usageRows > 0 => status = "completed"

\* chunk_worker.py:189-214: no batch is counted both done and failed, so
\* ok + fail = total says every batch has had its end (no Redis errors).
BatchDecidedOnce == doneMark \cap failMark = {}

\* A job that waits or runs is in somebody's hands: on a list, with a worker, a
\* handler or a thread (no crashes, no Redis errors).
InHand ==
  \/ rqQueue # <<>> \/ chunkQueue # <<>>
  \/ \E p \in Procs : workQueue[p] # <<>>
  \/ \E h \in Handlers : hnd[h].pc # "idle"
  \/ \E w \in Workers : wrk[w].pc # "idle" \/ retryThreads[w] # <<>>

JobIsMoving == status \in {"pending", "processing"} => InHand

\* rq_tasks.py:100 ("Return True if a retry was scheduled"): a job that waits for
\* a further attempt gets it.
RetryUnderWay == status = "pending" /\ attempt > 0 => InHand

\* Every uploaded document is translated and charged, or its job fails.
Terminates == <>[](status \in {"completed", "failed"})
=============================================================================
