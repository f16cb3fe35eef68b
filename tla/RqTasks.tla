------------------------------ MODULE RqTasks ------------------------------
(***************************************************************************)
(* app/workers/rq_tasks.py and app/services/document_chunk_prepare.py: an  *)
(* RQ worker takes a job off the list and runs it to its end.  "prepare"   *)
(* parses the document, writes the manifest and hands the batches out (or  *)
(* translates a small document inline); "finalize" merges the outputs and  *)
(* charges the user.  One action per database commit, Redis command, file  *)
(* write or await.                                                         *)
(***************************************************************************)
EXTENDS PipelineState

\* Groups of variables an action may leave alone.
env   == <<handlerVars, boundVars>>
job   == <<dbVars, fileVars>>
redis == <<counterVars, locks, finRunning, queues>>

\* Worker w goes on at program point `to', in context ctx.  Its locals are gone
\* when the job function has ended; where prepare_document_chunk_jobs has returned
\* or raised only the row is left, which stays in the session.
GoAs(w, from, to, ctx) ==
  /\ wrk[w].pc = from
  /\ wrk' = [wrk EXCEPT ![w] =
               IF to \in {"idle", "exit"} THEN [IdleWorker EXCEPT !.pc = to]
               ELSE IF to \in {"p_reread", "p_except"}
               THEN [IdleWorker EXCEPT !.pc = to, !.tried = wrk[w].tried]
               ELSE [@ EXCEPT !.pc = to, !.ctx = ctx]]

Go(w, from, to) == GoAs(w, from, to, wrk[w].ctx)

\* session.get: a completed job is left alone, else its row stays in the session.
Load(w, from, to) ==
  /\ wrk[w].pc = from
  /\ wrk' = [wrk EXCEPT ![w] = IF status = "completed" THEN [IdleWorker EXCEPT !.pc = "exit"]
                               ELSE [@ EXCEPT !.pc = to, !.loaded = status, !.tried = attempt]]

\* The ORM sends an UPDATE only for a value that differs from the one it loaded.
SetStatus(w, s) == status' = IF wrk[w].loaded = s THEN status ELSE s

-----------------------------------------------------------------------------
(* The worker loop *)

\* RQ takes the job off its list before running it.
TakeJob(w) ==
  /\ rqQueue # <<>>
  /\ Go(w, "idle", IF Head(rqQueue) = "prepare" THEN "p_load" ELSE "f_load")
  /\ rqQueue' = Tail(rqQueue)
  /\ UNCHANGED <<job, counterVars, locks, finRunning, chunkQueue, env, retryThreads>>

\* The job function has returned.  A forked horse leaves with os._exit, which
\* ends the daemon threads of _enqueue_retry_worker.
JobReturns(w) ==
  /\ Go(w, "exit", "idle")
  /\ retryThreads' = [retryThreads EXCEPT ![w] = IF Forking THEN <<>> ELSE @]
  /\ UNCHANGED <<job, redis, env>>

\* The daemon thread gets to its enqueue.
RetryThreadRuns(w) ==
  /\ retryThreads[w] # <<>>
  /\ rqQueue' = Append(rqQueue, Head(retryThreads[w]))
  /\ retryThreads' = [retryThreads EXCEPT ![w] = Tail(@)]
  /\ UNCHANGED <<job, counterVars, locks, finRunning, chunkQueue, env, wrk>>

\* _translation_attempt_retry_or_fail on a row that says it was tried so often.
RetryOrFail(w, rqJob, tried) ==
  IF tried + 1 < MaxAttempts
  THEN /\ attempt' = tried + 1 /\ status' = "pending"
       /\ retryThreads' = [retryThreads EXCEPT ![w] = Append(@, rqJob)]
  ELSE status' = "failed" /\ UNCHANGED <<attempt, retryThreads>>

-----------------------------------------------------------------------------
(* prepare_document_translation_job and prepare_document_chunk_jobs *)

PrepareLoad(w) ==
  /\ Load(w, "p_load", "p_mark")
  /\ UNCHANGED <<job, redis, env, retryThreads>>

PrepareMark(w) ==
  /\ Go(w, "p_mark", "p_parse")
  /\ SetStatus(w, "processing")
  /\ UNCHANGED <<nBatches, attempt, usageRows, fileVars, redis, env, retryThreads>>

Parse(w) ==
  /\ Go(w, "p_parse", IF input THEN "p_build" ELSE "p_except")
  /\ UNCHANGED <<job, redis, env, retryThreads>>

\* prepare_document_chunk_jobs has returned: the manifest is read once more, if it
\* is still a file, and a document without batches goes on to its finalize.
Finished == IF nBatches = 0 THEN "p_claim" ELSE "exit"
Returned == IF manifest THEN "p_reread" ELSE Finished

\* A manifest and counters: an earlier prepare is taken to have done it all.
SkipPrepared(w) ==
  /\ Go(w, "p_build", Returned)
  /\ manifest /\ total > 0
  /\ UNCHANGED <<job, redis, env, retryThreads>>

\* A manifest without counters: only the queue is filled again.
RepairQueue(w) ==
  /\ GoAs(w, "p_build", "p_totals", "repair")
  /\ manifest /\ total = 0
  /\ UNCHANGED <<job, redis, env, retryThreads>>

BuildManifest(w) ==
  /\ GoAs(w, "p_build", "p_totals", "build")
  /\ ~manifest /\ manifest' = TRUE
  /\ UNCHANGED <<dbVars, input, outDir, out, redis, env, retryThreads>>

\* Few enough batches are translated by this worker, never in a repair.
Inline(w) == wrk[w].ctx = "build" /\ nBatches \in 1 .. InlineMax

SetTotals(w) ==
  /\ Go(w, "p_totals", IF nBatches = 0 THEN Returned ELSE "p_push")
  /\ ~Inline(w)
  /\ SetJobChunkTotals(nBatches)
  /\ UNCHANGED <<job, doneMark, failMark, locks, finRunning, queues, env, retryThreads>>

PushMessages(w) ==
  /\ Go(w, "p_push", Returned)
  /\ RPush(FirstMessages)
  /\ UNCHANGED <<job, counterVars, locks, finRunning, rqQueue, env, retryThreads>>

ReadAgain(w) ==
  /\ Go(w, "p_reread", Finished)
  /\ manifest
  /\ UNCHANGED <<job, redis, env, retryThreads>>

\* The file is gone since is_file saw it.
ReadAgainRaises(w) ==
  /\ Go(w, "p_reread", "p_except")
  /\ ~manifest
  /\ UNCHANGED <<job, redis, env, retryThreads>>

\* Where the finalize job is enqueued, or was before: inside
\* prepare_document_chunk_jobs when all batches were translated inline, else at the end.
AfterClaim(w) == IF wrk[w].ctx = "inline" THEN Returned ELSE "exit"

\* No batches, or all translated inline: the finalize job, once.
ClaimEmpty(w) ==
  /\ Go(w, "p_claim", IF finEnqueued THEN AfterClaim(w) ELSE "p_enqueue")
  /\ finEnqueued' = TRUE
  /\ UNCHANGED <<job, counterVars, chunkLock, inflight, finRunning, queues, env,
                 retryThreads>>

EnqueueEmpty(w) ==
  /\ Go(w, "p_enqueue", AfterClaim(w))
  /\ rqQueue' = Append(rqQueue, "finalize")
  /\ UNCHANGED <<job, counterVars, locks, finRunning, chunkQueue, env, retryThreads>>

\* Nothing was read since the commit of `processing', so the rollback is none and
\* the row is the one prepare loaded.
PrepareExcept(w) ==
  /\ Go(w, "p_except", "exit")
  /\ RetryOrFail(w, "prepare", wrk[w].tried)
  /\ UNCHANGED <<nBatches, usageRows, fileVars, redis, env>>

-----------------------------------------------------------------------------
(* _inline_translate_batches_async: todo are the batches not yet begun, live *)
(* the ones that hold a slot, at the one the writing loop has come to.       *)

StartInline(w) ==
  /\ wrk[w].pc = "p_totals" /\ Inline(w)
  /\ wrk' = [wrk EXCEPT ![w].pc = "i_translate", ![w].ctx = "inline", ![w].todo = Batches]
  /\ SetJobChunkTotals(nBatches)
  /\ outDir' = TRUE
  /\ UNCHANGED <<dbVars, input, manifest, out, doneMark, failMark, locks, finRunning,
                 queues, env, retryThreads>>

InlineAcquire(w, b) ==
  /\ wrk[w].pc = "i_translate" /\ b \in wrk[w].todo
  /\ AcquireInflight
  /\ wrk' = [wrk EXCEPT ![w].todo = @ \ {b}, ![w].live = @ \cup {b}]
  /\ UNCHANGED <<job, counterVars, chunkLock, finEnqueued, finRunning, queues, env,
                 retryThreads>>

InlineDone(w, b) ==
  /\ wrk[w].pc = "i_translate" /\ b \in wrk[w].live
  /\ ReleaseInflight(1)
  /\ wrk' = [wrk EXCEPT ![w].live = @ \ {b}]
  /\ UNCHANGED <<job, counterVars, chunkLock, finEnqueued, finRunning, queues, env,
                 retryThreads>>

InlineGathered(w) ==
  /\ wrk[w].pc = "i_translate" /\ wrk[w].todo = {} /\ wrk[w].live = {}
  /\ wrk' = [wrk EXCEPT ![w].pc = "i_write", ![w].at = 0]
  /\ UNCHANGED <<job, redis, env, retryThreads>>

\* One batch raises, gather raises, and the others are cancelled.
InlineFails(w) ==
  /\ Go(w, "i_translate", "p_except")
  /\ wrk[w].live # {}
  /\ CancelInflight(Cardinality(wrk[w].live), Cardinality(wrk[w].todo))
  /\ UNCHANGED <<job, counterVars, chunkLock, finEnqueued, finRunning, queues, env,
                 retryThreads>>

\* The writing loop goes on to the next batch, if there is one.
NextInline(w, from) ==
  /\ wrk[w].pc = from
  /\ wrk' = [wrk EXCEPT ![w].at = @ + 1,
                        ![w].pc = IF wrk[w].at + 1 < nBatches THEN "i_write" ELSE "i_sched"]

InlineWrite(w) ==
  /\ Go(w, "i_write", IF outDir THEN "i_mark" ELSE "p_except")
  /\ out' = IF outDir THEN [out EXCEPT ![wrk[w].at] = "ok"] ELSE out
  /\ UNCHANGED <<dbVars, input, manifest, outDir, redis, env, retryThreads>>

InlineMark(w) ==
  /\ wrk[w].pc = "i_mark"
  /\ IF wrk[w].at \in doneMark THEN NextInline(w, "i_mark") ELSE Go(w, "i_mark", "i_incr")
  /\ doneMark' = doneMark \cup {wrk[w].at}
  /\ UNCHANGED <<job, total, done, failed, failMark, locks, finRunning, queues, env,
                 retryThreads>>

InlineIncr(w) ==
  /\ NextInline(w, "i_incr")
  /\ done' = done + 1
  /\ UNCHANGED <<job, total, failed, doneMark, failMark, locks, finRunning, queues, env,
                 retryThreads>>

InlineSchedule(w) ==
  /\ Go(w, "i_sched", IF ChunksTerminal THEN "p_claim" ELSE Returned)
  /\ UNCHANGED <<job, redis, env, retryThreads>>

-----------------------------------------------------------------------------
(* finalize_document_translation_job *)

FinalizeLoad(w) ==
  /\ Load(w, "f_load", "f_lock")
  /\ UNCHANGED <<job, redis, env, retryThreads>>

FinalizeLockBug(w) ==   \* SET without NX
  /\ Go(w, "f_lock", "f_check")
  /\ finRunning' = TRUE
  /\ UNCHANGED <<job, counterVars, locks, queues, env, retryThreads>>

FinalizeLock(w) ==
  /\ Go(w, "f_lock", IF finRunning THEN "exit" ELSE "f_check")
  /\ finRunning' = TRUE
  /\ UNCHANGED <<job, counterVars, locks, queues, env, retryThreads>>

ChunksPending == nBatches > 0 /\ done + failed < nBatches

\* The checks before the try: manifest, counters, failures.
FinalizeFails(w) ==
  /\ Go(w, "f_check", "f_release")
  /\ ~manifest \/ (~ChunksPending /\ failed > 0)
  /\ SetStatus(w, "failed")
  /\ UNCHANGED <<nBatches, attempt, usageRows, fileVars, redis, env, retryThreads>>

FinalizeTooEarly(w) ==
  /\ Go(w, "f_check", "f_release")
  /\ manifest /\ ChunksPending
  /\ UNCHANGED <<job, redis, env, retryThreads>>

FinalizeReadyBug(w) ==   \* failed batches are not looked at
  /\ Go(w, "f_check", "f_merge")
  /\ manifest /\ ~ChunksPending
  /\ UNCHANGED <<job, redis, env, retryThreads>>

FinalizeReady(w) ==
  /\ Go(w, "f_check", "f_merge")
  /\ manifest /\ ~ChunksPending /\ failed = 0
  /\ UNCHANGED <<job, redis, env, retryThreads>>

Merge(w) ==
  /\ Go(w, "f_merge", IF \A b \in Batches : out[b] = "ok" THEN "f_charge" ELSE "f_except")
  /\ UNCHANGED <<job, redis, env, retryThreads>>

\* The documents are written, and one commit completes the job and charges for it.
Charge(w) ==
  /\ Go(w, "f_charge", "f_release")
  /\ SetStatus(w, "completed") /\ usageRows' = usageRows + 1
  /\ UNCHANGED <<nBatches, attempt, fileVars, redis, env, retryThreads>>

\* Here the rollback ends a transaction, and the row is read again.
FinalizeExcept(w) ==
  /\ Go(w, "f_except", "f_release")
  /\ RetryOrFail(w, "finalize", attempt)
  /\ UNCHANGED <<nBatches, usageRows, fileVars, redis, env>>

ReleaseFinalize(w) ==
  /\ Go(w, "f_release", "exit")
  /\ finRunning' = FALSE
  /\ UNCHANGED <<job, counterVars, locks, queues, env, retryThreads>>

-----------------------------------------------------------------------------
(* Faults of the RQ workers *)

\* The document cannot be parsed, or is too large.
ParseRaises(w) ==
  /\ Go(w, "p_parse", "p_except")
  /\ Fault("parse")
  /\ UNCHANGED <<job, redis, handlerVars, retryThreads>>

\* A Redis command of prepare raises (inside schedule_finalize_if_terminal the
\* enqueue is swallowed, and the claim stays).
PrepareRaises(w) ==
  /\ \/ /\ wrk[w].ctx # "repair"
        /\ \E from \in {"p_totals", "p_push"} : Go(w, from, "p_except")
     \/ \E from \in {"p_build", "p_claim", "i_mark", "i_incr", "i_sched"} :
          Go(w, from, "p_except")
     \/ Go(w, "p_enqueue", IF wrk[w].ctx = "inline" THEN Returned ELSE "p_except")
  /\ Fault("redis")
  /\ UNCHANGED <<job, redis, handlerVars, retryThreads>>

\* A slot cannot be acquired for one of the inline batches.
InlineRaises(w) ==
  /\ Go(w, "i_translate", "p_except")
  /\ wrk[w].todo # {}
  /\ CancelInflight(Cardinality(wrk[w].live), Cardinality(wrk[w].todo))
  /\ Fault("redis")
  /\ UNCHANGED <<job, counterVars, chunkLock, finEnqueued, finRunning, queues,
                 handlerVars, retryThreads>>

\* A repair that raises falls through to a rebuild.
RepairRaises(w) ==
  /\ wrk[w].ctx = "repair"
  /\ \E from \in {"p_totals", "p_push"} : GoAs(w, from, "p_totals", "build")
  /\ manifest' = TRUE
  /\ Fault("redis")
  /\ UNCHANGED <<dbVars, input, outDir, out, redis, handlerVars, retryThreads>>

\* The messages are on the list, and the connection breaks before the caller knows:
\* prepare fails; a repair falls through to a rebuild, which pushes them again.
PushReplyLost(w) ==
  LET repair == wrk[w].ctx = "repair" IN
  /\ GoAs(w, "p_push", IF repair THEN "p_totals" ELSE "p_except", "build")
  /\ RPush(FirstMessages)
  /\ manifest' = (manifest \/ repair)
  /\ Fault("reply")
  /\ UNCHANGED <<dbVars, input, outDir, out, counterVars, locks, finRunning, rqQueue,
                 handlerVars, retryThreads>>

\* The claim is set, or finalize is enqueued, and the answer is lost: prepare fails
\* with finalize under way (an inline enqueue is swallowed).
ClaimReplyLost(w) ==
  /\ Go(w, "p_claim", "p_except")
  /\ finEnqueued' = TRUE
  /\ Fault("reply")
  /\ UNCHANGED <<job, counterVars, chunkLock, inflight, finRunning, queues, handlerVars,
                 retryThreads>>

EnqueueReplyLost(w) ==
  /\ Go(w, "p_enqueue", "p_except")
  /\ wrk[w].ctx # "inline"
  /\ rqQueue' = Append(rqQueue, "finalize")
  /\ Fault("reply")
  /\ UNCHANGED <<job, counterVars, locks, finRunning, chunkQueue, handlerVars,
                 retryThreads>>

\* Exporting raises, the profile is gone, or the wallet is short.
FinalizeRaises(w) ==
  /\ \E from \in {"f_merge", "f_charge"} : Go(w, from, "f_except")
  /\ Fault("finalize")
  /\ UNCHANGED <<job, redis, handlerVars, retryThreads>>

\* A Redis command outside the try: the exception leaves the job function, the
\* lock stays.  RQ parks the job in its scheduled registry, which no scheduler reads.
FinalizeEscapes(w) ==
  /\ \E from \in {"f_lock", "f_check"} : Go(w, from, "exit")
  /\ Fault("redis")
  /\ UNCHANGED <<job, redis, handlerVars, retryThreads>>

\* Exceptions nobody sees: the lock or an inline batch's slot is not released, ...
ReleaseRaises(w) ==
  /\ \/ Go(w, "f_release", "exit")
     \/ /\ wrk[w].pc = "i_translate"
        /\ \E b \in wrk[w].live : wrk' = [wrk EXCEPT ![w].live = @ \ {b}]
  /\ Fault("redis")
  /\ UNCHANGED <<job, redis, handlerVars, retryThreads>>

\* ... or the retry thread's enqueue raises, and the thread is gone.
RetryThreadRaises(w) ==
  /\ retryThreads[w] # <<>>
  /\ retryThreads' = [retryThreads EXCEPT ![w] = Tail(@)]
  /\ Fault("redis")
  /\ UNCHANGED <<job, redis, handlerVars, wrk>>

\* The horse is killed: the same parking, and slots and locks stay taken.
HorseDies(w) ==
  /\ wrk[w].pc # "idle"
  /\ wrk' = [wrk EXCEPT ![w] = IdleWorker]
  /\ retryThreads' = [retryThreads EXCEPT ![w] = <<>>]
  /\ Fault("rqkill")
  /\ UNCHANGED <<job, redis, handlerVars>>

\* finalize_running lives 7200 s and RQ ends a finalize job after as long, so it
\* never expires under the job that holds it.
FinLockExpires ==
  /\ finRunning /\ \A w \in Workers : wrk[w].pc \notin FinalizeHeld
  /\ finRunning' = FALSE
  /\ UNCHANGED <<job, counterVars, locks, queues, env, workerVars>>

-----------------------------------------------------------------------------
PrepareStep(w) ==
  \/ PrepareLoad(w) \/ PrepareMark(w) \/ Parse(w) \/ SkipPrepared(w) \/ RepairQueue(w)
  \/ BuildManifest(w) \/ SetTotals(w) \/ PushMessages(w) \/ ClaimEmpty(w)
  \/ EnqueueEmpty(w) \/ ReadAgain(w) \/ ReadAgainRaises(w) \/ PrepareExcept(w)

InlineStep(w) ==
  \/ StartInline(w) \/ InlineGathered(w) \/ InlineFails(w) \/ InlineWrite(w)
  \/ InlineMark(w) \/ InlineIncr(w) \/ InlineSchedule(w)
  \/ \E b \in Batches : InlineAcquire(w, b) \/ InlineDone(w, b)

FinalizeStep(w) ==
  \/ FinalizeLoad(w) \/ FinalizeLock(w) \/ FinalizeFails(w) \/ FinalizeTooEarly(w)
  \/ FinalizeReady(w) \/ Merge(w) \/ Charge(w) \/ FinalizeExcept(w) \/ ReleaseFinalize(w)

WorkerStep(w) ==
  TakeJob(w) \/ PrepareStep(w) \/ InlineStep(w) \/ FinalizeStep(w) \/ JobReturns(w)

RqTasksFault ==
  \/ \E w \in Workers :
        \/ ParseRaises(w) \/ PrepareRaises(w) \/ InlineRaises(w) \/ RepairRaises(w)
        \/ PushReplyLost(w) \/ ClaimReplyLost(w) \/ EnqueueReplyLost(w)
        \/ FinalizeRaises(w) \/ FinalizeEscapes(w) \/ ReleaseRaises(w)
        \/ RetryThreadRaises(w) \/ HorseDies(w)
  \/ FinLockExpires
=============================================================================
