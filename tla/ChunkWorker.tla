---------------------------- MODULE ChunkWorker ----------------------------
(***************************************************************************)
(* app/workers/chunk_worker.py: every process runs one popper and several  *)
(* handler tasks.  The popper takes messages off the Redis list into the   *)
(* process (from then on they live nowhere else); a handler translates one *)
(* batch.  One action per await or Redis command of _process_one_payload.  *)
(***************************************************************************)
EXTENDS PipelineState

Batch(h) == hnd[h].msg.batch

\* What no step of a chunk worker writes.
frame == <<dbVars, input, manifest, finRunning, workerVars>>
files == <<outDir, out>>

\* Handler h moves from one program point to another, in context ctx.
GotoAs(h, from, to, ctx) ==
  /\ hnd[h].pc = from
  /\ hnd' = [hnd EXCEPT ![h] = IF to = "idle" THEN IdleHandler
                               ELSE [@ EXCEPT !.pc = to, !.ctx = ctx]]

Goto(h, from, to) == GotoAs(h, from, to, hnd[h].ctx)

\* Where a handler goes on after schedule_finalize_if_terminal returned.
AfterSchedule(h) ==
  CASE hnd[h].ctx = "skip" -> "idle"
    [] hnd[h].ctx = "ok"   -> "relslot"
    [] hnd[h].ctx = "fail" -> "rellock"

-----------------------------------------------------------------------------
(* The popper and the handler loop *)

\* BLPOP: the message leaves Redis now, before anybody has worked on it.  The
\* popper holds one message more than its queue takes.
Pop(p) ==
  /\ chunkQueue # <<>> /\ Len(workQueue[p]) <= BufferCap
  /\ workQueue' = [workQueue EXCEPT ![p] = Append(@, Head(chunkQueue))]
  /\ chunkQueue' = Tail(chunkQueue)
  /\ UNCHANGED <<frame, files, counterVars, locks, rqQueue, hnd, boundVars>>

Take(h) ==
  LET p == ProcOf[h] IN
  /\ hnd[h].pc = "idle" /\ workQueue[p] # <<>>
  /\ hnd' = [hnd EXCEPT ![h] = [pc |-> "check", ctx |-> "skip", msg |-> Head(workQueue[p])]]
  /\ workQueue' = [workQueue EXCEPT ![p] = Tail(@)]
  /\ UNCHANGED <<frame, files, counterVars, locks, queues, boundVars>>

-----------------------------------------------------------------------------
(* _process_one_payload *)

\* mkdir, then: an output with translations is kept, anything else is redone.
CheckOutput(h) ==
  /\ Goto(h, "check", IF out[Batch(h)] = "ok" THEN "mark" ELSE "lock")
  /\ outDir' = TRUE
  /\ UNCHANGED <<frame, counterVars, locks, queues, out, workQueue, boundVars>>

AcquireLockBug(h) ==   \* SET without NX
  /\ Goto(h, "lock", "manifest")
  /\ chunkLock' = chunkLock \cup {Batch(h)}
  /\ UNCHANGED <<frame, files, counterVars, queues, workQueue, finEnqueued, inflight,
                 boundVars>>

AcquireLock(h) ==
  /\ Goto(h, "lock", "manifest")
  /\ Batch(h) \notin chunkLock
  /\ chunkLock' = chunkLock \cup {Batch(h)}
  /\ UNCHANGED <<frame, files, counterVars, queues, workQueue, finEnqueued, inflight,
                 boundVars>>

\* The lock stayed busy for all 120 tries: the message goes back as it is.
LockBusy(h) ==
  /\ Goto(h, "lock", "idle")
  /\ Batch(h) \in chunkLock
  /\ RPush(<<hnd[h].msg>>)
  /\ UNCHANGED <<frame, files, counterVars, locks, workQueue, rqQueue, boundVars>>

ReadManifest(h) ==
  /\ Goto(h, "manifest", IF manifest THEN "slot" ELSE "except")
  /\ UNCHANGED <<frame, files, counterVars, locks, queues, workQueue, boundVars>>

AcquireSlot(h) ==
  /\ GotoAs(h, "slot", "translate", "ok")
  /\ AcquireInflight
  /\ UNCHANGED <<frame, files, counterVars, queues, chunkLock, finEnqueued,
                 workQueue, boundVars>>

\* The translation arrived and write_text has truncated the file; the write
\* raises when the directory was removed meanwhile.
TranslateReturns(h) ==
  /\ Goto(h, "translate", IF outDir THEN "write" ELSE "abort")
  /\ out' = [out EXCEPT ![Batch(h)] = IF outDir THEN "partial" ELSE @]
  /\ UNCHANGED <<frame, counterVars, locks, queues, workQueue, outDir, boundVars>>

\* The API gave up after its own retries, or the count does not match.
TranslateRaises(h) ==
  /\ Goto(h, "translate", "abort")
  /\ UNCHANGED <<frame, files, counterVars, locks, queues, workQueue, boundVars>>

FinishWrite(h) ==
  /\ Goto(h, "write", "mark")
  /\ out' = [out EXCEPT ![Batch(h)] = IF outDir THEN "ok" ELSE @]
  /\ UNCHANGED <<frame, counterVars, locks, queues, workQueue, outDir, boundVars>>

\* try_mark_batch_completed: only the first SET NX is followed by an INCR.
MarkCompletedBug(h) ==   \* the marker's answer is ignored
  /\ Goto(h, "mark", "incr")
  /\ doneMark' = doneMark \cup {Batch(h)}
  /\ UNCHANGED <<frame, files, total, done, failed, failMark, locks, queues,
                 workQueue, boundVars>>

MarkCompleted(h) ==
  /\ Goto(h, "mark", IF Batch(h) \in doneMark THEN "sched" ELSE "incr")
  /\ doneMark' = doneMark \cup {Batch(h)}
  /\ UNCHANGED <<frame, files, total, done, failed, failMark, locks, queues,
                 workQueue, boundVars>>

IncrDone(h) ==
  /\ Goto(h, "incr", "sched")
  /\ done' = done + 1
  /\ UNCHANGED <<frame, files, total, failed, doneMark, failMark, locks, queues,
                 workQueue, boundVars>>

ReleaseSlot(h) ==
  /\ \/ Goto(h, "relslot", "rellock")
     \/ Goto(h, "abort", "except")
  /\ ReleaseInflight(1)
  /\ UNCHANGED <<frame, files, counterVars, chunkLock, finEnqueued, queues,
                 workQueue, boundVars>>

RequeueAttemptBug(h) ==   \* no else: the requeued batch is marked failed as well
  /\ GotoAs(h, "except", "mark_failed", "fail")
  /\ hnd[h].msg.attempt < MaxChunkRetries
  /\ RPush(<<[hnd[h].msg EXCEPT !.attempt = @ + 1]>>)
  /\ UNCHANGED <<frame, files, counterVars, locks, rqQueue, workQueue, boundVars>>

\* except Exception: back off and requeue with the next attempt number, ...
RequeueAttempt(h) ==
  /\ Goto(h, "except", "rellock")
  /\ hnd[h].msg.attempt < MaxChunkRetries
  /\ RPush(<<[hnd[h].msg EXCEPT !.attempt = @ + 1]>>)
  /\ UNCHANGED <<frame, files, counterVars, locks, rqQueue, workQueue, boundVars>>

\* ... or, out of retries, give the batch up.
GiveUp(h) ==
  /\ GotoAs(h, "except", "mark_failed", "fail")
  /\ hnd[h].msg.attempt >= MaxChunkRetries
  /\ UNCHANGED <<frame, files, counterVars, locks, queues, workQueue, boundVars>>

MarkFailed(h) ==
  /\ Goto(h, "mark_failed", IF Batch(h) \in failMark THEN "sched" ELSE "incr_failed")
  /\ failMark' = failMark \cup {Batch(h)}
  /\ UNCHANGED <<frame, files, total, done, failed, doneMark, locks, queues,
                 workQueue, boundVars>>

IncrFailed(h) ==
  /\ Goto(h, "incr_failed", "sched")
  /\ failed' = failed + 1
  /\ UNCHANGED <<frame, files, total, done, doneMark, failMark, locks, queues,
                 workQueue, boundVars>>

\* finally: DEL, whoever holds the lock by now.
ReleaseLock(h) ==
  /\ Goto(h, "rellock", "idle")
  /\ chunkLock' = chunkLock \ {Batch(h)}
  /\ UNCHANGED <<frame, files, counterVars, finEnqueued, inflight, queues, workQueue,
                 boundVars>>

-----------------------------------------------------------------------------
(* schedule_finalize_if_terminal, called from three places of the handler *)

Schedule(h) ==
  /\ Goto(h, "sched", IF ChunksTerminal THEN "claim" ELSE AfterSchedule(h))
  /\ UNCHANGED <<frame, files, counterVars, locks, queues, workQueue, boundVars>>

ClaimFinalizeBug(h) ==   \* the claim's answer is ignored
  /\ Goto(h, "claim", "enqueue")
  /\ finEnqueued' = TRUE
  /\ UNCHANGED <<frame, files, counterVars, chunkLock, inflight, queues, workQueue,
                 boundVars>>

\* try_set_finalize_enqueued: one caller per job wins.
ClaimFinalize(h) ==
  /\ Goto(h, "claim", IF finEnqueued THEN AfterSchedule(h) ELSE "enqueue")
  /\ finEnqueued' = TRUE
  /\ UNCHANGED <<frame, files, counterVars, chunkLock, inflight, queues, workQueue,
                 boundVars>>

EnqueueFinalize(h) ==
  /\ Goto(h, "enqueue", AfterSchedule(h))
  /\ rqQueue' = Append(rqQueue, "finalize")
  /\ UNCHANGED <<frame, files, counterVars, locks, chunkQueue, workQueue, boundVars>>

-----------------------------------------------------------------------------
(* Faults of the chunk workers *)

\* A Redis command raises.  On the idempotent path that passes for a corrupt
\* output; with the slot held, the inner finally releases it first.
Raises(h, from) ==
  /\ hnd[h].ctx \in {"skip", "ok"}
  /\ Goto(h, from, IF hnd[h].ctx = "skip" THEN "lock" ELSE "abort")

WorkRaises(h) ==
  /\ \/ \E from \in {"manifest", "slot"} : Goto(h, from, "except")
     \/ hnd[h].ctx = "ok" /\ Goto(h, "write", "abort")
     \/ \E from \in {"mark", "incr", "sched", "claim"} : Raises(h, from)
  /\ Fault("redis")
  /\ UNCHANGED <<frame, files, counterVars, locks, queues, workQueue>>

\* The server ran the command and the connection broke before its answer came.
ReplyLost(h) ==
  /\ \/ Goto(h, "slot", "except") /\ AcquireInflight /\ UNCHANGED <<done, doneMark, finEnqueued>>
     \/ /\ Raises(h, "mark")
        /\ doneMark' = doneMark \cup {Batch(h)}
        /\ UNCHANGED <<done, finEnqueued, inflight>>
     \/ /\ Raises(h, "incr")
        /\ done' = done + 1
        /\ UNCHANGED <<doneMark, finEnqueued, inflight>>
     \/ Raises(h, "claim") /\ finEnqueued' = TRUE /\ UNCHANGED <<done, doneMark, inflight>>
  /\ Fault("reply")
  /\ UNCHANGED <<frame, files, total, failed, failMark, chunkLock, queues, workQueue>>

\* An exception that is swallowed: finalize is not enqueued though it was claimed,
\* a slot or a lock is not released.
Swallowed(h) ==
  /\ \/ Goto(h, "enqueue", AfterSchedule(h))
     \/ Goto(h, "relslot", "rellock")
     \/ Goto(h, "abort", "except")
     \/ Goto(h, "rellock", "idle")
  /\ Fault("redis")
  /\ UNCHANGED <<frame, files, counterVars, locks, queues, workQueue>>

InProc(p) == {h \in Handlers : ProcOf[h] = p}

\* All the tasks of process p are gone, and the messages it had popped with them.
Stop(p) ==
  /\ hnd' = [h \in Handlers |-> IF h \in InProc(p) THEN IdleHandler ELSE hnd[h]]
  /\ workQueue' = [workQueue EXCEPT ![p] = <<>>]
  /\ UNCHANGED <<frame, files, counterVars, finEnqueued, queues>>

\* An exception outside the try, or inside its except clause, leaves _handler and
\* ends the process; cancelling the other tasks runs their finally clauses, but what
\* a thread is just acquiring for one of them stays taken, and so does the lock of a
\* handler that raises before its try.
HandlerEscapes(h) ==
  LET p      == ProcOf[h]
      At(pc) == {g \in InProc(p) \ {h} : hnd[g].pc = pc}
      clean  == {g \in InProc(p) : HoldsLock(g) /\ ~(g = h /\ hnd[h].pc = "manifest")}
  IN
  /\ \/ hnd[h].pc \in {"lock", "manifest", "except", "mark_failed", "incr_failed"}
     \/ hnd[h].pc \in {"sched", "claim"} /\ hnd[h].ctx = "fail"
  /\ Stop(p)
  /\ \E late \in SUBSET {Batch(g) : g \in At("lock")} :
       chunkLock' = (chunkLock \ {Batch(g) : g \in clean}) \cup late
  /\ CancelInflight(Cardinality({g \in InProc(p) : HoldsSlot(g)}), Cardinality(At("slot")))
  /\ Fault("redis")

\* The process is killed: its locks and slots stay taken.
ProcKilled(p) ==
  /\ workQueue[p] # <<>> \/ \E h \in InProc(p) : hnd[h].pc # "idle"
  /\ Stop(p)
  /\ Fault("kill")
  /\ UNCHANGED <<chunkLock, inflight>>

\* The TTL of a chunk lock: a lock nobody holds expires in time; one whose
\* holder is slower than 1800 s expires under it.
ChunkLockExpires(b) ==
  /\ b \in chunkLock
  /\ IF \E h \in Handlers : HoldsLock(h) /\ Batch(h) = b
     THEN Fault("ttl") ELSE UNCHANGED boundVars
  /\ chunkLock' = chunkLock \ {b}
  /\ UNCHANGED <<frame, files, counterVars, finEnqueued, inflight, queues, workQueue,
                 hnd>>

-----------------------------------------------------------------------------
HandlerStep(h) ==
  \/ Take(h) \/ CheckOutput(h) \/ AcquireLock(h) \/ LockBusy(h) \/ ReadManifest(h)
  \/ AcquireSlot(h) \/ TranslateReturns(h) \/ TranslateRaises(h) \/ FinishWrite(h)
  \/ MarkCompleted(h) \/ IncrDone(h) \/ ReleaseSlot(h) \/ RequeueAttempt(h)
  \/ GiveUp(h) \/ MarkFailed(h) \/ IncrFailed(h) \/ ReleaseLock(h)
  \/ Schedule(h) \/ ClaimFinalize(h) \/ EnqueueFinalize(h)

ChunkWorkerFault ==
  \/ \E h \in Handlers :
        WorkRaises(h) \/ ReplyLost(h) \/ Swallowed(h) \/ HandlerEscapes(h)
  \/ \E p \in Procs : ProcKilled(p)
  \/ \E b \in Batches : ChunkLockExpires(b)
=============================================================================
