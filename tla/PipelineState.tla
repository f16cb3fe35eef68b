--------------------------- MODULE PipelineState ---------------------------
(***************************************************************************)
(* The state one document job shares between the RQ workers (prepare and   *)
(* finalize) and the chunk workers: its database row, its files, its Redis *)
(* keys, the two queues, and where each process stands in its code.  The   *)
(* operators are the Redis commands of app/jobs/chunk_queue.py: each is    *)
(* one command or one MULTI, so each is atomic.                            *)
(***************************************************************************)
EXTENDS Integers, Sequences, FiniteSets

CONSTANTS
  Handlers,         \* handler tasks of all the chunk_worker processes
  Procs,            \* chunk_worker processes
  ProcOf,           \* the process a handler runs in
  Workers,          \* RQ workers
  MaxBatches,       \* the documents considered have 0..MaxBatches batches
  InflightCap,      \* translate_global_max_inflight
  BufferCap,        \* maxsize of a chunk_worker's in-process queue
  MaxChunkRetries,  \* chunk_task_max_retries
  MaxAttempts,      \* translation_max_processing_attempts
  InlineMax,        \* inline_translation_max_batches
  Forking,          \* TRUE: rq.Worker forks a horse per job (Unix)
  FaultKinds,       \* the faults this instance considers
  MaxFaults,        \* bound: how many faults happen in a behaviour
  MaxResubmits      \* bound: how many times the user uploads a failed document again

\* The document cannot be parsed; finalize raises; a Redis command raises unexecuted,
\* or executed; a chunk_worker or RQ worker is killed; a lock expires under its
\* holder; the job directory is removed.
AllFaults == {"parse", "finalize", "redis", "reply", "kill", "rqkill", "ttl", "cleanup"}

ASSUME ConstantsOK ==
  /\ IsFiniteSet(Handlers) /\ IsFiniteSet(Workers)
  /\ ProcOf \in [Handlers -> Procs]
  /\ MaxBatches \in Nat /\ InflightCap \in Nat \ {0} /\ BufferCap \in Nat \ {0}
  /\ MaxChunkRetries \in Nat /\ MaxAttempts \in Nat \ {0} /\ InlineMax \in Nat
  /\ Forking \in BOOLEAN
  /\ FaultKinds \subseteq AllFaults
  /\ MaxFaults \in Nat /\ MaxResubmits \in Nat

VARIABLES
  \* the document and the job's row in PostgreSQL
  nBatches,      \* how many batches this document packs into
  status, attempt,
  usageRows,     \* usage rows written with a charge: how often the user paid
  \* the job directory
  input, manifest, outDir, out,
  \* Redis
  total, done, failed, doneMark, failMark,
  chunkLock, finEnqueued, finRunning, inflight, chunkQueue, rqQueue,
  \* chunk_worker processes
  workQueue,     \* what a process has popped and no handler has taken
  hnd,           \* a handler: program point, context, message
  \* RQ workers
  wrk,           \* a worker: program point, context, the row it read, inline batches
  retryThreads,  \* jobs its daemon threads have still to enqueue
  \* bounds
  faults, resubmits

dbVars      == <<nBatches, status, attempt, usageRows>>
fileVars    == <<input, manifest, outDir, out>>
counterVars == <<total, done, failed, doneMark, failMark>>
locks       == <<chunkLock, finEnqueued, inflight>>
queues      == <<chunkQueue, rqQueue>>
handlerVars == <<workQueue, hnd>>
workerVars  == <<wrk, retryThreads>>
boundVars   == <<faults, resubmits>>

vars == <<dbVars, fileVars, counterVars, locks, finRunning, queues, handlerVars,
          workerVars, boundVars>>

-----------------------------------------------------------------------------
(* Types *)

Batches == 0 .. nBatches - 1     \* manifest["batches"] of this document
Message == [batch : Batches, attempt : Nat]
RqJob   == {"prepare", "finalize"}
Status  == {"pending", "processing", "completed", "failed"}

HandlerPc ==
  {"idle", "check", "lock", "manifest", "slot", "translate", "write", "mark", "incr",
   "sched", "claim", "enqueue", "relslot", "abort", "except", "mark_failed",
   "incr_failed", "rellock"}
Handler == [pc : HandlerPc, ctx : {"skip", "ok", "fail"},
            msg : [batch : Nat, attempt : Nat]]
IdleHandler == [pc |-> "idle", ctx |-> "skip", msg |-> [batch |-> 0, attempt |-> 0]]

PreparePc ==
  {"p_load", "p_mark", "p_parse", "p_build", "p_totals", "p_push", "p_claim",
   "p_enqueue", "p_reread", "p_except", "i_translate", "i_write", "i_mark", "i_incr",
   "i_sched"}
FinalizeHeld == {"f_check", "f_merge", "f_charge", "f_except", "f_release"}
FinalizePc == {"f_load", "f_lock"} \cup FinalizeHeld
WorkerPc == {"idle", "exit"} \cup PreparePc \cup FinalizePc
Worker == [pc : WorkerPc,
           ctx : {"build", "repair", "inline"}, loaded : Status, tried : Nat,
           todo : SUBSET Batches, live : SUBSET Batches, at : Nat]
IdleWorker == [pc |-> "idle", ctx |-> "build", loaded |-> "pending", tried |-> 0,
               todo |-> {}, live |-> {}, at |-> 0]
WritesBatch == {"i_write", "i_mark", "i_incr"}

RowType ==
  /\ nBatches \in 0 .. MaxBatches
  /\ status \in Status /\ attempt \in Nat /\ usageRows \in Nat

FileType ==
  /\ input \in BOOLEAN /\ manifest \in BOOLEAN /\ outDir \in BOOLEAN
  /\ out \in [Batches -> {"none", "partial", "ok"}]

CounterType ==
  /\ total \in Nat /\ done \in Nat /\ failed \in Nat
  /\ doneMark \subseteq Batches /\ failMark \subseteq Batches

LockType ==
  /\ chunkLock \subseteq Batches
  /\ finEnqueued \in BOOLEAN /\ finRunning \in BOOLEAN
  /\ inflight \in Nat

QueueType ==
  /\ chunkQueue \in Seq(Message)
  /\ rqQueue \in Seq(RqJob)

\* A handler that is at work has a batch that exists.
HandlerType ==
  /\ workQueue \in [Procs -> Seq(Message)]
  /\ hnd \in [Handlers -> Handler]
  /\ \A h \in Handlers : hnd[h].pc # "idle" => hnd[h].msg.batch \in Batches

\* So has the writing loop of an inline translation.
WorkerType ==
  /\ wrk \in [Workers -> Worker]
  /\ \A w \in Workers : /\ wrk[w].pc = "i_translate" => nBatches > 0
                        /\ wrk[w].pc \in WritesBatch => wrk[w].at \in Batches
  /\ retryThreads \in [Workers -> Seq(RqJob)]

BoundType == faults \in 0 .. MaxFaults /\ resubmits \in 0 .. MaxResubmits

\* Every variable keeps its type: the database enum, Redis counters as
\* non-negative integers, markers and locks on batches that exist, queues of
\* well-formed messages, and processes at a known point of their code.
TypeOK ==
  /\ RowType /\ FileType /\ CounterType /\ LockType /\ QueueType
  /\ HandlerType /\ WorkerType /\ BoundType

-----------------------------------------------------------------------------
(* app/jobs/chunk_queue.py *)

\* set_job_chunk_totals: one MULTI; the markers of an earlier run stay.
SetJobChunkTotals(n) == total' = n /\ done' = 0 /\ failed' = 0

\* rpush_chunk_messages: one pipeline, so the messages stay together.
RPush(msgs) == chunkQueue' = chunkQueue \o msgs

FirstMessagesBug == [i \in 1 .. nBatches |-> [batch |-> i, attempt |-> 0]]   \* range(1, n + 1)

\* The first message of every batch, in index order.
FirstMessages == [i \in 1 .. nBatches |-> [batch |-> i - 1, attempt |-> 0]]

AcquireInflightBug == inflight <= InflightCap /\ inflight' = inflight + 1   \* <= for <

\* _ACQUIRE_INFLIGHT_LUA
AcquireInflight == inflight < InflightCap /\ inflight' = inflight + 1

ReleaseInflightBug(n) == inflight' = inflight   \* the release is forgotten

\* n runs of _RELEASE_INFLIGHT_LUA: the counter stops at zero.
ReleaseInflight(n) == inflight' = IF inflight > n THEN inflight - n ELSE 0

\* Tasks are cancelled: n finally clauses give slots back, while up to m threads that
\* were just acquiring one for a cancelled task take it for nobody.
CancelInflight(n, m) ==
  \E orphans \in 0 .. m :
    /\ inflight + orphans <= InflightCap
    /\ inflight' = IF inflight + orphans > n THEN inflight + orphans - n ELSE 0

ChunksTerminalBug == total > 0 /\ done + failed > total   \* > for >=

\* get_job_chunk_counters as chunk_finalize.schedule_finalize_if_terminal reads it.
ChunksTerminal == total > 0 /\ done + failed >= total

-----------------------------------------------------------------------------
(* The slots of the global OpenAI cap that somebody holds: a handler inside *)
(* the inner try, or a batch of an inline translation.                      *)

HoldsSlot(h) ==
  \/ hnd[h].pc \in {"translate", "write", "relslot", "abort"}
  \/ hnd[h].pc \in {"mark", "incr", "sched", "claim", "enqueue"} /\ hnd[h].ctx = "ok"

HoldsLock(h) ==
  \/ HoldsSlot(h)
  \/ hnd[h].pc \in {"manifest", "slot", "except", "mark_failed", "incr_failed", "rellock"}
  \/ hnd[h].pc \in {"sched", "claim", "enqueue"} /\ hnd[h].ctx = "fail"

InlineSlots == {x \in Workers \X Batches : x[2] \in wrk[x[1]].live}
SlotHandlers == {h \in Handlers : HoldsSlot(h)}

\* A fault of kind k happens now, if the bounds allow it.
Fault(k) ==
  /\ k \in FaultKinds /\ faults < MaxFaults
  /\ faults' = faults + 1 /\ UNCHANGED resubmits
=============================================================================
