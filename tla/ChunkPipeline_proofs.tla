------------------------ MODULE ChunkPipeline_proofs ------------------------
(***************************************************************************)
(* Theorems about ChunkPipeline, for every value of the constants.         *)
(***************************************************************************)
EXTENDS ChunkPipeline, FiniteSetTheorems, TLAPS

-----------------------------------------------------------------------------
(* A group of variables that a step leaves alone keeps its type *)

LEMMA HeadTail ==
  ASSUME NEW S, NEW s \in Seq(S), s # <<>>
  PROVE  Head(s) \in S /\ Tail(s) \in Seq(S)
OBVIOUS

LEMMA ConcatType ==
  ASSUME NEW S, NEW s \in Seq(S), NEW t \in Seq(S) PROVE s \o t \in Seq(S)
OBVIOUS

LEMMA RowKept == RowType /\ UNCHANGED dbVars => RowType' /\ UNCHANGED nBatches
BY DEF RowType, dbVars

LEMMA FileKept == FileType /\ UNCHANGED <<nBatches, fileVars>> => FileType'
BY DEF FileType, fileVars, Batches

LEMMA CounterKept == CounterType /\ UNCHANGED <<nBatches, counterVars>> => CounterType'
BY DEF CounterType, counterVars, Batches

LEMMA LockKept == LockType /\ UNCHANGED <<nBatches, locks, finRunning>> => LockType'
BY DEF LockType, locks, Batches

LEMMA QueueKept == QueueType /\ UNCHANGED <<nBatches, queues>> => QueueType'
BY DEF QueueType, queues, Message, Batches

LEMMA HandlerKept == HandlerType /\ UNCHANGED <<nBatches, handlerVars>> => HandlerType'
BY DEF HandlerType, handlerVars, Message, Batches, Handler

LEMMA WorkerKept == WorkerType /\ UNCHANGED <<nBatches, workerVars>> => WorkerType'
BY DEF WorkerType, workerVars, Worker, Batches

LEMMA BoundKept == BoundType /\ UNCHANGED boundVars => BoundType'
BY DEF BoundType, boundVars

LEMMA FaultBound == ASSUME NEW k, BoundType, ConstantsOK, Fault(k) PROVE BoundType'
BY DEF BoundType, ConstantsOK, Fault

-----------------------------------------------------------------------------
(* Type correctness of the chunk workers *)

\* A handler that is not idle goes to another point of its code.
LEMMA GotoAsType ==
  ASSUME HandlerType, UNCHANGED <<nBatches, workQueue>>, NEW h \in Handlers,
         NEW from, NEW to \in HandlerPc, NEW ctx \in {"skip", "ok", "fail"},
         from # "idle", GotoAs(h, from, to, ctx)
  PROVE  HandlerType'
BY ZenonT(60) DEF HandlerType, GotoAs, Handler, HandlerPc, IdleHandler, Batches, Message

LEMMA GotoType ==
  ASSUME HandlerType, UNCHANGED <<nBatches, workQueue>>, NEW h \in Handlers,
         NEW from, NEW to \in HandlerPc, from # "idle", Goto(h, from, to)
  PROVE  HandlerType'
<1>1. hnd[h].ctx \in {"skip", "ok", "fail"}
  BY DEF HandlerType, Handler
<1> QED
  BY <1>1, GotoAsType DEF Goto

LEMMA AfterScheduleType ==
  ASSUME HandlerType, NEW h \in Handlers PROVE AfterSchedule(h) \in HandlerPc
BY DEF HandlerType, Handler, AfterSchedule, HandlerPc

LEMMA PopType == ASSUME TypeOK, NEW p \in Procs, Pop(p) PROVE TypeOK'
<1>1. /\ RowType' /\ FileType' /\ CounterType' /\ LockType' /\ WorkerType' /\ BoundType'
      /\ UNCHANGED nBatches
  BY RowKept, FileKept, CounterKept, LockKept, WorkerKept, BoundKept
  DEF TypeOK, Pop, frame, files, fileVars
<1>2. Head(chunkQueue) \in Message /\ Tail(chunkQueue) \in Seq(Message)
  BY HeadTail DEF TypeOK, QueueType, Pop
<1>3. Batches' = Batches /\ Message' = Message
  BY <1>1 DEF Batches, Message
<1>4. QueueType'
  BY <1>2, <1>3 DEF Pop, TypeOK, QueueType
<1>5. HandlerType'
  BY <1>2, <1>3 DEF Pop, TypeOK, HandlerType
<1> QED
  BY <1>1, <1>4, <1>5 DEF TypeOK

LEMMA TakeType == ASSUME TypeOK, ConstantsOK, NEW h \in Handlers, Take(h) PROVE TypeOK'
<1>1. /\ RowType' /\ FileType' /\ CounterType' /\ LockType' /\ QueueType' /\ WorkerType'
      /\ BoundType' /\ UNCHANGED nBatches
  BY RowKept, FileKept, CounterKept, LockKept, QueueKept, WorkerKept, BoundKept
  DEF TypeOK, Take, frame, files, fileVars
<1> DEFINE p == ProcOf[h]
<1>2. p \in Procs
  BY DEF ConstantsOK
<1>3. Head(workQueue[p]) \in Message /\ Tail(workQueue[p]) \in Seq(Message)
  BY <1>2, HeadTail DEF TypeOK, HandlerType, Take
<1>4. Batches' = Batches /\ Message' = Message
  BY <1>1 DEF Batches, Message
<1>5. workQueue' \in [Procs -> Seq(Message)]
  BY <1>2, <1>3 DEF Take, TypeOK, HandlerType
<1>6. /\ hnd' \in [Handlers -> Handler]
      /\ \A g \in Handlers : hnd'[g].pc # "idle" => hnd'[g].msg.batch \in Batches
  BY <1>3 DEF Take, TypeOK, HandlerType, Handler, HandlerPc, Message, Batches
<1>7. HandlerType'
  BY <1>4, <1>5, <1>6 DEF HandlerType
<1> QED
  BY <1>1, <1>7 DEF TypeOK

\* What every other step of a handler leaves alone ...
LEMMA HandlerFrame ==
  ASSUME NEW h \in Handlers, HandlerStep(h), ~Take(h)
  PROVE  UNCHANGED <<dbVars, input, manifest, finRunning, workerVars, boundVars, workQueue>>
BY DEF HandlerStep, CheckOutput, AcquireLock, LockBusy, ReadManifest, AcquireSlot,
  TranslateReturns, TranslateRaises, FinishWrite, MarkCompleted, IncrDone, ReleaseSlot,
  RequeueAttempt, GiveUp, MarkFailed, IncrFailed, ReleaseLock, Schedule, ClaimFinalize,
  EnqueueFinalize, frame

\* ... and what it does to its own place in the code, ...
LEMMA HandlerMoves ==
  ASSUME HandlerType, NEW h \in Handlers, HandlerStep(h), ~Take(h), UNCHANGED nBatches
  PROVE  HandlerType' /\ Batch(h) \in Batches
<1>1. UNCHANGED workQueue
  BY HandlerFrame
<1>2. HandlerType'
  BY <1>1, GotoType, GotoAsType, AfterScheduleType
  DEF HandlerStep, CheckOutput, AcquireLock, LockBusy, ReadManifest, AcquireSlot,
  TranslateReturns, TranslateRaises, FinishWrite, MarkCompleted, IncrDone, ReleaseSlot,
  RequeueAttempt, GiveUp, MarkFailed, IncrFailed, ReleaseLock, Schedule, ClaimFinalize,
  EnqueueFinalize, HandlerPc
<1>3. hnd[h].pc # "idle"
  BY DEF HandlerStep, CheckOutput, AcquireLock, LockBusy, ReadManifest, AcquireSlot,
  TranslateReturns, TranslateRaises, FinishWrite, MarkCompleted, IncrDone, ReleaseSlot,
  RequeueAttempt, GiveUp, MarkFailed, IncrFailed, ReleaseLock, Schedule, ClaimFinalize,
  EnqueueFinalize, Goto, GotoAs
<1> QED
  BY <1>2, <1>3 DEF HandlerType, Batch

\* ... to the files, ...
LEMMA HandlerFiles ==
  ASSUME FileType, NEW h \in Handlers, HandlerStep(h), ~Take(h),
         UNCHANGED <<nBatches, input, manifest>>
  PROVE  FileType'
BY DEF HandlerStep, CheckOutput, AcquireLock, LockBusy, ReadManifest, AcquireSlot,
  TranslateReturns, TranslateRaises, FinishWrite, MarkCompleted, IncrDone, ReleaseSlot,
  RequeueAttempt, GiveUp, MarkFailed, IncrFailed, ReleaseLock, Schedule, ClaimFinalize,
  EnqueueFinalize, files, FileType, Batches

\* ... to the counters, ...
LEMMA HandlerCounters ==
  ASSUME CounterType, NEW h \in Handlers, HandlerStep(h), ~Take(h), Batch(h) \in Batches,
         UNCHANGED nBatches
  PROVE  CounterType'
BY DEF HandlerStep, CheckOutput, AcquireLock, LockBusy, ReadManifest, AcquireSlot,
  TranslateReturns, TranslateRaises, FinishWrite, MarkCompleted, IncrDone, ReleaseSlot,
  RequeueAttempt, GiveUp, MarkFailed, IncrFailed, ReleaseLock, Schedule, ClaimFinalize,
  EnqueueFinalize, counterVars, CounterType, Batches

\* ... to the locks ...
LEMMA HandlerLocks ==
  ASSUME LockType, NEW h \in Handlers, HandlerStep(h), ~Take(h), Batch(h) \in Batches,
         UNCHANGED <<nBatches, finRunning>>
  PROVE  LockType'
<1> USE DEF HandlerStep, CheckOutput, AcquireLock, LockBusy, ReadManifest, AcquireSlot,
  TranslateReturns, TranslateRaises, FinishWrite, MarkCompleted, IncrDone, ReleaseSlot,
  RequeueAttempt, GiveUp, MarkFailed, IncrFailed, ReleaseLock, Schedule, ClaimFinalize,
  EnqueueFinalize, locks
<1>1. chunkLock' \subseteq Batches'
  BY DEF LockType, Batches
<1>2. inflight' \in Nat
  BY DEF LockType, AcquireInflight, ReleaseInflight
<1>3. finEnqueued' \in BOOLEAN /\ finRunning' \in BOOLEAN
  BY DEF LockType
<1> QED
  BY <1>1, <1>2, <1>3 DEF LockType

\* ... and to the queues.
LEMMA HandlerQueues ==
  ASSUME QueueType, HandlerType, NEW h \in Handlers, HandlerStep(h), ~Take(h),
         Batch(h) \in Batches, UNCHANGED nBatches
  PROVE  QueueType'
<1>1. Batches' = Batches /\ Message' = Message
  BY DEF Batches, Message
<1>2. /\ hnd[h].msg \in Message
      /\ [hnd[h].msg EXCEPT !.attempt = @ + 1] \in Message
  BY DEF HandlerType, Handler, Message, Batch
<1>3. ASSUME NEW m \in Message, RPush(<<m>>) PROVE chunkQueue' \in Seq(Message)
  BY <1>3 DEF RPush, QueueType
<1>4. CASE LockBusy(h) \/ RequeueAttempt(h)
  BY <1>1, <1>2, <1>3, <1>4 DEF LockBusy, RequeueAttempt, QueueType
<1>5. CASE EnqueueFinalize(h)
  BY <1>1, <1>5 DEF EnqueueFinalize, QueueType, RqJob
<1>6. CASE ~(LockBusy(h) \/ RequeueAttempt(h) \/ EnqueueFinalize(h))
  BY <1>1, <1>6 DEF HandlerStep, CheckOutput, AcquireLock, ReadManifest, AcquireSlot,
  TranslateReturns, TranslateRaises, FinishWrite, MarkCompleted, IncrDone, ReleaseSlot,
  GiveUp, MarkFailed, IncrFailed, ReleaseLock, Schedule, ClaimFinalize, queues, QueueType
<1> QED
  BY <1>4, <1>5, <1>6

LEMMA HandlerStepType ==
  ASSUME TypeOK, ConstantsOK, NEW h \in Handlers, HandlerStep(h) PROVE TypeOK'
<1>1. CASE Take(h)
  BY <1>1, TakeType
<1>2. CASE ~Take(h)
  <2>1. UNCHANGED <<dbVars, input, manifest, finRunning, workerVars, boundVars>>
    BY <1>2, HandlerFrame
  <2>2. RowType' /\ UNCHANGED nBatches /\ WorkerType' /\ BoundType'
    BY <2>1, RowKept, WorkerKept, BoundKept DEF TypeOK
  <2>3. HandlerType' /\ Batch(h) \in Batches
    BY <1>2, <2>2, HandlerMoves DEF TypeOK
  <2> QED
    BY <1>2, <2>1, <2>2, <2>3, HandlerFiles, HandlerCounters, HandlerLocks, HandlerQueues
    DEF TypeOK
<1> QED
  BY <1>1, <1>2

\* A fault of the chunk workers: the frame, then one group of variables at a time.
LEMMA RaisesType ==
  ASSUME HandlerType, UNCHANGED <<nBatches, workQueue>>, NEW h \in Handlers,
         NEW from \in {"mark", "incr", "sched", "claim"}, Raises(h, from)
  PROVE  HandlerType' /\ Batch(h) \in Batches
<1>1. HandlerType'
  BY GotoType DEF Raises, HandlerPc
<1>2. hnd[h].pc # "idle"
  BY DEF Raises, Goto, GotoAs
<1> QED
  BY <1>1, <1>2 DEF HandlerType, Batch

\* However many slots come back and whatever is orphaned, the counter stays a counter.
LEMMA CancelType ==
  ASSUME LockType, NEW n \in Nat, NEW m \in Nat, CancelInflight(n, m)
  PROVE  inflight' \in Nat
<1>1. PICK orphans \in 0 .. m :
        inflight' = IF inflight + orphans > n THEN inflight + orphans - n ELSE 0
  BY DEF CancelInflight
<1> QED
  BY <1>1 DEF LockType

LEMMA StopType ==
  ASSUME HandlerType, NEW p \in Procs, Stop(p), UNCHANGED nBatches PROVE HandlerType'
<1>1. Batches' = Batches /\ Message' = Message
  BY DEF Batches, Message
<1>2. workQueue' \in [Procs -> Seq(Message)]
  BY DEF HandlerType, Stop
<1>3. hnd' \in [Handlers -> Handler]
  BY DEF HandlerType, Stop, IdleHandler, Handler, HandlerPc
<1>4. \A h \in Handlers : hnd'[h].pc # "idle" => hnd'[h] = hnd[h]
  BY DEF Stop, IdleHandler
<1> QED
  BY <1>1, <1>2, <1>3, <1>4 DEF HandlerType

LEMMA ChunkWorkerFaultType ==
  ASSUME TypeOK, ConstantsOK, ChunkWorkerFault PROVE TypeOK'
<1>1. ASSUME NEW h \in Handlers, WorkRaises(h) PROVE TypeOK'
  <2>1. /\ RowType' /\ FileType' /\ CounterType' /\ LockType' /\ QueueType' /\ WorkerType'
        /\ UNCHANGED nBatches
    BY <1>1, RowKept, FileKept, CounterKept, LockKept, QueueKept, WorkerKept
    DEF TypeOK, WorkRaises, frame, files, fileVars
  <2>2. BoundType'
    BY <1>1, FaultBound DEF TypeOK, WorkRaises
  <2>3. UNCHANGED workQueue
    BY <1>1 DEF WorkRaises
  <2>4. HandlerType'
    <3>1. CASE \E from \in {"manifest", "slot"} : Goto(h, from, "except")
      BY <2>1, <2>3, <3>1, GotoType DEF TypeOK, HandlerPc
    <3>2. CASE Goto(h, "write", "abort")
      BY <2>1, <2>3, <3>2, GotoType DEF TypeOK, HandlerPc
    <3>3. CASE \E from \in {"mark", "incr", "sched", "claim"} : Raises(h, from)
      BY <2>1, <2>3, <3>3, RaisesType DEF TypeOK
    <3> QED
      BY <1>1, <3>1, <3>2, <3>3 DEF WorkRaises
  <2> QED
    BY <2>1, <2>2, <2>4 DEF TypeOK
<1>2. ASSUME NEW h \in Handlers, ReplyLost(h) PROVE TypeOK'
  <2>1. RowType' /\ FileType' /\ QueueType' /\ WorkerType' /\ UNCHANGED nBatches
    BY <1>2, RowKept, FileKept, QueueKept, WorkerKept
    DEF TypeOK, ReplyLost, frame, files, fileVars
  <2>2. BoundType'
    BY <1>2, FaultBound DEF TypeOK, ReplyLost
  <2>3. \/ Goto(h, "slot", "except")
        \/ \E from \in {"mark", "incr", "claim"} : Raises(h, from)
    BY <1>2 DEF ReplyLost
  <2>4. UNCHANGED workQueue
    BY <1>2 DEF ReplyLost
  <2>5. HandlerType' /\ Batch(h) \in Batches
    <3>1. CASE Goto(h, "slot", "except")
      <4>1. HandlerType'
        BY <2>1, <2>4, <3>1, GotoType DEF TypeOK, HandlerPc
      <4>2. hnd[h].pc = "slot"
        BY <3>1 DEF Goto, GotoAs
      <4>3. Batch(h) \in Batches
        BY <4>2 DEF TypeOK, HandlerType, Batch
      <4> QED
        BY <4>1, <4>3
    <3>2. CASE \E from \in {"mark", "incr", "claim"} : Raises(h, from)
      BY <2>1, <2>4, <3>2, RaisesType DEF TypeOK
    <3> QED
      BY <2>3, <3>1, <3>2
  <2>6. CounterType'
    <3>1. Batches' = Batches
      BY <2>1 DEF Batches
    <3>2. UNCHANGED <<total, failed, failMark>>
      BY <1>2 DEF ReplyLost
    <3>3. done' = done \/ done' = done + 1
      BY <1>2 DEF ReplyLost
    <3>4. doneMark' \subseteq doneMark \cup {Batch(h)}
      BY <1>2 DEF ReplyLost
    <3> QED
      BY <2>5, <3>1, <3>2, <3>3, <3>4 DEF TypeOK, CounterType
  <2>7. LockType'
    <3>1. Batches' = Batches /\ UNCHANGED <<chunkLock, finRunning>>
      BY <1>2, <2>1 DEF Batches, ReplyLost, frame
    <3>2. finEnqueued' = finEnqueued \/ finEnqueued' = TRUE
      BY <1>2 DEF ReplyLost, AcquireInflight
    <3>3. inflight' = inflight \/ inflight' = inflight + 1
      BY <1>2 DEF ReplyLost, AcquireInflight
    <3>4. finEnqueued' \in BOOLEAN
      BY <3>2 DEF TypeOK, LockType
    <3>5. inflight' \in Nat
      BY <3>3 DEF TypeOK, LockType
    <3> QED
      BY <3>1, <3>4, <3>5 DEF TypeOK, LockType
  <2> QED
    BY <2>1, <2>2, <2>5, <2>6, <2>7 DEF TypeOK
<1>3. ASSUME NEW h \in Handlers, Swallowed(h) PROVE TypeOK'
  <2>1. /\ RowType' /\ FileType' /\ CounterType' /\ LockType' /\ QueueType' /\ WorkerType'
        /\ UNCHANGED nBatches
    BY <1>3, RowKept, FileKept, CounterKept, LockKept, QueueKept, WorkerKept
    DEF TypeOK, Swallowed, frame, files, fileVars
  <2>2. BoundType'
    BY <1>3, FaultBound DEF TypeOK, Swallowed
  <2>3. HandlerType'
    <3>1. HandlerType /\ UNCHANGED <<nBatches, workQueue>>
      BY <1>3, <2>1 DEF Swallowed, TypeOK
    <3>2. CASE Goto(h, "enqueue", AfterSchedule(h))
      BY <3>1, <3>2, GotoType, AfterScheduleType
    <3>3. CASE Goto(h, "relslot", "rellock")
      BY <3>1, <3>3, GotoType DEF HandlerPc
    <3>4. CASE Goto(h, "abort", "except")
      BY <3>1, <3>4, GotoType DEF HandlerPc
    <3>5. CASE Goto(h, "rellock", "idle")
      BY <3>1, <3>5, GotoType DEF HandlerPc
    <3> QED
      BY <1>3, <3>2, <3>3, <3>4, <3>5 DEF Swallowed
  <2> QED
    BY <2>1, <2>2, <2>3 DEF TypeOK
<1>4. ASSUME NEW h \in Handlers, HandlerEscapes(h) PROVE TypeOK'
  <2> DEFINE p == ProcOf[h]
  <2>1. p \in Procs /\ Stop(p)
    BY <1>4 DEF ConstantsOK, HandlerEscapes
  <2>2. /\ RowType' /\ FileType' /\ CounterType' /\ QueueType' /\ WorkerType'
        /\ UNCHANGED <<nBatches, finRunning, finEnqueued>>
    BY <2>1, RowKept, FileKept, CounterKept, QueueKept, WorkerKept
    DEF TypeOK, Stop, frame, files, fileVars
  <2>3. BoundType'
    BY <1>4, FaultBound DEF TypeOK, HandlerEscapes
  <2>4. HandlerType'
    BY <2>1, <2>2, StopType DEF TypeOK
  <2>5. InProc(p) \subseteq Handlers /\ IsFiniteSet(Handlers)
    BY DEF InProc, ConstantsOK
  <2> DEFINE At(pc) == {g \in InProc(p) \ {h} : hnd[g].pc = pc}
  <2>6. /\ Cardinality({g \in InProc(p) : HoldsSlot(g)}) \in Nat
        /\ Cardinality(At("slot")) \in Nat
    BY <2>5, FS_Subset, FS_CardinalityType
  <2>7. inflight' \in Nat
    BY <1>4, <2>6, CancelType DEF HandlerEscapes, TypeOK
  <2>8. chunkLock' \subseteq chunkLock \cup Batches
    <3>1. chunkLock' \subseteq chunkLock \cup {Batch(g) : g \in At("lock")}
      BY <1>4 DEF HandlerEscapes
    <3>2. {Batch(g) : g \in At("lock")} \subseteq Batches
      BY <2>5 DEF TypeOK, HandlerType, Batch
    <3> QED
      BY <3>1, <3>2
  <2>9. LockType'
    BY <2>2, <2>7, <2>8 DEF TypeOK, LockType, Batches
  <2> QED
    BY <2>2, <2>3, <2>4, <2>9 DEF TypeOK
<1>5. ASSUME NEW p \in Procs, ProcKilled(p) PROVE TypeOK'
  <2>1. Stop(p)
    BY <1>5 DEF ProcKilled
  <2>2. /\ RowType' /\ FileType' /\ CounterType' /\ LockType' /\ QueueType' /\ WorkerType'
        /\ UNCHANGED nBatches
    BY <1>5, <2>1, RowKept, FileKept, CounterKept, LockKept, QueueKept, WorkerKept
    DEF TypeOK, ProcKilled, Stop, frame, files, fileVars, locks
  <2>3. BoundType'
    BY <1>5, FaultBound DEF TypeOK, ProcKilled
  <2>4. HandlerType'
    BY <2>1, <2>2, StopType DEF TypeOK
  <2> QED
    BY <2>2, <2>3, <2>4 DEF TypeOK
<1>6. ASSUME NEW b \in Batches, ChunkLockExpires(b) PROVE TypeOK'
  <2>1. /\ RowType' /\ FileType' /\ CounterType' /\ QueueType' /\ HandlerType' /\ WorkerType'
        /\ UNCHANGED nBatches
    BY <1>6, RowKept, FileKept, CounterKept, QueueKept, HandlerKept, WorkerKept
    DEF TypeOK, ChunkLockExpires, frame, files, fileVars, handlerVars
  <2>2. BoundType'
    BY <1>6, FaultBound, BoundKept DEF TypeOK, ChunkLockExpires
  <2>3. LockType'
    BY <1>6, <2>1 DEF TypeOK, ChunkLockExpires, LockType, Batches, frame
  <2> QED
    BY <2>1, <2>2, <2>3 DEF TypeOK
<1> QED
  BY <1>1, <1>2, <1>3, <1>4, <1>5, <1>6 DEF ChunkWorkerFault

-----------------------------------------------------------------------------
(* Type correctness of the RQ workers *)

PlaceType ==
  /\ wrk \in [Workers -> Worker]
  /\ \A w \in Workers : /\ wrk[w].pc = "i_translate" => nBatches > 0
                        /\ wrk[w].pc \in WritesBatch => wrk[w].at \in Batches
ThreadType == retryThreads \in [Workers -> Seq(RqJob)]

\* A worker goes to another point of its code.
LEMMA GoAsType ==
  ASSUME PlaceType, UNCHANGED nBatches, NEW w \in Workers,
         NEW from, NEW to \in WorkerPc \ {"i_translate"},
         NEW ctx \in {"build", "repair", "inline"},
         to \in WritesBatch => from \in WritesBatch, GoAs(w, from, to, ctx)
  PROVE  PlaceType'
<1>1. Batches' = Batches /\ Worker' = Worker
  BY DEF Batches, Worker
<1>2. wrk' \in [Workers -> Worker]
  BY ZenonT(60) DEF PlaceType, GoAs, Worker, IdleWorker, Status, WorkerPc
<1>3. \A v \in Workers : /\ wrk'[v].pc = "i_translate" => nBatches > 0
                         /\ wrk'[v].pc \in WritesBatch => wrk'[v].at \in Batches
  BY DEF PlaceType, GoAs, Worker, IdleWorker, WritesBatch
<1> QED
  BY <1>1, <1>2, <1>3 DEF PlaceType

LEMMA GoType ==
  ASSUME PlaceType, UNCHANGED nBatches, NEW w \in Workers,
         NEW from, NEW to \in WorkerPc \ {"i_translate"},
         to \in WritesBatch => from \in WritesBatch, Go(w, from, to)
  PROVE  PlaceType'
<1>1. wrk[w].ctx \in {"build", "repair", "inline"}
  BY DEF PlaceType, Worker
<1> QED
  BY <1>1, GoAsType DEF Go

LEMMA LoadType ==
  ASSUME PlaceType, RowType, UNCHANGED nBatches, NEW w \in Workers,
         NEW from, NEW to \in {"p_mark", "f_lock"}, Load(w, from, to)
  PROVE  PlaceType'
<1>1. Batches' = Batches /\ Worker' = Worker
  BY DEF Batches, Worker
<1>2. wrk' \in [Workers -> Worker]
  <2>1. to \in WorkerPc /\ "exit" \in WorkerPc
    BY DEF WorkerPc, PreparePc, FinalizePc
  <2>2. CASE status = "completed"
    BY <2>1, <2>2 DEF PlaceType, Load, Worker, IdleWorker, Status
  <2>3. CASE status # "completed"
    BY <2>1, <2>3, ZenonT(60) DEF PlaceType, Load, Worker, RowType
  <2> QED
    BY <2>2, <2>3
<1>3. \A v \in Workers : /\ wrk'[v].pc = "i_translate" => nBatches > 0
                         /\ wrk'[v].pc \in WritesBatch => wrk'[v].at \in Batches
  BY DEF PlaceType, Load, Worker, IdleWorker, WritesBatch
<1> QED
  BY <1>1, <1>2, <1>3 DEF PlaceType

LEMMA NextInlineType ==
  ASSUME PlaceType, nBatches \in Nat, UNCHANGED nBatches, NEW w \in Workers,
         NEW from \in {"i_mark", "i_incr"}, NextInline(w, from)
  PROVE  PlaceType'
<1>1. Batches' = Batches /\ Worker' = Worker
  BY DEF Batches, Worker
<1>2. wrk' \in [Workers -> Worker]
  BY DEF PlaceType, NextInline, Worker, WorkerPc, PreparePc
<1>3. \A v \in Workers : /\ wrk'[v].pc = "i_translate" => nBatches > 0
                         /\ wrk'[v].pc \in WritesBatch => wrk'[v].at \in Batches
  BY DEF PlaceType, NextInline, Worker, WritesBatch, Batches
<1> QED
  BY <1>1, <1>2, <1>3 DEF PlaceType

LEMMA SetStatusType ==
  ASSUME RowType, NEW w \in Workers, NEW s \in Status, SetStatus(w, s)
  PROVE  status' \in Status
BY DEF RowType, SetStatus

LEMMA RetryOrFailType ==
  ASSUME RowType, ThreadType, NEW w \in Workers, NEW rqJob \in RqJob,
         NEW tried \in Nat, RetryOrFail(w, rqJob, tried)
  PROVE  status' \in Status /\ attempt' \in Nat /\ ThreadType'
<1>1. CASE tried + 1 < MaxAttempts
  <2>1. status' = "pending" /\ attempt' = tried + 1
    BY <1>1 DEF RetryOrFail
  <2>2. retryThreads' = [retryThreads EXCEPT ![w] = Append(@, rqJob)]
    BY <1>1 DEF RetryOrFail
  <2>3. ThreadType'
    BY <2>2 DEF ThreadType
  <2> QED
    BY <2>1, <2>3 DEF RowType, Status
<1>2. CASE ~(tried + 1 < MaxAttempts)
  <2>1. status' = "failed" /\ UNCHANGED <<attempt, retryThreads>>
    BY <1>2 DEF RetryOrFail
  <2> QED
    BY <2>1 DEF RowType, ThreadType, Status
<1> QED
  BY <1>1, <1>2

\* What the steps of a worker leave alone.
LEMMA PrepareFrame ==
  ASSUME NEW w \in Workers, PrepareStep(w)
  PROVE  /\ UNCHANGED <<nBatches, usageRows, input, outDir, out, doneMark, failMark>>
         /\ UNCHANGED <<chunkLock, inflight, finRunning, handlerVars, boundVars>>
BY DEF PrepareStep, PrepareLoad, PrepareMark, Parse, SkipPrepared, RepairQueue,
  BuildManifest, SetTotals, PushMessages, ClaimEmpty, EnqueueEmpty, ReadAgain,
  ReadAgainRaises, PrepareExcept, Returned, Finished, AfterClaim,
  dbVars, fileVars, counterVars, locks, queues, env, job, redis

LEMMA PrepareStepType ==
  ASSUME TypeOK, ConstantsOK, NEW w \in Workers, PrepareStep(w) PROVE TypeOK'
<1> USE DEF PrepareStep, PrepareLoad, PrepareMark, Parse, SkipPrepared, RepairQueue,
  BuildManifest, SetTotals, PushMessages, ClaimEmpty, EnqueueEmpty, ReadAgain,
  ReadAgainRaises, PrepareExcept, Returned, Finished, AfterClaim
<1>1. /\ UNCHANGED <<nBatches, usageRows, input, outDir, out, doneMark, failMark>>
      /\ UNCHANGED <<chunkLock, inflight, finRunning, handlerVars, boundVars>>
      /\ Batches' = Batches /\ Message' = Message
  BY PrepareFrame DEF Batches, Message
<1>2. PlaceType /\ ThreadType /\ wrk[w].tried \in Nat
  BY DEF TypeOK, WorkerType, PlaceType, ThreadType, Worker
<1>3. status' \in Status /\ attempt' \in Nat
  BY <1>2, SetStatusType, RetryOrFailType DEF TypeOK, RowType, Status, RqJob, job, dbVars
<1>4. manifest' \in BOOLEAN
  BY DEF TypeOK, FileType, job, fileVars
<1>5. total' \in Nat /\ done' \in Nat /\ failed' \in Nat
  BY DEF TypeOK, CounterType, RowType, SetJobChunkTotals, redis, counterVars
<1>6. finEnqueued' \in BOOLEAN
  BY DEF TypeOK, LockType, redis, locks
<1>7. chunkQueue' \in Seq(Message)
  <2>1. FirstMessages \in Seq(Message)
    BY DEF FirstMessages, Message, Batches, TypeOK, RowType
  <2>2. chunkQueue' = chunkQueue \/ chunkQueue' = chunkQueue \o FirstMessages
    BY DEF RPush, redis, queues
  <2> QED
    BY <2>1, <2>2, ConcatType DEF TypeOK, QueueType
<1>8. rqQueue' \in Seq(RqJob)
  BY DEF TypeOK, QueueType, RqJob, redis, queues
<1>9. PlaceType'
  BY <1>1, <1>2, GoType, GoAsType, LoadType
  DEF TypeOK, WorkerPc, PreparePc, WritesBatch
<1>10. ThreadType'
  BY <1>2, RetryOrFailType DEF TypeOK, RqJob, ThreadType
<1>11. HandlerType' /\ BoundType'
  BY <1>1, HandlerKept, BoundKept DEF TypeOK
<1> QED
  BY <1>1, <1>3, <1>4, <1>5, <1>6, <1>7, <1>8, <1>9, <1>10, <1>11
  DEF TypeOK, RowType, FileType, CounterType, LockType, QueueType, WorkerType, PlaceType,
      ThreadType

LEMMA BatchesFinite == RowType /\ ConstantsOK => nBatches \in Nat /\ IsFiniteSet(Batches)
<1> SUFFICES ASSUME RowType, ConstantsOK PROVE nBatches \in Nat /\ IsFiniteSet(Batches)
  OBVIOUS
<1>1. nBatches \in Nat /\ 0 \in Int /\ nBatches - 1 \in Int
  BY DEF RowType, ConstantsOK
<1> QED
  BY <1>1, FS_Interval DEF Batches

LEMMA InlineFrame ==
  ASSUME NEW w \in Workers, InlineStep(w)
  PROVE  /\ UNCHANGED <<dbVars, input, manifest, failMark, chunkLock, finEnqueued>>
         /\ UNCHANGED <<finRunning, queues, handlerVars, boundVars, retryThreads>>
BY DEF InlineStep, StartInline, InlineAcquire, InlineDone, InlineGathered, InlineFails,
  InlineWrite, InlineMark, InlineIncr, InlineSchedule, dbVars, fileVars, counterVars, locks,
  queues, env, job, redis

LEMMA InlinePlace ==
  ASSUME PlaceType, nBatches \in Nat, UNCHANGED nBatches, NEW w \in Workers, InlineStep(w)
  PROVE  PlaceType'
<1>1. Batches' = Batches
  BY DEF Batches
<1>2. CASE StartInline(w)
  BY <1>1, <1>2
  DEF StartInline, PlaceType, Worker, Inline, WorkerPc, PreparePc, WritesBatch
<1>3. ASSUME NEW b \in Batches, InlineAcquire(w, b) \/ InlineDone(w, b) PROVE PlaceType'
  BY <1>1, <1>3 DEF InlineAcquire, InlineDone, PlaceType, Worker, WritesBatch
<1>4. CASE InlineGathered(w)
  <2>1. nBatches > 0 /\ wrk' = [wrk EXCEPT ![w].pc = "i_write", ![w].at = 0]
    BY <1>4 DEF InlineGathered, PlaceType
  <2>2. 0 \in Batches /\ "i_write" \in WorkerPc
    BY <2>1 DEF Batches, WorkerPc, PreparePc
  <2>3. wrk' \in [Workers -> Worker]
    BY <2>1, <2>2, ZenonT(60) DEF PlaceType, Worker
  <2> QED
    BY <1>1, <2>1, <2>2, <2>3 DEF PlaceType, Worker, WritesBatch
<1>5. CASE InlineFails(w) \/ InlineWrite(w) \/ InlineSchedule(w)
  BY <1>5, GoType
  DEF InlineFails, InlineWrite, InlineSchedule, Returned, Finished, WorkerPc, PreparePc,
      WritesBatch
<1>6. CASE InlineMark(w) \/ InlineIncr(w)
  BY <1>6, GoType, NextInlineType DEF InlineMark, InlineIncr, WorkerPc, PreparePc, WritesBatch
<1> QED
  BY <1>2, <1>3, <1>4, <1>5, <1>6 DEF InlineStep

LEMMA InlineInflight ==
  ASSUME PlaceType, LockType, RowType, ConstantsOK, NEW w \in Workers, InlineStep(w)
  PROVE  inflight' \in Nat
<1>1. CASE InlineFails(w)
  <2>1. CancelInflight(Cardinality(wrk[w].live), Cardinality(wrk[w].todo))
    BY <1>1 DEF InlineFails
  <2>2. IsFiniteSet(wrk[w].live) /\ IsFiniteSet(wrk[w].todo)
    BY BatchesFinite, FS_Subset DEF PlaceType, Worker
  <2>3. Cardinality(wrk[w].live) \in Nat /\ Cardinality(wrk[w].todo) \in Nat
    BY <2>2, FS_CardinalityType
  <2> QED
    BY <2>1, <2>3, CancelType
<1>2. CASE \E b \in Batches : InlineAcquire(w, b) \/ InlineDone(w, b)
  BY <1>2 DEF InlineAcquire, InlineDone, AcquireInflight, ReleaseInflight, LockType
<1>3. CASE UNCHANGED inflight
  BY <1>3 DEF LockType
<1> QED
  BY <1>1, <1>2, <1>3 DEF InlineStep, StartInline, InlineGathered, InlineWrite, InlineMark,
    InlineIncr, InlineSchedule, redis, locks

LEMMA InlineStepType ==
  ASSUME TypeOK, ConstantsOK, NEW w \in Workers, InlineStep(w) PROVE TypeOK'
<1>1. Batches' = Batches /\ UNCHANGED nBatches /\ nBatches \in Nat
  BY InlineFrame, BatchesFinite DEF Batches, dbVars, TypeOK
<1>2. PlaceType /\ ThreadType
  BY DEF TypeOK, WorkerType, PlaceType, ThreadType
<1>3. InlineWrite(w) \/ InlineMark(w) => wrk[w].at \in Batches
  BY <1>2 DEF PlaceType, InlineWrite, InlineMark, Go, GoAs, WritesBatch
<1>4. FileType'
  <2>1. outDir' \in BOOLEAN
    BY DEF TypeOK, FileType, InlineStep, StartInline, InlineAcquire, InlineDone,
      InlineGathered, InlineFails, InlineWrite, InlineMark, InlineIncr, InlineSchedule,
      job, fileVars
  <2>2. out' = out \/ (InlineWrite(w) /\ out' = [out EXCEPT ![wrk[w].at] = "ok"])
    BY DEF InlineStep, StartInline, InlineAcquire, InlineDone, InlineGathered, InlineFails,
      InlineWrite, InlineMark, InlineIncr, InlineSchedule, job, fileVars
  <2> QED
    BY <1>1, <1>3, <2>1, <2>2, InlineFrame DEF TypeOK, FileType
<1>5. CounterType'
  <2>1. doneMark' = doneMark \/ (InlineMark(w) /\ doneMark' = doneMark \cup {wrk[w].at})
    BY DEF InlineStep, StartInline, InlineAcquire, InlineDone, InlineGathered, InlineFails,
      InlineWrite, InlineMark, InlineIncr, InlineSchedule, redis, counterVars
  <2>2. /\ total' = total \/ total' = nBatches
        /\ done' = done \/ done' = 0 \/ done' = done + 1
        /\ failed' = failed \/ failed' = 0
    BY DEF InlineStep, StartInline, InlineAcquire, InlineDone, InlineGathered, InlineFails,
      InlineWrite, InlineMark, InlineIncr, InlineSchedule, SetJobChunkTotals, redis,
      counterVars
  <2> QED
    BY <1>1, <1>3, <2>1, <2>2, InlineFrame DEF TypeOK, CounterType
<1>6. inflight' \in Nat
  BY <1>2, InlineInflight DEF TypeOK
<1>7. PlaceType'
  BY <1>1, <1>2, InlinePlace
<1>8. RowType' /\ HandlerType' /\ BoundType' /\ QueueType'
  BY <1>1, InlineFrame, RowKept, HandlerKept, BoundKept, QueueKept DEF TypeOK
<1> QED
  BY <1>1, <1>2, <1>4, <1>5, <1>6, <1>7, <1>8, InlineFrame
  DEF TypeOK, LockType, WorkerType, PlaceType, ThreadType

LEMMA FinalizeStepType ==
  ASSUME TypeOK, ConstantsOK, NEW w \in Workers, FinalizeStep(w) PROVE TypeOK'
<1> USE DEF FinalizeStep, FinalizeLoad, FinalizeLock, FinalizeFails, FinalizeTooEarly,
  FinalizeReady, Merge, Charge, FinalizeExcept, ReleaseFinalize
<1>1. /\ UNCHANGED <<nBatches, fileVars, counterVars, locks, queues, handlerVars, boundVars>>
      /\ Batches' = Batches
  BY DEF Batches, dbVars, locks, queues, env, job, redis
<1>2. PlaceType /\ ThreadType
  BY DEF TypeOK, WorkerType, PlaceType, ThreadType
<1>3. status' \in Status /\ attempt' \in Nat
  BY <1>2, SetStatusType, RetryOrFailType DEF TypeOK, RowType, Status, RqJob, job, dbVars
<1>4. usageRows' \in Nat
  BY DEF TypeOK, RowType, job, dbVars
<1>5. finRunning' \in BOOLEAN
  BY DEF TypeOK, LockType, redis
<1>6. PlaceType'
  BY <1>1, <1>2, GoType, LoadType
  DEF TypeOK, WorkerPc, FinalizePc, FinalizeHeld, WritesBatch
<1>7. ThreadType'
  BY <1>2, RetryOrFailType DEF TypeOK, RowType, RqJob, ThreadType
<1>8. FileType' /\ CounterType' /\ QueueType' /\ HandlerType' /\ BoundType'
  BY <1>1, FileKept, CounterKept, QueueKept, HandlerKept, BoundKept DEF TypeOK
<1> QED
  BY <1>1, <1>3, <1>4, <1>5, <1>6, <1>7, <1>8
  DEF TypeOK, RowType, LockType, locks, WorkerType, PlaceType, ThreadType

LEMMA QueueStepType ==
  ASSUME TypeOK, ConstantsOK, NEW w \in Workers,
         TakeJob(w) \/ JobReturns(w) \/ RetryThreadRuns(w)
  PROVE  TypeOK'
<1> USE DEF TakeJob, JobReturns, RetryThreadRuns
<1>1. /\ UNCHANGED <<dbVars, fileVars, counterVars, locks, finRunning, chunkQueue>>
      /\ UNCHANGED <<handlerVars, boundVars>>
      /\ Batches' = Batches /\ Message' = Message /\ UNCHANGED nBatches
  BY DEF Batches, Message, dbVars, locks, queues, env, job, redis
<1>2. PlaceType /\ ThreadType
  BY DEF TypeOK, WorkerType, PlaceType, ThreadType
<1>3. PlaceType'
  <2>1. CASE TakeJob(w) \/ JobReturns(w)
    BY <1>1, <1>2, <2>1, GoType DEF WorkerPc, PreparePc, FinalizePc, WritesBatch
  <2>2. CASE RetryThreadRuns(w)
    BY <1>1, <1>2, <2>2 DEF PlaceType, Worker
  <2> QED
    BY <2>1, <2>2
<1>4. rqQueue' \in Seq(RqJob) /\ ThreadType'
  <2>1. CASE TakeJob(w)
    BY <1>2, <2>1, HeadTail DEF TypeOK, QueueType, ThreadType
  <2>2. CASE JobReturns(w)
    BY <1>2, <2>2 DEF TypeOK, QueueType, ThreadType, redis, queues
  <2>3. CASE RetryThreadRuns(w)
    <3>1. Head(retryThreads[w]) \in RqJob /\ Tail(retryThreads[w]) \in Seq(RqJob)
      BY <1>2, <2>3, HeadTail DEF ThreadType
    <3> QED
      BY <1>2, <2>3, <3>1 DEF TypeOK, QueueType, ThreadType
  <2> QED
    BY <2>1, <2>2, <2>3
<1>5. RowType' /\ FileType' /\ CounterType' /\ LockType' /\ HandlerType' /\ BoundType'
  BY <1>1, RowKept, FileKept, CounterKept, LockKept, HandlerKept, BoundKept DEF TypeOK
<1> QED
  BY <1>1, <1>3, <1>4, <1>5 DEF TypeOK, QueueType, WorkerType, PlaceType, ThreadType

LEMMA RqTasksFaultType ==
  ASSUME TypeOK, ConstantsOK, RqTasksFault PROVE TypeOK'
<1>1. PlaceType /\ ThreadType
  BY DEF TypeOK, WorkerType, PlaceType, ThreadType
<1>2. ASSUME NEW w \in Workers,
             ParseRaises(w) \/ PrepareRaises(w) \/ FinalizeRaises(w) \/ FinalizeEscapes(w)
      PROVE  TypeOK'
  <2>1. UNCHANGED <<job, redis, handlerVars, retryThreads>> /\ UNCHANGED nBatches
    BY <1>2 DEF ParseRaises, PrepareRaises, FinalizeRaises, FinalizeEscapes, job, dbVars
  <2>2. PlaceType'
    BY <1>1, <1>2, <2>1, GoType
    DEF ParseRaises, PrepareRaises, FinalizeRaises, FinalizeEscapes, Returned, Finished,
        WorkerPc, PreparePc, FinalizePc, FinalizeHeld, WritesBatch
  <2>3. BoundType'
    BY <1>2, FaultBound
    DEF TypeOK, ParseRaises, PrepareRaises, FinalizeRaises, FinalizeEscapes
  <2>4. /\ RowType' /\ FileType' /\ CounterType' /\ LockType' /\ QueueType' /\ HandlerType'
    BY <2>1, RowKept, FileKept, CounterKept, LockKept, QueueKept, HandlerKept
    DEF TypeOK, job, redis
  <2> QED
    BY <1>1, <2>1, <2>2, <2>3, <2>4 DEF TypeOK, WorkerType, PlaceType, ThreadType
<1>3. ASSUME NEW w \in Workers, RepairRaises(w) \/ PushReplyLost(w) PROVE TypeOK'
  <2>1. /\ UNCHANGED <<dbVars, input, outDir, out, counterVars, locks, finRunning>>
        /\ UNCHANGED <<rqQueue, handlerVars, retryThreads>>
        /\ UNCHANGED nBatches /\ Batches' = Batches /\ Message' = Message
    BY <1>3 DEF RepairRaises, PushReplyLost, dbVars, redis, queues, Batches, Message
  <2>2. PlaceType'
    BY <1>1, <1>3, <2>1, GoAsType
    DEF RepairRaises, PushReplyLost, WorkerPc, PreparePc, WritesBatch
  <2>3. BoundType'
    BY <1>3, FaultBound DEF TypeOK, RepairRaises, PushReplyLost
  <2>4. manifest' \in BOOLEAN
    BY <1>3 DEF RepairRaises, PushReplyLost
  <2>5. chunkQueue' \in Seq(Message)
    <3>1. FirstMessages \in Seq(Message)
      BY DEF FirstMessages, Message, Batches, TypeOK, RowType
    <3>2. chunkQueue' = chunkQueue \/ chunkQueue' = chunkQueue \o FirstMessages
      BY <1>3 DEF RepairRaises, PushReplyLost, RPush, redis, queues
    <3> QED
      BY <3>1, <3>2, ConcatType DEF TypeOK, QueueType
  <2>6. RowType' /\ CounterType' /\ LockType' /\ HandlerType'
    BY <2>1, RowKept, CounterKept, LockKept, HandlerKept DEF TypeOK
  <2> QED
    BY <1>1, <2>1, <2>2, <2>3, <2>4, <2>5, <2>6
    DEF TypeOK, FileType, QueueType, WorkerType, PlaceType, ThreadType
<1>4. ASSUME NEW w \in Workers, HorseDies(w) PROVE TypeOK'
  <2>1. UNCHANGED <<job, redis, handlerVars>> /\ UNCHANGED nBatches /\ Batches' = Batches
    BY <1>4 DEF HorseDies, job, dbVars, Batches
  <2>2. PlaceType'
    <3>1. IdleWorker \in Worker
      BY DEF IdleWorker, Worker, WorkerPc, Status
    <3> QED
      BY <1>1, <1>4, <2>1, <3>1 DEF HorseDies, PlaceType, Worker, IdleWorker, WritesBatch
  <2>3. ThreadType'
    BY <1>1, <1>4 DEF HorseDies, ThreadType
  <2>4. BoundType'
    BY <1>4, FaultBound DEF TypeOK, HorseDies
  <2>5. /\ RowType' /\ FileType' /\ CounterType' /\ LockType' /\ QueueType' /\ HandlerType'
    BY <2>1, RowKept, FileKept, CounterKept, LockKept, QueueKept, HandlerKept
    DEF TypeOK, job, redis
  <2> QED
    BY <2>2, <2>3, <2>4, <2>5 DEF TypeOK, WorkerType, PlaceType, ThreadType
<1>5. ASSUME NEW w \in Workers, InlineRaises(w) \/ ClaimReplyLost(w) \/ EnqueueReplyLost(w)
      PROVE  TypeOK'
  <2>1. /\ UNCHANGED <<job, counterVars, chunkLock, finRunning, chunkQueue, handlerVars>>
        /\ UNCHANGED retryThreads
        /\ UNCHANGED nBatches /\ Batches' = Batches /\ Message' = Message
    BY <1>5
    DEF InlineRaises, ClaimReplyLost, EnqueueReplyLost, job, dbVars, locks, queues, Batches,
        Message
  <2>2. PlaceType'
    BY <1>1, <1>5, <2>1, GoType
    DEF InlineRaises, ClaimReplyLost, EnqueueReplyLost, WorkerPc, PreparePc, WritesBatch
  <2>3. BoundType'
    BY <1>5, FaultBound DEF TypeOK, InlineRaises, ClaimReplyLost, EnqueueReplyLost
  <2>4. finEnqueued' \in BOOLEAN
    BY <1>5 DEF InlineRaises, ClaimReplyLost, EnqueueReplyLost, locks, TypeOK, LockType
  <2>5. inflight' \in Nat
    <3>1. CASE InlineRaises(w)
      <4>1. IsFiniteSet(wrk[w].live) /\ IsFiniteSet(wrk[w].todo)
        BY <1>1, BatchesFinite, FS_Subset DEF PlaceType, Worker, TypeOK
      <4> QED
        BY <3>1, <4>1, FS_CardinalityType, CancelType DEF InlineRaises, TypeOK
    <3>2. CASE ClaimReplyLost(w) \/ EnqueueReplyLost(w)
      BY <3>2 DEF ClaimReplyLost, EnqueueReplyLost, locks, TypeOK, LockType
    <3> QED
      BY <1>5, <3>1, <3>2
  <2>6. rqQueue' \in Seq(RqJob)
    BY <1>5, SMTT(60)
    DEF InlineRaises, ClaimReplyLost, EnqueueReplyLost, queues, TypeOK, QueueType, RqJob
  <2>7. LockType' /\ QueueType'
    BY <2>1, <2>4, <2>5, <2>6 DEF TypeOK, LockType, QueueType
  <2>8. /\ RowType' /\ FileType' /\ CounterType' /\ HandlerType'
    BY <2>1, RowKept, FileKept, CounterKept, HandlerKept DEF TypeOK, job
  <2> QED
    BY <1>1, <2>1, <2>2, <2>3, <2>7, <2>8 DEF TypeOK, WorkerType, PlaceType, ThreadType
<1>6. ASSUME NEW w \in Workers, ReleaseRaises(w) \/ RetryThreadRaises(w) PROVE TypeOK'
  <2>1. UNCHANGED <<job, redis, handlerVars>> /\ UNCHANGED nBatches /\ Batches' = Batches
    BY <1>6 DEF ReleaseRaises, RetryThreadRaises, job, dbVars, Batches
  <2>2. PlaceType'
    <3>1. CASE Go(w, "f_release", "exit")
      BY <1>1, <2>1, <3>1, GoType DEF WorkerPc, WritesBatch
    <3>2. CASE \E b \in wrk[w].live : wrk' = [wrk EXCEPT ![w].live = @ \ {b}]
      BY <1>1, <2>1, <3>2 DEF PlaceType, Worker
    <3>3. CASE UNCHANGED wrk
      BY <1>1, <2>1, <3>3 DEF PlaceType, Worker
    <3> QED
      BY <1>6, <3>1, <3>2, <3>3 DEF ReleaseRaises, RetryThreadRaises
  <2>3. ThreadType'
    <3>1. CASE UNCHANGED retryThreads
      BY <1>1, <3>1 DEF ThreadType
    <3>2. CASE RetryThreadRaises(w)
      BY <1>1, <3>2, HeadTail DEF RetryThreadRaises, ThreadType
    <3> QED
      BY <1>6, <3>1, <3>2 DEF ReleaseRaises
  <2>4. BoundType'
    BY <1>6, FaultBound DEF TypeOK, ReleaseRaises, RetryThreadRaises
  <2>5. /\ RowType' /\ FileType' /\ CounterType' /\ LockType' /\ QueueType' /\ HandlerType'
    BY <2>1, RowKept, FileKept, CounterKept, LockKept, QueueKept, HandlerKept
    DEF TypeOK, job, redis
  <2> QED
    BY <2>2, <2>3, <2>4, <2>5 DEF TypeOK, WorkerType, PlaceType, ThreadType
<1>7. ASSUME FinLockExpires PROVE TypeOK'
  <2>1. /\ UNCHANGED <<job, counterVars, locks, queues, handlerVars, boundVars, workerVars>>
        /\ UNCHANGED nBatches /\ Batches' = Batches
    BY <1>7 DEF FinLockExpires, env, job, dbVars, Batches
  <2>2. LockType'
    BY <1>7, <2>1 DEF FinLockExpires, TypeOK, LockType, locks
  <2> QED
    BY <2>1, <2>2, RowKept, FileKept, CounterKept, QueueKept, HandlerKept, WorkerKept,
       BoundKept DEF TypeOK, job
<1> QED
  BY <1>2, <1>3, <1>4, <1>5, <1>6, <1>7 DEF RqTasksFault

-----------------------------------------------------------------------------
(* Type correctness of the pipeline *)

LEMMA InitType == ASSUME ConstantsOK, Init PROVE TypeOK
<1>1. RowType /\ CounterType /\ LockType /\ BoundType
  <2>1. RowType
    BY DEF Init, RowType, Status
  <2>2. CounterType
    BY DEF Init, CounterType
  <2>3. LockType
    BY DEF Init, LockType
  <2>4. BoundType
    BY DEF ConstantsOK, Init, BoundType
  <2> QED
    BY <2>1, <2>2, <2>3, <2>4
<1>2. FileType
  BY DEF Init, FileType
<1>3. QueueType
  BY DEF Init, QueueType, RqJob
<1>4. HandlerType
  BY DEF Init, HandlerType, Handler, HandlerPc, IdleHandler
<1>5. WorkerType
  <2>1. IdleWorker \in Worker
    BY DEF IdleWorker, Worker, WorkerPc, Status
  <2> QED
    BY <2>1 DEF Init, WorkerType, IdleWorker, WritesBatch
<1> QED
  BY <1>1, <1>2, <1>3, <1>4, <1>5 DEF TypeOK

LEMMA ResubmitType == ASSUME TypeOK, ConstantsOK, Resubmit PROVE TypeOK'
<1>1. /\ UNCHANGED <<nBatches, usageRows, manifest, outDir, out, counterVars, locks>>
      /\ UNCHANGED <<finRunning, chunkQueue, handlerVars, workerVars, faults>>
      /\ Batches' = Batches /\ Message' = Message
  BY DEF Resubmit, Batches, Message
<1>2. status' \in Status /\ attempt' \in Nat
  BY DEF Resubmit, Status
<1>3. rqQueue' \in Seq(RqJob)
  BY DEF Resubmit, TypeOK, QueueType, RqJob
<1>4. BoundType'
  BY DEF Resubmit, TypeOK, BoundType, ConstantsOK
<1>5. input' \in BOOLEAN
  BY DEF Resubmit
<1>6. CounterType' /\ LockType' /\ HandlerType' /\ WorkerType'
  BY <1>1, CounterKept, LockKept, HandlerKept, WorkerKept DEF TypeOK
<1> QED
  BY <1>1, <1>2, <1>3, <1>4, <1>5, <1>6 DEF TypeOK, RowType, FileType, QueueType

LEMMA CleanupType == ASSUME TypeOK, ConstantsOK, Cleanup PROVE TypeOK'
<1>1. /\ UNCHANGED <<dbVars, counterVars, locks, finRunning, queues, handlerVars, workerVars>>
      /\ UNCHANGED nBatches /\ Batches' = Batches
  BY DEF Cleanup, Batches, dbVars
<1>2. FileType'
  BY <1>1 DEF Cleanup, FileType
<1>3. BoundType'
  BY FaultBound DEF Cleanup, TypeOK
<1> QED
  BY <1>1, <1>2, <1>3, RowKept, CounterKept, LockKept, QueueKept, HandlerKept, WorkerKept
  DEF TypeOK

LEMMA NextType == ASSUME TypeOK, ConstantsOK, [Next]_vars PROVE TypeOK'
<1>1. CASE \E p \in Procs : Pop(p)
  BY <1>1, PopType
<1>2. CASE \E h \in Handlers : HandlerStep(h)
  BY <1>2, HandlerStepType
<1>3. CASE \E w \in Workers : WorkerStep(w) \/ RetryThreadRuns(w)
  BY <1>3, PrepareStepType, InlineStepType, FinalizeStepType, QueueStepType DEF WorkerStep
<1>4. CASE ChunkWorkerFault
  BY <1>4, ChunkWorkerFaultType
<1>5. CASE RqTasksFault
  BY <1>5, RqTasksFaultType
<1>6. CASE Resubmit \/ Cleanup
  BY <1>6, ResubmitType, CleanupType
<1>7. CASE UNCHANGED vars
  BY <1>7, RowKept, FileKept, CounterKept, LockKept, QueueKept, HandlerKept, WorkerKept,
     BoundKept DEF vars, dbVars, TypeOK
<1> QED
  BY <1>1, <1>2, <1>3, <1>4, <1>5, <1>6, <1>7 DEF Next, System

\* Every variable keeps its type in every reachable state.
THEOREM TypeCorrect == Spec => []TypeOK
<1>1. Init => TypeOK
  BY InitType, ConstantsOK
<1>2. TypeOK /\ [Next]_vars => TypeOK'
  BY NextType, ConstantsOK
<1> QED
  BY <1>1, <1>2, PTL DEF Spec
=============================================================================
