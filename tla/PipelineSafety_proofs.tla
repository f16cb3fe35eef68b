------------------------ MODULE PipelineSafety_proofs ------------------------
(***************************************************************************)
(* Safety of ChunkPipeline for every number of batches, handlers, workers  *)
(* and faults.  Both invariants are inductive beside TypeOK.               *)
(***************************************************************************)
EXTENDS ChunkPipeline_proofs

-----------------------------------------------------------------------------
(* finalize_running is a mutual exclusion lock *)

\* A worker that moves, but not into the critical section, cannot break it ...
LEMMA MoveKeepsExclusion ==
  ASSUME PlaceType, FinalizeExclusive, NEW w \in Workers, UNCHANGED finRunning,
         \A v \in Workers \ {w} : wrk'[v] = wrk[v],
         wrk'[w].pc \in FinalizeHeld => wrk[w].pc \in FinalizeHeld
  PROVE  FinalizeExclusive'
BY DEF FinalizeExclusive

\* ... and a move by GoAs moves nobody else.
LEMMA GoAsMoves ==
  ASSUME PlaceType, NEW w \in Workers, NEW from, NEW to, NEW ctx, GoAs(w, from, to, ctx)
  PROVE  /\ wrk[w].pc = from /\ wrk'[w].pc = to
         /\ \A v \in Workers \ {w} : wrk'[v] = wrk[v]
BY DEF PlaceType, GoAs, Worker, IdleWorker

LEMMA PrepareKeepsExclusion ==
  ASSUME TypeOK, FinalizeExclusive, NEW w \in Workers, PrepareStep(w)
  PROVE  FinalizeExclusive'
<1>1. PlaceType
  BY DEF TypeOK, WorkerType, PlaceType
<1>2. /\ \A v \in Workers \ {w} : wrk'[v] = wrk[v]
      /\ wrk'[w].pc \notin FinalizeHeld
  <2>1. CASE PrepareLoad(w)
    BY <1>1, <2>1 DEF PrepareLoad, Load, PlaceType, Worker, FinalizeHeld
  <2>2. CASE ~PrepareLoad(w)
    BY <1>1, <2>2, GoAsMoves
    DEF PrepareStep, PrepareMark, Parse, SkipPrepared, RepairQueue, BuildManifest, SetTotals,
        PushMessages, ClaimEmpty, EnqueueEmpty, ReadAgain, ReadAgainRaises, PrepareExcept,
        Returned, Finished, AfterClaim, Go, FinalizeHeld
  <2> QED
    BY <2>1, <2>2
<1> QED
  BY <1>1, <1>2, PrepareFrame, MoveKeepsExclusion

LEMMA InlineKeepsExclusion ==
  ASSUME TypeOK, FinalizeExclusive, NEW w \in Workers, InlineStep(w)
  PROVE  FinalizeExclusive'
<1>1. PlaceType
  BY DEF TypeOK, WorkerType, PlaceType
<1>2. /\ \A v \in Workers \ {w} : wrk'[v] = wrk[v]
      /\ wrk'[w].pc \notin FinalizeHeld
  <2>1. CASE InlineFails(w) \/ InlineWrite(w) \/ InlineSchedule(w) \/ Go(w, "i_mark", "i_incr")
    BY <1>1, <2>1, GoAsMoves
    DEF InlineFails, InlineWrite, InlineSchedule, Returned, Finished, Go, FinalizeHeld
  <2>2. CASE StartInline(w)
    BY <1>1, <2>2 DEF StartInline, PlaceType, Worker, FinalizeHeld
  <2>3. CASE \E b \in Batches : InlineAcquire(w, b) \/ InlineDone(w, b)
    BY <1>1, <2>3 DEF InlineAcquire, InlineDone, PlaceType, Worker, FinalizeHeld
  <2>4. CASE InlineGathered(w)
    BY <1>1, <2>4 DEF InlineGathered, PlaceType, Worker, FinalizeHeld
  <2>5. CASE NextInline(w, "i_mark") \/ NextInline(w, "i_incr")
    BY <1>1, <2>5 DEF NextInline, PlaceType, Worker, FinalizeHeld
  <2> QED
    BY <2>1, <2>2, <2>3, <2>4, <2>5 DEF InlineStep, InlineMark, InlineIncr
<1> QED
  BY <1>1, <1>2, InlineFrame, MoveKeepsExclusion

LEMMA FinalizeKeepsExclusion ==
  ASSUME TypeOK, FinalizeExclusive, NEW w \in Workers, FinalizeStep(w)
  PROVE  FinalizeExclusive'
<1>1. PlaceType
  BY DEF TypeOK, WorkerType, PlaceType
<1>2. CASE FinalizeLoad(w)
  <2>1. /\ \A v \in Workers \ {w} : wrk'[v] = wrk[v]
        /\ wrk'[w].pc \notin FinalizeHeld
    BY <1>1, <1>2 DEF FinalizeLoad, Load, PlaceType, Worker, FinalizeHeld
  <2> QED
    BY <1>1, <1>2, <2>1, MoveKeepsExclusion DEF FinalizeLoad, redis
<1>3. CASE FinalizeLock(w)
  <2>1. /\ \A v \in Workers \ {w} : wrk'[v] = wrk[v]
        /\ wrk'[w].pc = IF finRunning THEN "exit" ELSE "f_check"
    BY <1>1, <1>3, GoAsMoves DEF FinalizeLock, Go
  <2>2. finRunning'
    BY <1>3 DEF FinalizeLock
  <2>3. CASE finRunning
    BY <2>1, <2>2, <2>3 DEF FinalizeExclusive, FinalizeHeld
  <2>4. CASE ~finRunning
    BY <2>1, <2>2, <2>4 DEF FinalizeExclusive
  <2> QED
    BY <2>3, <2>4
<1>4. CASE \/ FinalizeFails(w) \/ FinalizeTooEarly(w) \/ FinalizeReady(w) \/ Merge(w)
           \/ Charge(w) \/ FinalizeExcept(w)
  <2>1. /\ \A v \in Workers \ {w} : wrk'[v] = wrk[v]
        /\ wrk[w].pc \in FinalizeHeld
    BY <1>1, <1>4, GoAsMoves
    DEF FinalizeFails, FinalizeTooEarly, FinalizeReady, Merge, Charge, FinalizeExcept, Go,
        FinalizeHeld
  <2>2. UNCHANGED finRunning
    BY <1>4
    DEF FinalizeFails, FinalizeTooEarly, FinalizeReady, Merge, Charge, FinalizeExcept, redis
  <2> QED
    BY <1>1, <2>1, <2>2, MoveKeepsExclusion
<1>5. CASE ReleaseFinalize(w)
  <2>1. /\ \A v \in Workers \ {w} : wrk'[v] = wrk[v]
        /\ wrk[w].pc = "f_release" /\ wrk'[w].pc = "exit"
    BY <1>1, <1>5, GoAsMoves DEF ReleaseFinalize, Go
  <2>2. \A v \in Workers \ {w} : wrk[v].pc \notin FinalizeHeld
    BY <2>1 DEF FinalizeExclusive, FinalizeHeld
  <2> QED
    BY <2>1, <2>2 DEF FinalizeExclusive, FinalizeHeld
<1> QED
  BY <1>2, <1>3, <1>4, <1>5 DEF FinalizeStep

LEMMA RqFaultKeepsExclusion ==
  ASSUME TypeOK, FinalizeExclusive, RqTasksFault
  PROVE  FinalizeExclusive'
<1>1. PlaceType
  BY DEF TypeOK, WorkerType, PlaceType
<1>2. ASSUME NEW w \in Workers,
             \/ ParseRaises(w) \/ PrepareRaises(w) \/ InlineRaises(w) \/ RepairRaises(w)
             \/ PushReplyLost(w) \/ ClaimReplyLost(w) \/ EnqueueReplyLost(w)
             \/ FinalizeEscapes(w)
      PROVE  FinalizeExclusive'
  <2>1. /\ \A v \in Workers \ {w} : wrk'[v] = wrk[v]
        /\ wrk'[w].pc \notin FinalizeHeld
    BY <1>1, <1>2, GoAsMoves
    DEF ParseRaises, PrepareRaises, InlineRaises, RepairRaises, PushReplyLost,
        ClaimReplyLost, EnqueueReplyLost, FinalizeEscapes, Returned, Finished, Go, FinalizeHeld
  <2>2. UNCHANGED finRunning
    BY <1>2
    DEF ParseRaises, PrepareRaises, InlineRaises, RepairRaises, PushReplyLost,
        ClaimReplyLost, EnqueueReplyLost, FinalizeEscapes, redis
  <2> QED
    BY <1>1, <2>1, <2>2, MoveKeepsExclusion
<1>3. ASSUME NEW w \in Workers, FinalizeRaises(w) PROVE FinalizeExclusive'
  <2>1. /\ \A v \in Workers \ {w} : wrk'[v] = wrk[v]
        /\ wrk[w].pc \in FinalizeHeld
    BY <1>1, <1>3, GoAsMoves DEF FinalizeRaises, Go, FinalizeHeld
  <2> QED
    BY <1>1, <1>3, <2>1, MoveKeepsExclusion DEF FinalizeRaises, redis
<1>4. ASSUME NEW w \in Workers, HorseDies(w) PROVE FinalizeExclusive'
  <2>1. /\ \A v \in Workers \ {w} : wrk'[v] = wrk[v]
        /\ wrk'[w].pc \notin FinalizeHeld
    BY <1>1, <1>4 DEF HorseDies, PlaceType, IdleWorker, FinalizeHeld
  <2> QED
    BY <1>1, <1>4, <2>1, MoveKeepsExclusion DEF HorseDies, redis
<1>5. ASSUME FinLockExpires PROVE FinalizeExclusive'
  BY <1>5 DEF FinLockExpires, workerVars, FinalizeExclusive
<1>6. ASSUME NEW w \in Workers, ReleaseRaises(w) PROVE FinalizeExclusive'
  <2>1. UNCHANGED finRunning
    BY <1>6 DEF ReleaseRaises, redis
  <2>2. CASE Go(w, "f_release", "exit")
    <3>1. /\ \A v \in Workers \ {w} : wrk'[v] = wrk[v]
          /\ wrk'[w].pc \notin FinalizeHeld
      BY <1>1, <2>2, GoAsMoves DEF Go, FinalizeHeld
    <3> QED
      BY <1>1, <2>1, <3>1, MoveKeepsExclusion
  <2>3. CASE \E b \in wrk[w].live : wrk' = [wrk EXCEPT ![w].live = @ \ {b}]
    <3>1. /\ \A v \in Workers \ {w} : wrk'[v] = wrk[v]
          /\ wrk'[w].pc = wrk[w].pc
      BY <1>1, <2>3 DEF PlaceType, Worker
    <3> QED
      BY <1>1, <2>1, <3>1, MoveKeepsExclusion
  <2> QED
    BY <1>6, <2>2, <2>3 DEF ReleaseRaises
<1>7. ASSUME NEW w \in Workers, RetryThreadRaises(w) PROVE FinalizeExclusive'
  BY <1>7 DEF RetryThreadRaises, redis, FinalizeExclusive
<1> QED
  BY <1>2, <1>3, <1>4, <1>5, <1>6, <1>7 DEF RqTasksFault

\* The chunk workers, the user and the cleanup pass leave RQ workers alone.
LEMMA OthersKeepExclusion ==
  ASSUME TypeOK, FinalizeExclusive,
         \/ \E p \in Procs : Pop(p)
         \/ \E h \in Handlers : HandlerStep(h)
         \/ ChunkWorkerFault \/ Resubmit \/ Cleanup
         \/ UNCHANGED vars
  PROVE  FinalizeExclusive'
<1>1. UNCHANGED <<wrk, finRunning>>
  <2>1. ASSUME NEW p \in Procs, Pop(p) PROVE UNCHANGED <<wrk, finRunning>>
    BY <2>1 DEF Pop, frame, workerVars
  <2>2. ASSUME NEW h \in Handlers, HandlerStep(h) PROVE UNCHANGED <<wrk, finRunning>>
    BY <2>2, HandlerFrame DEF Take, frame, workerVars
  <2>3. ASSUME ChunkWorkerFault PROVE UNCHANGED <<wrk, finRunning>>
    BY <2>3
    DEF ChunkWorkerFault, WorkRaises, ReplyLost, Swallowed, HandlerEscapes, ProcKilled,
        ChunkLockExpires, Stop, frame, workerVars
  <2>4. ASSUME Resubmit \/ Cleanup \/ UNCHANGED vars PROVE UNCHANGED <<wrk, finRunning>>
    BY <2>4 DEF Resubmit, Cleanup, vars, workerVars
  <2> QED
    BY <2>1, <2>2, <2>3, <2>4
<1> QED
  BY <1>1 DEF FinalizeExclusive

LEMMA WorkerKeepsExclusion ==
  ASSUME TypeOK, FinalizeExclusive, NEW w \in Workers, WorkerStep(w) \/ RetryThreadRuns(w)
  PROVE  FinalizeExclusive'
<1>1. PlaceType
  BY DEF TypeOK, WorkerType, PlaceType
<1>2. CASE TakeJob(w) \/ JobReturns(w)
  <2>1. /\ \A v \in Workers \ {w} : wrk'[v] = wrk[v]
        /\ wrk'[w].pc \notin FinalizeHeld
    BY <1>1, <1>2, GoAsMoves DEF TakeJob, JobReturns, Go, FinalizeHeld
  <2>2. UNCHANGED finRunning
    BY <1>2 DEF TakeJob, JobReturns, redis
  <2> QED
    BY <1>1, <2>1, <2>2, MoveKeepsExclusion
<1>3. CASE RetryThreadRuns(w)
  BY <1>3 DEF RetryThreadRuns, FinalizeExclusive
<1> QED
  BY <1>2, <1>3, PrepareKeepsExclusion, InlineKeepsExclusion, FinalizeKeepsExclusion
  DEF WorkerStep

\* However often finalize is enqueued, retried or killed, and whatever expires, at
\* most one worker is past try_acquire_finalize_running, and it holds the lock.
THEOREM FinalizeMutex == Spec => []FinalizeExclusive
<1>1. Init => FinalizeExclusive
  BY DEF Init, FinalizeExclusive, IdleWorker, FinalizeHeld
<1>2. TypeOK /\ FinalizeExclusive /\ [Next]_vars => FinalizeExclusive'
  BY OthersKeepExclusion, WorkerKeepsExclusion, RqFaultKeepsExclusion DEF Next, System
<1> QED
  BY <1>1, <1>2, TypeCorrect, PTL DEF Spec
=============================================================================
