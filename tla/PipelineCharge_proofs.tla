------------------------ MODULE PipelineCharge_proofs ------------------------
(***************************************************************************)
(* A user is charged for a job once at most, for every value of the        *)
(* constants.  The argument is a token: the right to run finalize.  It is  *)
(* unclaimed until finEnqueued is set, then with the handler or worker     *)
(* that enqueues, then on the list, with the worker that runs finalize, or *)
(* with its retry thread; charging consumes it.  A fault can lose it, but  *)
(* nothing makes a second one, not even a re-upload: no step clears        *)
(* finEnqueued.  And a job that was charged stays completed: nothing else  *)
(* is on its way with it (the baton, in the second part).  And its batches *)
(* are each decided once: there is one message of a batch at most (the     *)
(* third part).                                                            *)
(***************************************************************************)
EXTENDS PipelineSlots_proofs

-----------------------------------------------------------------------------
(* The places of the token *)

NoFin(s) == \A i \in 1 .. Len(s) : s[i] # "finalize"
OneFin(s) == \A i, j \in 1 .. Len(s) : s[i] = "finalize" /\ s[j] = "finalize" => i = j

EnqHandlers == {h \in Handlers : hnd[h].pc = "enqueue"}
FinPc == {"p_enqueue", "f_load", "f_lock", "f_check", "f_merge", "f_charge", "f_except"}
FinWorkers == {w \in Workers : wrk[w].pc \in FinPc}
FinThreads == {w \in Workers : ~NoFin(retryThreads[w])}

\* No place holds two tokens, ...
Single ==
  /\ \A g, h \in EnqHandlers : g = h
  /\ \A v, w \in FinWorkers : v = w
  /\ \A v, w \in FinThreads : v = w
  /\ OneFin(rqQueue)
  /\ \A w \in Workers : OneFin(retryThreads[w])
  /\ usageRows <= 1

\* ... and no two places hold one.
Apart ==
  /\ ~finEnqueued => EnqHandlers = {} /\ FinWorkers = {} /\ NoFin(rqQueue)
                     /\ FinThreads = {} /\ usageRows = 0
  /\ EnqHandlers # {} => FinWorkers = {} /\ NoFin(rqQueue) /\ FinThreads = {} /\ usageRows = 0
  /\ FinWorkers # {} => NoFin(rqQueue) /\ FinThreads = {} /\ usageRows = 0
  /\ ~NoFin(rqQueue) => FinThreads = {} /\ usageRows = 0
  /\ FinThreads # {} => usageRows = 0

Token == Single /\ Apart

-----------------------------------------------------------------------------
(* Sequences of RQ jobs *)

LEMMA AppendFin ==
  ASSUME NEW s \in Seq(RqJob), NoFin(s)
  PROVE  OneFin(Append(s, "finalize"))
BY DEF NoFin, OneFin

LEMMA AppendPrepare ==
  ASSUME NEW s \in Seq(RqJob)
  PROVE  /\ NoFin(s) => NoFin(Append(s, "prepare"))
         /\ OneFin(s) => OneFin(Append(s, "prepare"))
BY DEF NoFin, OneFin

LEMMA TailFin ==
  ASSUME NEW s \in Seq(RqJob), s # <<>>
  PROVE  /\ NoFin(s) => NoFin(Tail(s))
         /\ OneFin(s) => OneFin(Tail(s))
         /\ OneFin(s) /\ Head(s) = "finalize" => NoFin(Tail(s)) /\ ~NoFin(s)
<1>1. /\ Len(s) \in Nat /\ Len(s) > 0 /\ Len(Tail(s)) = Len(s) - 1 /\ Head(s) = s[1]
      /\ \A i \in 1 .. Len(Tail(s)) : Tail(s)[i] = s[i + 1] /\ i + 1 \in 1 .. Len(s)
      /\ 1 \in 1 .. Len(s)
  OBVIOUS
<1>2. NoFin(s) => NoFin(Tail(s))
  BY <1>1 DEF NoFin
<1>3. OneFin(s) => OneFin(Tail(s))
  BY <1>1 DEF OneFin
<1>4. OneFin(s) /\ Head(s) = "finalize" => NoFin(Tail(s))
  BY <1>1 DEF OneFin, NoFin
<1>5. Head(s) = "finalize" => ~NoFin(s)
  BY <1>1 DEF NoFin
<1> QED
  BY <1>2, <1>3, <1>4, <1>5

LEMMA EmptyFin == NoFin(<<>>) /\ OneFin(<<>>)
BY DEF NoFin, OneFin

LEMMA NoneIsOne == ASSUME NEW s, NoFin(s) PROVE OneFin(s)
BY DEF NoFin, OneFin

-----------------------------------------------------------------------------
(* A step that brings no token anywhere *)

\* The retry threads have no more than they had.
ThreadsKept ==
  \A w \in Workers : /\ NoFin(retryThreads[w]) => NoFin(retryThreads'[w])
                     /\ OneFin(retryThreads[w]) => OneFin(retryThreads'[w])

LEMMA ThreadsSame == UNCHANGED retryThreads => ThreadsKept
BY DEF ThreadsKept

LEMMA TokenKept ==
  ASSUME Token, finEnqueued => finEnqueued', EnqHandlers' \subseteq EnqHandlers,
         FinWorkers' \subseteq FinWorkers, ThreadsKept, UNCHANGED usageRows,
         NoFin(rqQueue) => NoFin(rqQueue'), OneFin(rqQueue')
  PROVE  Token'
<1>1. FinThreads' \subseteq FinThreads
  BY DEF ThreadsKept, FinThreads
<1>2. Single'
  BY <1>1 DEF Token, Single, ThreadsKept
<1>3. Apart'
  BY <1>1 DEF Token, Apart
<1> QED
  BY <1>2, <1>3 DEF Token

-----------------------------------------------------------------------------
(* The token moves *)

LEMMA HandlerClaims ==
  ASSUME Token, ~finEnqueued, finEnqueued', NEW h \in Handlers,
         EnqHandlers' \subseteq EnqHandlers \cup {h},
         UNCHANGED <<wrk, rqQueue, retryThreads, usageRows>>
  PROVE  Token'
<1>1. FinWorkers' = FinWorkers /\ FinThreads' = FinThreads
  BY DEF FinWorkers, FinThreads
<1>2. EnqHandlers' \subseteq {h}
  BY DEF Token, Apart
<1>3. Single'
  BY <1>1, <1>2 DEF Token, Single
<1>4. Apart'
  BY <1>1 DEF Token, Apart
<1> QED
  BY <1>3, <1>4 DEF Token

LEMMA WorkerClaims ==
  ASSUME Token, ~finEnqueued, finEnqueued', NEW w \in Workers,
         FinWorkers' \subseteq FinWorkers \cup {w},
         UNCHANGED <<hnd, rqQueue, retryThreads, usageRows>>
  PROVE  Token'
<1>1. EnqHandlers' = EnqHandlers /\ FinThreads' = FinThreads
  BY DEF EnqHandlers, FinThreads
<1>2. FinWorkers' \subseteq {w}
  BY DEF Token, Apart
<1>3. Single'
  BY <1>1, <1>2 DEF Token, Single
<1>4. Apart'
  BY <1>1 DEF Token, Apart
<1> QED
  BY <1>3, <1>4 DEF Token

LEMMA HandlerEnqueues ==
  ASSUME Token, rqQueue \in Seq(RqJob), UNCHANGED finEnqueued, finEnqueued \in BOOLEAN,
         NEW h \in EnqHandlers, EnqHandlers' \subseteq EnqHandlers \ {h},
         rqQueue' = Append(rqQueue, "finalize"), UNCHANGED <<wrk, retryThreads, usageRows>>
  PROVE  Token'
<1>1. FinWorkers' = FinWorkers /\ FinThreads' = FinThreads
  BY DEF FinWorkers, FinThreads
<1>2. /\ EnqHandlers' = {} /\ FinWorkers = {} /\ NoFin(rqQueue) /\ FinThreads = {}
      /\ usageRows = 0 /\ finEnqueued
  BY DEF Token, Single, Apart
<1>3. OneFin(rqQueue')
  BY <1>2, AppendFin
<1>4. Single'
  BY <1>1, <1>2, <1>3 DEF Token, Single
<1>5. Apart'
  BY <1>1, <1>2 DEF Apart
<1> QED
  BY <1>4, <1>5 DEF Token

LEMMA WorkerEnqueues ==
  ASSUME Token, rqQueue \in Seq(RqJob), UNCHANGED finEnqueued, finEnqueued \in BOOLEAN,
         NEW w \in FinWorkers, FinWorkers' \subseteq FinWorkers \ {w},
         rqQueue' = Append(rqQueue, "finalize"), UNCHANGED <<hnd, retryThreads, usageRows>>
  PROVE  Token'
<1>1. EnqHandlers' = EnqHandlers /\ FinThreads' = FinThreads
  BY DEF EnqHandlers, FinThreads
<1>2. /\ EnqHandlers = {} /\ FinWorkers' = {} /\ NoFin(rqQueue) /\ FinThreads = {}
      /\ usageRows = 0 /\ finEnqueued
  BY DEF Token, Single, Apart
<1>3. OneFin(rqQueue')
  BY <1>2, AppendFin
<1>4. Single'
  BY <1>1, <1>2, <1>3 DEF Token, Single
<1>5. Apart'
  BY <1>1, <1>2 DEF Apart
<1> QED
  BY <1>4, <1>5 DEF Token

LEMMA FinalizeTaken ==
  ASSUME Token, rqQueue \in Seq(RqJob), finEnqueued \in BOOLEAN, rqQueue # <<>>,
         Head(rqQueue) = "finalize", rqQueue' = Tail(rqQueue), NEW w \in Workers,
         FinWorkers' \subseteq FinWorkers \cup {w},
         UNCHANGED <<finEnqueued, hnd, retryThreads, usageRows>>
  PROVE  Token'
<1>1. EnqHandlers' = EnqHandlers /\ FinThreads' = FinThreads
  BY DEF EnqHandlers, FinThreads
<1>2. NoFin(rqQueue') /\ ~NoFin(rqQueue) /\ OneFin(rqQueue')
  BY TailFin, NoneIsOne DEF Token, Single
<1>3. /\ EnqHandlers = {} /\ FinWorkers' \subseteq {w} /\ FinThreads = {}
      /\ usageRows = 0 /\ finEnqueued
  BY <1>2 DEF Token, Apart
<1>4. Single'
  BY <1>1, <1>2, <1>3 DEF Token, Single
<1>5. Apart'
  BY <1>1, <1>2, <1>3 DEF Apart
<1> QED
  BY <1>4, <1>5 DEF Token

LEMMA FinalizeRetried ==
  ASSUME Token, retryThreads \in [Workers -> Seq(RqJob)], finEnqueued \in BOOLEAN,
         NEW w \in FinWorkers, FinWorkers' \subseteq FinWorkers \ {w},
         retryThreads' = [retryThreads EXCEPT ![w] = Append(@, "finalize")],
         UNCHANGED <<finEnqueued, hnd, rqQueue, usageRows>>
  PROVE  Token'
<1>1. EnqHandlers' = EnqHandlers
  BY DEF EnqHandlers
<1>2. /\ EnqHandlers = {} /\ FinWorkers' = {} /\ NoFin(rqQueue) /\ FinThreads = {}
      /\ usageRows = 0 /\ finEnqueued
  BY DEF Token, Single, Apart
<1>3. w \in Workers /\ \A v \in Workers : NoFin(retryThreads[v])
  BY <1>2 DEF FinWorkers, FinThreads
<1>4. OneFin(Append(retryThreads[w], "finalize"))
  BY <1>3, AppendFin
<1>5. \A v \in Workers : retryThreads'[v] =
         IF v = w THEN Append(retryThreads[w], "finalize") ELSE retryThreads[v]
  BY <1>3
<1>6. /\ \A v \in Workers : OneFin(retryThreads'[v])
      /\ FinThreads' \subseteq {w}
  BY <1>3, <1>4, <1>5, NoneIsOne DEF FinThreads
<1>7. Single'
  BY <1>1, <1>2, <1>6 DEF Token, Single
<1>8. Apart'
  BY <1>1, <1>2 DEF Apart
<1> QED
  BY <1>7, <1>8 DEF Token

LEMMA ThreadEnqueues ==
  ASSUME Token, retryThreads \in [Workers -> Seq(RqJob)], rqQueue \in Seq(RqJob),
         finEnqueued \in BOOLEAN, NEW w \in Workers, retryThreads[w] # <<>>,
         Head(retryThreads[w]) = "finalize", rqQueue' = Append(rqQueue, "finalize"),
         retryThreads' = [retryThreads EXCEPT ![w] = Tail(@)],
         UNCHANGED <<finEnqueued, hnd, wrk, usageRows>>
  PROVE  Token'
<1>1. EnqHandlers' = EnqHandlers /\ FinWorkers' = FinWorkers
  BY DEF EnqHandlers, FinWorkers
<1>2. retryThreads[w] \in Seq(RqJob) /\ OneFin(retryThreads[w])
  BY DEF Token, Single
<1>3. NoFin(Tail(retryThreads[w])) /\ ~NoFin(retryThreads[w])
  BY <1>2, TailFin
<1>4. w \in FinThreads
  BY <1>3 DEF FinThreads
<1>5. /\ EnqHandlers = {} /\ FinWorkers = {} /\ NoFin(rqQueue)
      /\ usageRows = 0 /\ finEnqueued /\ \A v \in FinThreads : v = w
  BY <1>4 DEF Token, Single, Apart
<1>6. \A v \in Workers : retryThreads'[v] =
         IF v = w THEN Tail(retryThreads[w]) ELSE retryThreads[v]
  OBVIOUS
<1>7. \A v \in Workers : NoFin(retryThreads'[v])
  BY <1>3, <1>5, <1>6 DEF FinThreads
<1>8. FinThreads' = {} /\ \A v \in Workers : OneFin(retryThreads'[v])
  BY <1>7, NoneIsOne DEF FinThreads
<1>9. OneFin(rqQueue')
  BY <1>5, AppendFin
<1>10. Single'
  BY <1>1, <1>5, <1>8, <1>9 DEF Token, Single
<1>11. Apart'
  BY <1>1, <1>5, <1>8 DEF Apart
<1> QED
  BY <1>10, <1>11 DEF Token

LEMMA TokenSpent ==
  ASSUME Token, finEnqueued \in BOOLEAN, NEW w \in FinWorkers,
         FinWorkers' \subseteq FinWorkers \ {w}, usageRows' = usageRows + 1,
         UNCHANGED <<finEnqueued, hnd, rqQueue, retryThreads>>
  PROVE  Token'
<1>1. EnqHandlers' = EnqHandlers /\ FinThreads' = FinThreads
  BY DEF EnqHandlers, FinThreads
<1>2. /\ EnqHandlers = {} /\ FinWorkers' = {} /\ NoFin(rqQueue) /\ FinThreads = {}
      /\ usageRows = 0 /\ finEnqueued
  BY DEF Token, Single, Apart
<1>3. usageRows' <= 1
  BY <1>2
<1>4. Single'
  BY <1>1, <1>2, <1>3 DEF Token, Single
<1>5. Apart'
  BY <1>1, <1>2 DEF Apart
<1> QED
  BY <1>4, <1>5 DEF Token

-----------------------------------------------------------------------------
(* The steps of the chunk workers *)

LEMMA MoveEnq ==
  ASSUME NEW h \in Handlers, \A g \in Handlers \ {h} : hnd'[g] = hnd[g]
  PROVE  /\ hnd'[h].pc # "enqueue" => EnqHandlers' \subseteq EnqHandlers \ {h}
         /\ EnqHandlers' \subseteq EnqHandlers \cup {h}
BY DEF EnqHandlers

\* A step of a handler that neither claims finalize nor enqueues it.
Tokenless(h) == HandlerStep(h) /\ ~ClaimFinalize(h) /\ ~EnqueueFinalize(h)

LEMMA TokenlessMoves ==
  ASSUME HandlerType, NEW h \in Handlers, Tokenless(h)
  PROVE  /\ \A g \in Handlers \ {h} : hnd'[g] = hnd[g]
         /\ hnd'[h].pc # "enqueue"
         /\ UNCHANGED <<finEnqueued, rqQueue>>
<1>1. UNCHANGED <<finEnqueued, rqQueue>>
  BY DEF Tokenless, HandlerStep, Take, CheckOutput, AcquireLock, LockBusy, ReadManifest,
    AcquireSlot, TranslateReturns, TranslateRaises, FinishWrite, MarkCompleted, IncrDone,
    ReleaseSlot, RequeueAttempt, GiveUp, MarkFailed, IncrFailed, ReleaseLock, Schedule,
    locks, queues
<1>2. CASE Take(h)
  BY <1>1, <1>2, TakePlace
<1>3. CASE Schedule(h)
  BY <1>1, <1>3, GotoPlace, AfterSchedulePlace DEF Schedule
<1>4. CASE ~Take(h) /\ ~Schedule(h)
  BY <1>1, <1>4, GotoAsMoves
  DEF Tokenless, HandlerStep, CheckOutput, AcquireLock, LockBusy, ReadManifest,
      AcquireSlot, TranslateReturns, TranslateRaises, FinishWrite, MarkCompleted, IncrDone,
      ReleaseSlot, RequeueAttempt, GiveUp, MarkFailed, IncrFailed, ReleaseLock, Goto
<1> QED
  BY <1>2, <1>3, <1>4

LEMMA HandlerStepToken ==
  ASSUME TypeOK, Token, NEW h \in Handlers, HandlerStep(h)
  PROVE  Token'
<1>1. HandlerType /\ finEnqueued \in BOOLEAN /\ rqQueue \in Seq(RqJob) /\ OneFin(rqQueue)
  BY DEF TypeOK, LockType, QueueType, Token, Single
<1>2. UNCHANGED <<wrk, retryThreads, usageRows>>
  BY HandlerFrame DEF Take, frame, workerVars, dbVars
<1>3. FinWorkers' = FinWorkers /\ ThreadsKept
  BY <1>2, ThreadsSame DEF FinWorkers
<1>4. CASE ClaimFinalize(h)
  <2>1. /\ finEnqueued' /\ UNCHANGED rqQueue
        /\ hnd'[h].pc = IF finEnqueued THEN AfterSchedule(h) ELSE "enqueue"
        /\ \A g \in Handlers \ {h} : hnd'[g] = hnd[g]
    BY <1>1, <1>4, GotoPlace DEF ClaimFinalize, queues
  <2>2. CASE finEnqueued
    <3>1. hnd'[h].pc # "enqueue"
      BY <1>1, <2>1, <2>2, AfterSchedulePlace
    <3>2. EnqHandlers' \subseteq EnqHandlers
      BY <2>1, <3>1, MoveEnq
    <3> QED
      BY <1>1, <1>2, <1>3, <2>1, <3>2, TokenKept
  <2>3. CASE ~finEnqueued
    <3>1. EnqHandlers' \subseteq EnqHandlers \cup {h}
      BY <2>1, MoveEnq
    <3> QED
      BY <1>2, <2>1, <2>3, <3>1, HandlerClaims
  <2> QED
    BY <2>2, <2>3
<1>5. CASE EnqueueFinalize(h)
  <2>1. /\ hnd[h].pc = "enqueue" /\ hnd'[h].pc = AfterSchedule(h)
        /\ \A g \in Handlers \ {h} : hnd'[g] = hnd[g]
        /\ rqQueue' = Append(rqQueue, "finalize") /\ UNCHANGED finEnqueued
    BY <1>1, <1>5, GotoPlace DEF EnqueueFinalize, locks
  <2>2. h \in EnqHandlers /\ EnqHandlers' \subseteq EnqHandlers \ {h}
    BY <1>1, <2>1, AfterSchedulePlace, MoveEnq DEF EnqHandlers
  <2> QED
    BY <1>1, <1>2, <2>1, <2>2, HandlerEnqueues
<1>6. CASE Tokenless(h)
  <2>1. EnqHandlers' \subseteq EnqHandlers /\ UNCHANGED <<finEnqueued, rqQueue>>
    BY <1>1, <1>6, TokenlessMoves, MoveEnq
  <2> QED
    BY <1>1, <1>2, <1>3, <2>1, TokenKept
<1> QED
  BY <1>4, <1>5, <1>6 DEF Tokenless

LEMMA WorkerFaultToken ==
  ASSUME TypeOK, Token, ChunkWorkerFault
  PROVE  Token'
<1>1. HandlerType /\ OneFin(rqQueue)
  BY DEF TypeOK, Token, Single
<1>2. /\ UNCHANGED <<wrk, retryThreads, usageRows, rqQueue>>
      /\ finEnqueued => finEnqueued'
  <2>1. ASSUME NEW h \in Handlers, WorkRaises(h) \/ ReplyLost(h) \/ Swallowed(h)
        PROVE  /\ UNCHANGED <<wrk, retryThreads, usageRows, rqQueue>>
               /\ finEnqueued' = finEnqueued \/ finEnqueued' = TRUE
    BY <2>1 DEF WorkRaises, ReplyLost, Swallowed, frame, workerVars, dbVars, queues, locks
  <2>2. ASSUME \/ \E h \in Handlers : HandlerEscapes(h)
               \/ \E p \in Procs : ProcKilled(p)
               \/ \E b \in Batches : ChunkLockExpires(b)
        PROVE  UNCHANGED <<wrk, retryThreads, usageRows, rqQueue, finEnqueued>>
    BY <2>2
    DEF HandlerEscapes, ProcKilled, ChunkLockExpires, Stop, frame, workerVars, dbVars, queues
  <2>3. /\ UNCHANGED <<wrk, retryThreads, usageRows, rqQueue>>
        /\ finEnqueued' = finEnqueued \/ finEnqueued' = TRUE
    BY <2>1, <2>2, Zenon DEF ChunkWorkerFault
  <2>4. finEnqueued => finEnqueued'
    BY <2>3, Zenon
  <2> QED
    BY <2>3, <2>4
<1>3. FinWorkers' = FinWorkers /\ ThreadsKept
  BY <1>2, ThreadsSame DEF FinWorkers
<1>4. EnqHandlers' \subseteq EnqHandlers
  <2>1. ASSUME NEW h \in Handlers, WorkRaises(h) \/ ReplyLost(h) \/ Swallowed(h)
        PROVE  EnqHandlers' \subseteq EnqHandlers
    <3>1. /\ hnd'[h].pc # "enqueue"
          /\ \A g \in Handlers \ {h} : hnd'[g] = hnd[g]
      <4>1. CASE Goto(h, "enqueue", AfterSchedule(h))
        BY <1>1, <4>1, GotoPlace, AfterSchedulePlace
      <4>2. CASE ~Goto(h, "enqueue", AfterSchedule(h))
        BY <1>1, <2>1, <4>2, GotoPlace DEF WorkRaises, ReplyLost, Swallowed, Raises
      <4> QED
        BY <4>1, <4>2
    <3> QED
      BY <3>1, MoveEnq
  <2>2. ASSUME NEW p \in Procs, Stop(p) PROVE EnqHandlers' \subseteq EnqHandlers
    BY <2>2 DEF Stop, IdleHandler, EnqHandlers
  <2>3. ASSUME NEW h \in Handlers, HandlerEscapes(h) PROVE EnqHandlers' \subseteq EnqHandlers
    <3>1. ProcOf[h] \in Procs /\ Stop(ProcOf[h])
      BY <2>3, ConstantsOK DEF ConstantsOK, HandlerEscapes
    <3> QED
      BY <2>2, <3>1
  <2>4. ASSUME NEW p \in Procs, ProcKilled(p) PROVE EnqHandlers' \subseteq EnqHandlers
    BY <2>2, <2>4 DEF ProcKilled
  <2>5. ASSUME NEW b \in Batches, ChunkLockExpires(b) PROVE EnqHandlers' \subseteq EnqHandlers
    BY <2>5 DEF ChunkLockExpires, EnqHandlers
  <2> QED
    BY <2>1, <2>3, <2>4, <2>5 DEF ChunkWorkerFault
<1> QED
  BY <1>1, <1>2, <1>3, <1>4, TokenKept

-----------------------------------------------------------------------------
(* The steps of the RQ workers *)

LEMMA MoveFin ==
  ASSUME NEW w \in Workers, \A v \in Workers \ {w} : wrk'[v] = wrk[v]
  PROVE  /\ wrk'[w].pc \notin FinPc => FinWorkers' \subseteq FinWorkers \ {w}
         /\ wrk[w].pc \in FinPc => FinWorkers' \subseteq FinWorkers
         /\ FinWorkers' \subseteq FinWorkers \cup {w}
BY DEF FinWorkers

LEMMA EnqSame == UNCHANGED hnd => EnqHandlers' = EnqHandlers
BY DEF EnqHandlers

\* The types the moves of the token rest on.
TokenTypes ==
  /\ PlaceType /\ finEnqueued \in BOOLEAN /\ rqQueue \in Seq(RqJob)
  /\ retryThreads \in [Workers -> Seq(RqJob)]

LEMMA TokenTypesHold == TypeOK => TokenTypes
BY DEF TypeOK, LockType, QueueType, WorkerType, PlaceType, TokenTypes

\* A worker moves on, and brings the token nowhere.
LEMMA WorkerTokenKept ==
  ASSUME TokenTypes, Token, NEW w \in Workers, \A v \in Workers \ {w} : wrk'[v] = wrk[v],
         wrk'[w].pc \in FinPc => wrk[w].pc \in FinPc, finEnqueued => finEnqueued',
         ThreadsKept, UNCHANGED <<hnd, usageRows, rqQueue>>
  PROVE  Token'
<1>1. FinWorkers' \subseteq FinWorkers
  BY MoveFin
<1>2. EnqHandlers' \subseteq EnqHandlers /\ OneFin(rqQueue')
  BY EnqSame DEF Token, Single
<1> QED
  BY <1>1, <1>2, TokenKept

\* A prepare that is to be retried is no token.
LEMMA PrepareRetried ==
  ASSUME TokenTypes, NEW w \in Workers, NEW tried,
         RetryOrFail(w, "prepare", tried)
  PROVE  ThreadsKept
<1>1. CASE UNCHANGED retryThreads
  BY <1>1, ThreadsSame
<1>2. CASE retryThreads' = [retryThreads EXCEPT ![w] = Append(@, "prepare")]
  <2>1. \A v \in Workers : /\ retryThreads[v] \in Seq(RqJob)
                           /\ retryThreads'[v] = IF v = w THEN Append(retryThreads[w], "prepare")
                                                 ELSE retryThreads[v]
    BY <1>2 DEF TokenTypes
  <2> QED
    BY <2>1, AppendPrepare DEF ThreadsKept
<1> QED
  BY <1>1, <1>2 DEF RetryOrFail

LEMMA PrepareToken ==
  ASSUME TokenTypes, Token, NEW w \in Workers, PrepareStep(w)
  PROVE  Token'
<1>1. UNCHANGED <<hnd, usageRows>> /\ PlaceType
  BY PrepareFrame DEF handlerVars, TokenTypes
<1>2. CASE ClaimEmpty(w)
  <2>1. /\ finEnqueued' /\ UNCHANGED <<rqQueue, retryThreads>>
        /\ wrk'[w].pc = IF finEnqueued THEN AfterClaim(w) ELSE "p_enqueue"
        /\ \A v \in Workers \ {w} : wrk'[v] = wrk[v]
    BY <1>1, <1>2, GoAsMoves DEF ClaimEmpty, Go, queues
  <2>2. CASE finEnqueued
    <3>1. AfterClaim(w) \notin FinPc
      BY DEF AfterClaim, Returned, Finished, FinPc
    <3> QED
      BY <3>1, <1>1, <2>1, <2>2, WorkerTokenKept, ThreadsSame DEF FinPc
  <2>3. CASE ~finEnqueued
    BY <1>1, <2>1, <2>3, WorkerClaims, MoveFin
  <2> QED
    BY <2>2, <2>3
<1>3. CASE EnqueueEmpty(w)
  <2>1. /\ wrk[w].pc = "p_enqueue" /\ wrk'[w].pc = AfterClaim(w)
        /\ \A v \in Workers \ {w} : wrk'[v] = wrk[v]
        /\ rqQueue' = Append(rqQueue, "finalize") /\ UNCHANGED <<finEnqueued, retryThreads>>
    BY <1>1, <1>3, GoAsMoves DEF EnqueueEmpty, Go, locks
  <2>2. w \in FinWorkers /\ FinWorkers' \subseteq FinWorkers \ {w}
    BY <2>1, MoveFin DEF FinWorkers, FinPc, AfterClaim, Returned, Finished
  <2> QED
    BY <1>1, <2>1, <2>2, WorkerEnqueues DEF TokenTypes
<1>4. CASE PrepareStep(w) /\ ~ClaimEmpty(w) /\ ~EnqueueEmpty(w)
  <2>1. UNCHANGED <<finEnqueued, rqQueue>>
    BY <1>4
    DEF PrepareStep, PrepareLoad, PrepareMark, Parse, SkipPrepared, RepairQueue,
        BuildManifest, SetTotals, PushMessages, ReadAgain, ReadAgainRaises, PrepareExcept,
        Returned, Finished, AfterClaim, redis, locks, queues
  <2>2. ThreadsKept
    BY <1>4, PrepareRetried, ThreadsSame
    DEF PrepareStep, PrepareLoad, PrepareMark, Parse, SkipPrepared, RepairQueue,
        BuildManifest, SetTotals, PushMessages, ReadAgain, ReadAgainRaises, PrepareExcept,
        Returned, Finished, AfterClaim
  <2>3. /\ \A v \in Workers \ {w} : wrk'[v] = wrk[v]
        /\ wrk'[w].pc \notin FinPc
    <3>1. CASE PrepareLoad(w)
      BY <1>1, <3>1 DEF PrepareLoad, Load, PlaceType, Worker, IdleWorker, FinPc
    <3>2. CASE ~PrepareLoad(w)
      BY <1>1, <1>4, <3>2, GoAsMoves
      DEF PrepareStep, PrepareMark, Parse, SkipPrepared, RepairQueue, BuildManifest,
          SetTotals, PushMessages, ReadAgain, ReadAgainRaises, PrepareExcept, Returned,
          Finished, AfterClaim, Go, FinPc
    <3> QED
      BY <3>1, <3>2
  <2> QED
    BY <1>1, <2>1, <2>2, <2>3, WorkerTokenKept
<1> QED
  BY <1>2, <1>3, <1>4

LEMMA InlineToken ==
  ASSUME TokenTypes, Token, NEW w \in Workers, InlineStep(w)
  PROVE  Token'
<1>1. UNCHANGED <<hnd, usageRows, rqQueue, finEnqueued, retryThreads>> /\ PlaceType
  BY InlineFrame DEF handlerVars, dbVars, queues, TokenTypes
<1>2. ASSUME /\ \A v \in Workers \ {w} : wrk'[v] = wrk[v]
             /\ wrk'[w].pc \notin FinPc
      PROVE  Token'
  BY <1>1, <1>2, WorkerTokenKept, ThreadsSame
<1>3. CASE InlineMark(w) \/ InlineIncr(w)
  <2>1. /\ \A v \in Workers \ {w} : wrk'[v] = wrk[v]
        /\ wrk'[w].pc \in {"i_incr", "i_write", "i_sched"}
    BY <1>1, <1>3, GoAsMoves, NextInlineMoves DEF InlineMark, InlineIncr, Go
  <2> QED
    BY <1>2, <2>1 DEF FinPc
<1>4. CASE InlineFails(w) \/ InlineWrite(w) \/ InlineSchedule(w)
  BY <1>1, <1>2, <1>4, GoAsMoves
  DEF InlineFails, InlineWrite, InlineSchedule, Returned, Finished, Go, FinPc
<1>5. CASE StartInline(w)
  BY <1>1, <1>2, <1>5 DEF StartInline, PlaceType, Worker, FinPc
<1>6. CASE InlineGathered(w)
  BY <1>1, <1>2, <1>6 DEF InlineGathered, PlaceType, Worker, FinPc
<1>7. CASE \E b \in Batches : InlineAcquire(w, b) \/ InlineDone(w, b)
  BY <1>1, <1>2, <1>7 DEF InlineAcquire, InlineDone, PlaceType, Worker, FinPc
<1> QED
  BY <1>3, <1>4, <1>5, <1>6, <1>7 DEF InlineStep

LEMMA FinalizeToken ==
  ASSUME TokenTypes, Token, NEW w \in Workers, FinalizeStep(w)
  PROVE  Token'
<1>1. UNCHANGED <<hnd, rqQueue, finEnqueued>> /\ PlaceType
  BY DEF FinalizeStep, FinalizeLoad, FinalizeLock, FinalizeFails, FinalizeTooEarly,
    FinalizeReady, Merge, Charge, FinalizeExcept, ReleaseFinalize, redis, locks, queues, env,
    handlerVars, TokenTypes
<1>2. CASE Charge(w)
  <2>1. /\ wrk[w].pc = "f_charge" /\ wrk'[w].pc = "f_release"
        /\ \A v \in Workers \ {w} : wrk'[v] = wrk[v]
        /\ usageRows' = usageRows + 1 /\ UNCHANGED retryThreads
    BY <1>1, <1>2, GoAsMoves DEF Charge, Go
  <2>2. w \in FinWorkers /\ FinWorkers' \subseteq FinWorkers \ {w}
    BY <2>1, MoveFin DEF FinWorkers, FinPc
  <2> QED
    BY <1>1, <2>1, <2>2, TokenSpent DEF TokenTypes
<1>3. CASE FinalizeExcept(w)
  <2>1. /\ wrk[w].pc = "f_except" /\ wrk'[w].pc = "f_release"
        /\ \A v \in Workers \ {w} : wrk'[v] = wrk[v]
        /\ UNCHANGED usageRows
    BY <1>1, <1>3, GoAsMoves DEF FinalizeExcept, Go
  <2>2. w \in FinWorkers /\ FinWorkers' \subseteq FinWorkers \ {w}
    BY <2>1, MoveFin DEF FinWorkers, FinPc
  <2>3. \/ UNCHANGED retryThreads
        \/ retryThreads' = [retryThreads EXCEPT ![w] = Append(@, "finalize")]
    BY <1>3 DEF FinalizeExcept, RetryOrFail
  <2>4. CASE UNCHANGED retryThreads
    BY <1>1, <2>1, <2>4, WorkerTokenKept, ThreadsSame DEF FinPc
  <2>5. CASE retryThreads' = [retryThreads EXCEPT ![w] = Append(@, "finalize")]
    BY <1>1, <2>1, <2>2, <2>5, FinalizeRetried DEF TokenTypes
  <2> QED
    BY <2>3, <2>4, <2>5
<1>4. CASE FinalizeStep(w) /\ ~Charge(w) /\ ~FinalizeExcept(w)
  <2>1. UNCHANGED <<usageRows, retryThreads>>
    BY <1>4
    DEF FinalizeStep, FinalizeLoad, FinalizeLock, FinalizeFails, FinalizeTooEarly,
        FinalizeReady, Merge, ReleaseFinalize, job, dbVars, env
  <2>2. /\ \A v \in Workers \ {w} : wrk'[v] = wrk[v]
        /\ wrk'[w].pc \in FinPc => wrk[w].pc \in FinPc
    <3>1. CASE FinalizeLoad(w)
      BY <1>1, <3>1 DEF FinalizeLoad, Load, PlaceType, Worker, IdleWorker, FinPc
    <3>2. CASE ~FinalizeLoad(w)
      BY <1>1, <1>4, <3>2, GoAsMoves
      DEF FinalizeStep, FinalizeLock, FinalizeFails, FinalizeTooEarly, FinalizeReady, Merge,
          ReleaseFinalize, Go, FinPc
    <3> QED
      BY <3>1, <3>2
  <2> QED
    BY <1>1, <2>1, <2>2, WorkerTokenKept, ThreadsSame
<1> QED
  BY <1>2, <1>3, <1>4

LEMMA LoopToken ==
  ASSUME TokenTypes, Token, NEW w \in Workers,
         TakeJob(w) \/ JobReturns(w) \/ RetryThreadRuns(w)
  PROVE  Token'
<1>1. UNCHANGED <<hnd, finEnqueued, usageRows>> /\ PlaceType
  BY DEF TakeJob, JobReturns, RetryThreadRuns, redis, locks, env, handlerVars, job, dbVars,
    TokenTypes
<1>2. CASE TakeJob(w)
  <2>1. /\ rqQueue # <<>> /\ rqQueue' = Tail(rqQueue) /\ UNCHANGED retryThreads
        /\ wrk'[w].pc = IF Head(rqQueue) = "prepare" THEN "p_load" ELSE "f_load"
        /\ \A v \in Workers \ {w} : wrk'[v] = wrk[v]
    BY <1>1, <1>2, GoAsMoves DEF TakeJob, Go
  <2>2. rqQueue \in Seq(RqJob) /\ Head(rqQueue) \in {"prepare", "finalize"}
    BY <2>1, HeadTail DEF TokenTypes, RqJob
  <2>3. CASE Head(rqQueue) = "finalize"
    BY <1>1, <2>1, <2>2, <2>3, FinalizeTaken, MoveFin DEF TokenTypes
  <2>4. CASE Head(rqQueue) = "prepare"
    <3>1. FinWorkers' \subseteq FinWorkers
      BY <2>1, <2>4, MoveFin DEF FinPc
    <3>2. (NoFin(rqQueue) => NoFin(rqQueue')) /\ OneFin(rqQueue')
      BY <2>1, <2>2, TailFin DEF Token, Single
    <3> QED
      BY <1>1, <2>1, <3>1, <3>2, EnqSame, ThreadsSame, TokenKept
  <2> QED
    BY <2>2, <2>3, <2>4
<1>3. CASE JobReturns(w)
  <2>1. /\ wrk'[w].pc = "idle" /\ \A v \in Workers \ {w} : wrk'[v] = wrk[v]
        /\ UNCHANGED rqQueue
    BY <1>1, <1>3, GoAsMoves DEF JobReturns, Go, redis, queues
  <2>2. \A v \in Workers : retryThreads'[v] = retryThreads[v] \/ retryThreads'[v] = <<>>
    BY <1>3 DEF JobReturns, TokenTypes
  <2>3. ThreadsKept
    BY <2>2, EmptyFin DEF ThreadsKept
  <2> QED
    BY <1>1, <2>1, <2>3, WorkerTokenKept DEF FinPc
<1>4. CASE RetryThreadRuns(w)
  <2>1. /\ retryThreads[w] # <<>> /\ UNCHANGED wrk
        /\ rqQueue' = Append(rqQueue, Head(retryThreads[w]))
        /\ retryThreads' = [retryThreads EXCEPT ![w] = Tail(@)]
    BY <1>4 DEF RetryThreadRuns
  <2>2. /\ retryThreads[w] \in Seq(RqJob) /\ rqQueue \in Seq(RqJob)
        /\ Head(retryThreads[w]) \in {"prepare", "finalize"}
    BY <2>1, HeadTail DEF TokenTypes, RqJob
  <2>3. CASE Head(retryThreads[w]) = "finalize"
    BY <1>1, <2>1, <2>2, <2>3, ThreadEnqueues DEF TokenTypes
  <2>4. CASE Head(retryThreads[w]) = "prepare"
    <3>1. (NoFin(rqQueue) => NoFin(rqQueue')) /\ OneFin(rqQueue')
      BY <2>1, <2>2, <2>4, AppendPrepare DEF Token, Single
    <3>2. ThreadsKept
      <4>1. \A v \in Workers : retryThreads'[v] = IF v = w THEN Tail(retryThreads[w])
                                                 ELSE retryThreads[v]
        BY <2>1 DEF TokenTypes
      <4> QED
        BY <2>1, <2>2, <4>1, TailFin DEF ThreadsKept
    <3>3. FinWorkers' = FinWorkers
      BY <2>1 DEF FinWorkers
    <3> QED
      BY <1>1, <3>1, <3>2, <3>3, EnqSame, TokenKept
  <2> QED
    BY <2>2, <2>3, <2>4
<1> QED
  BY <1>2, <1>3, <1>4

LEMMA RqFaultToken ==
  ASSUME TokenTypes, Token, RqTasksFault
  PROVE  Token'
<1>1. PlaceType /\ IdleWorker.pc = "idle"
  BY DEF TokenTypes, IdleWorker
<1>2. ASSUME NEW w \in Workers, EnqueueReplyLost(w)
      PROVE  Token'
  <2>1. /\ wrk[w].pc = "p_enqueue" /\ wrk'[w].pc = "p_except"
        /\ \A v \in Workers \ {w} : wrk'[v] = wrk[v]
        /\ rqQueue' = Append(rqQueue, "finalize")
        /\ UNCHANGED <<hnd, usageRows, finEnqueued, retryThreads>>
    BY <1>1, <1>2, GoAsMoves
    DEF EnqueueReplyLost, Returned, Finished, Go, handlerVars, job, dbVars, locks
  <2>2. w \in FinWorkers /\ FinWorkers' \subseteq FinWorkers \ {w}
    BY <2>1, MoveFin DEF FinWorkers, FinPc
  <2> QED
    BY <2>1, <2>2, WorkerEnqueues DEF TokenTypes
<1>3. ASSUME NEW w \in Workers, ClaimReplyLost(w)
      PROVE  Token'
  <2>1. /\ wrk'[w].pc = "p_except" /\ finEnqueued'
        /\ \A v \in Workers \ {w} : wrk'[v] = wrk[v]
        /\ UNCHANGED <<hnd, usageRows, rqQueue, retryThreads>>
    BY <1>1, <1>3, GoAsMoves DEF ClaimReplyLost, Go, handlerVars, job, dbVars, queues
  <2> QED
    BY <2>1, WorkerTokenKept, ThreadsSame DEF FinPc
<1>4. ASSUME NEW w \in Workers,
             \/ ParseRaises(w) \/ PrepareRaises(w) \/ InlineRaises(w) \/ RepairRaises(w)
             \/ PushReplyLost(w) \/ FinalizeRaises(w) \/ FinalizeEscapes(w)
             \/ ReleaseRaises(w)
      PROVE  Token'
  <2>1. UNCHANGED <<hnd, usageRows, rqQueue, finEnqueued, retryThreads>>
    BY <1>4
    DEF ParseRaises, PrepareRaises, InlineRaises, RepairRaises, PushReplyLost,
        FinalizeRaises, FinalizeEscapes, ReleaseRaises, handlerVars, job, dbVars, redis,
        locks, queues
  <2>2. /\ \A v \in Workers \ {w} : wrk'[v] = wrk[v]
        /\ wrk'[w].pc \in FinPc => wrk[w].pc \in FinPc
    <3>1. CASE ReleaseRaises(w)
      BY <1>1, <3>1, GoAsMoves DEF ReleaseRaises, Go, PlaceType, Worker, FinPc
    <3>2. CASE FinalizeRaises(w) \/ FinalizeEscapes(w)
      BY <1>1, <3>2, GoAsMoves
      DEF FinalizeRaises, FinalizeEscapes, Returned, Finished, Go, FinPc
    <3>3. CASE PrepareRaises(w)
      BY <1>1, <3>3, GoAsMoves DEF PrepareRaises, Go, FinPc
    <3>4. CASE ParseRaises(w) \/ InlineRaises(w) \/ RepairRaises(w) \/ PushReplyLost(w)
      BY <1>1, <3>4, GoAsMoves
      DEF ParseRaises, InlineRaises, RepairRaises, PushReplyLost, Go, FinPc
    <3> QED
      BY <1>4, <3>1, <3>2, <3>3, <3>4
  <2> QED
    BY <2>1, <2>2, WorkerTokenKept, ThreadsSame
<1>5. ASSUME NEW w \in Workers, RetryThreadRaises(w)
      PROVE  Token'
  <2>1. /\ retryThreads[w] # <<>> /\ retryThreads' = [retryThreads EXCEPT ![w] = Tail(@)]
        /\ UNCHANGED <<hnd, wrk, usageRows, rqQueue, finEnqueued>>
    BY <1>5 DEF RetryThreadRaises, handlerVars, job, dbVars, redis, locks, queues
  <2>2. \A v \in Workers : /\ retryThreads[v] \in Seq(RqJob)
                           /\ retryThreads'[v] = IF v = w THEN Tail(retryThreads[w])
                                                 ELSE retryThreads[v]
    BY <2>1 DEF TokenTypes
  <2>3. ThreadsKept
    BY <2>1, <2>2, TailFin DEF ThreadsKept
  <2>4. FinWorkers' = FinWorkers /\ OneFin(rqQueue')
    BY <2>1 DEF FinWorkers, Token, Single
  <2> QED
    BY <2>1, <2>3, <2>4, EnqSame, TokenKept
<1>6. ASSUME NEW w \in Workers, HorseDies(w)
      PROVE  Token'
  <2>1. /\ wrk' = [wrk EXCEPT ![w] = IdleWorker]
        /\ retryThreads' = [retryThreads EXCEPT ![w] = <<>>]
        /\ UNCHANGED <<hnd, usageRows, rqQueue, finEnqueued>>
    BY <1>6 DEF HorseDies, handlerVars, job, dbVars, redis, locks, queues
  <2>2. /\ \A v \in Workers \ {w} : wrk'[v] = wrk[v]
        /\ wrk'[w].pc \notin FinPc
    BY <1>1, <2>1 DEF PlaceType, FinPc
  <2>3. \A v \in Workers : retryThreads'[v] = retryThreads[v] \/ retryThreads'[v] = <<>>
    BY <2>1 DEF TokenTypes
  <2>4. ThreadsKept
    BY <2>3, EmptyFin DEF ThreadsKept
  <2> QED
    BY <2>1, <2>2, <2>4, WorkerTokenKept
<1>7. CASE FinLockExpires
  <2>1. UNCHANGED <<hnd, wrk, usageRows, rqQueue, finEnqueued, retryThreads>>
    BY <1>7 DEF FinLockExpires, env, handlerVars, workerVars, job, dbVars, locks, queues
  <2>2. FinWorkers' = FinWorkers /\ OneFin(rqQueue')
    BY <2>1 DEF FinWorkers, Token, Single
  <2> QED
    BY <2>1, <2>2, EnqSame, ThreadsSame, TokenKept
<1> QED
  BY <1>2, <1>3, <1>4, <1>5, <1>6, <1>7 DEF RqTasksFault

-----------------------------------------------------------------------------
(* The other steps, and the theorem *)

LEMMA OthersToken ==
  ASSUME TokenTypes, Token,
         (\E p \in Procs : Pop(p)) \/ Resubmit \/ Cleanup \/ UNCHANGED vars
  PROVE  Token'
<1>1. UNCHANGED <<hnd, wrk, usageRows, finEnqueued, retryThreads>>
  BY DEF Pop, Resubmit, Cleanup, vars, frame, dbVars, handlerVars, workerVars, locks
<1>2. rqQueue' = rqQueue \/ rqQueue' = Append(rqQueue, "prepare")
  BY DEF Pop, Resubmit, Cleanup, vars, queues
<1>3. (NoFin(rqQueue) => NoFin(rqQueue')) /\ OneFin(rqQueue')
  BY <1>2, AppendPrepare DEF TokenTypes, Token, Single
<1>4. FinWorkers' = FinWorkers
  BY <1>1 DEF FinWorkers
<1> QED
  BY <1>1, <1>3, <1>4, EnqSame, ThreadsSame, TokenKept

LEMMA NextToken == ASSUME TypeOK, Token, [Next]_vars PROVE Token'
<1>1. TokenTypes
  BY TokenTypesHold
<1> QED
  BY <1>1, HandlerStepToken, WorkerFaultToken, PrepareToken, InlineToken, FinalizeToken,
    LoopToken, RqFaultToken, OthersToken
  DEF Next, System, WorkerStep

LEMMA InitToken == Init => Token
<1> SUFFICES ASSUME Init PROVE Token
  OBVIOUS
<1>1. EnqHandlers = {} /\ FinWorkers = {}
  BY DEF Init, IdleHandler, IdleWorker, EnqHandlers, FinWorkers, FinPc
<1>2. NoFin(rqQueue) /\ usageRows = 0
  BY DEF Init, NoFin
<1>3. FinThreads = {} /\ \A w \in Workers : OneFin(retryThreads[w])
  BY EmptyFin DEF Init, FinThreads
<1>4. Single /\ Apart
  BY <1>1, <1>2, <1>3, NoneIsOne DEF Single, Apart
<1> QED
  BY <1>4 DEF Token

\* rq_tasks.py:499-529: finalize may be retried, enqueued late or run again on a
\* re-uploaded job, but the user is charged once at most, with any number of
\* workers, faults and re-uploads.
THEOREM ChargedAtMostOnce == Spec => []ChargedOnce
<1>1. Init => Token
  BY InitToken
<1>2. TypeOK /\ Token /\ [Next]_vars => Token'
  BY NextToken
<1>3. Token => ChargedOnce
  BY DEF Token, Single, ChargedOnce
<1> QED
  BY <1>1, <1>2, <1>3, TypeCorrect, PTL DEF Spec

-----------------------------------------------------------------------------
(* A completed job stays completed, as long as Redis neither fails nor loses an *)
(* answer and no files are removed.  The job then passes from hand to hand as a *)
(* whole: it is with one prepare (on the list, with a worker or a retry thread), *)
(* or with the chunk workers, or with the holder of the finalize token, or       *)
(* charged, or failed.                                                           *)

Calm == "redis" \notin FaultKinds /\ "reply" \notin FaultKinds /\ "cleanup" \notin FaultKinds

NoJob(kind, s) == \A i \in 1 .. Len(s) : s[i] # kind
OneJob(kind, s) == \A i, j \in 1 .. Len(s) : s[i] = kind /\ s[j] = kind => i = j

\* From its finalize claim on, prepare holds the token of finalize; once it has
\* handed batches out, it only reads the manifest again.
PrepPc == PreparePc \ (IF nBatches = 0 THEN {"p_enqueue"} ELSE {"p_enqueue", "p_reread"})
PrepWorkers == {w \in Workers : wrk[w].pc \in PrepPc}
PrepThreads == {w \in Workers : ~NoJob("prepare", retryThreads[w])}

PrepGone == PrepWorkers = {} /\ NoJob("prepare", rqQueue) /\ PrepThreads = {}

\* There is one prepare at most.
PrepOnce ==
  /\ \A v, w \in PrepWorkers : v = w
  /\ \A v, w \in PrepThreads : v = w
  /\ OneJob("prepare", rqQueue)
  /\ \A w \in Workers : OneJob("prepare", retryThreads[w])
  /\ PrepWorkers # {} => NoJob("prepare", rqQueue) /\ PrepThreads = {}
  /\ ~NoJob("prepare", rqQueue) => PrepThreads = {}

FinGone == EnqHandlers = {} /\ FinWorkers = {} /\ NoFin(rqQueue) /\ FinThreads = {}

\* A batch is with the chunk workers.
Chunks ==
  \/ chunkQueue # <<>>
  \/ \E p \in Procs : workQueue[p] # <<>>
  \/ \E h \in Handlers : hnd[h].pc # "idle"

\* The job has left prepare.
Handed == ~FinGone \/ usageRows > 0 \/ (~finEnqueued /\ Chunks)

Baton ==
  /\ PrepOnce
  /\ Handed => PrepGone /\ status # "failed"
  /\ status = "failed" => PrepGone
  /\ usageRows > 0 => status = "completed"

\* A manifest that prepare found is there when it reads it again, and only a document
\* with batches has them pushed or translated inline.
Rereads ==
  \A w \in Workers :
     /\ wrk[w].pc = "p_reread" => manifest
     /\ wrk[w].pc = "p_push" \/ wrk[w].ctx = "inline" => nBatches > 0

\* Load leaves a completed job alone.
Unfinished == \A w \in Workers : wrk[w].loaded # "completed"

-----------------------------------------------------------------------------
(* Sequences of RQ jobs, by kind *)

LEMMA AppendJob ==
  ASSUME NEW s \in Seq(RqJob), NEW j \in RqJob, NEW k
  PROVE  /\ j # k /\ NoJob(k, s) => NoJob(k, Append(s, j))
         /\ j # k /\ OneJob(k, s) => OneJob(k, Append(s, j))
         /\ NoJob(k, s) => OneJob(k, Append(s, j))
BY DEF NoJob, OneJob

LEMMA TailJob ==
  ASSUME NEW s \in Seq(RqJob), s # <<>>, NEW k
  PROVE  /\ NoJob(k, s) => NoJob(k, Tail(s))
         /\ OneJob(k, s) => OneJob(k, Tail(s))
         /\ OneJob(k, s) /\ Head(s) = k => NoJob(k, Tail(s)) /\ ~NoJob(k, s)
<1>1. /\ Len(s) \in Nat /\ Len(s) > 0 /\ Len(Tail(s)) = Len(s) - 1 /\ Head(s) = s[1]
      /\ \A i \in 1 .. Len(Tail(s)) : Tail(s)[i] = s[i + 1] /\ i + 1 \in 1 .. Len(s)
      /\ 1 \in 1 .. Len(s)
  OBVIOUS
<1>2. NoJob(k, s) => NoJob(k, Tail(s))
  BY <1>1 DEF NoJob
<1>3. OneJob(k, s) => OneJob(k, Tail(s))
  BY <1>1 DEF OneJob
<1>4. OneJob(k, s) /\ Head(s) = k => NoJob(k, Tail(s))
  BY <1>1 DEF OneJob, NoJob
<1>5. Head(s) = k => ~NoJob(k, s)
  BY <1>1 DEF NoJob
<1> QED
  BY <1>2, <1>3, <1>4, <1>5

LEMMA EmptyJob == \A k : NoJob(k, <<>>) /\ OneJob(k, <<>>)
BY DEF NoJob, OneJob

LEMMA NoJobIsOne == \A k, s : NoJob(k, s) => OneJob(k, s)
BY DEF NoJob, OneJob

LEMMA FinIsJob == \A s : NoFin(s) <=> NoJob("finalize", s)
BY DEF NoFin, NoJob

-----------------------------------------------------------------------------
(* Prepare moves *)

PrepThreadsKept ==
  \A w \in Workers : /\ NoJob("prepare", retryThreads[w]) => NoJob("prepare", retryThreads'[w])
                     /\ OneJob("prepare", retryThreads[w]) => OneJob("prepare", retryThreads'[w])

LEMMA PrepThreadsSame == UNCHANGED retryThreads => PrepThreadsKept
BY DEF PrepThreadsKept

LEMMA PrepPcSame == UNCHANGED nBatches => PrepPc' = PrepPc
BY DEF PrepPc

LEMMA PrepKept ==
  ASSUME PrepOnce, PrepWorkers' \subseteq PrepWorkers, PrepThreadsKept,
         NoJob("prepare", rqQueue) => NoJob("prepare", rqQueue'), OneJob("prepare", rqQueue')
  PROVE  PrepOnce' /\ (PrepGone => PrepGone')
<1>1. PrepThreads' \subseteq PrepThreads
  BY DEF PrepThreadsKept, PrepThreads
<1>2. PrepOnce'
  BY <1>1 DEF PrepOnce, PrepThreadsKept
<1>3. PrepGone => PrepGone'
  BY <1>1 DEF PrepGone
<1> QED
  BY <1>2, <1>3

LEMMA PrepLeaves ==
  ASSUME PrepOnce, NEW w \in PrepWorkers, PrepWorkers' \subseteq PrepWorkers \ {w},
         PrepThreadsKept, NoJob("prepare", rqQueue')
  PROVE  PrepOnce' /\ PrepGone'
<1>1. PrepWorkers' = {} /\ PrepThreads = {}
  BY DEF PrepOnce
<1>2. PrepThreads' = {}
  BY <1>1 DEF PrepThreadsKept, PrepThreads
<1>3. \A v \in Workers : OneJob("prepare", retryThreads'[v])
  BY DEF PrepOnce, PrepThreadsKept
<1> QED
  BY <1>1, <1>2, <1>3, NoJobIsOne DEF PrepOnce, PrepGone

LEMMA PrepTaken ==
  ASSUME PrepOnce, rqQueue \in Seq(RqJob), rqQueue # <<>>, Head(rqQueue) = "prepare",
         rqQueue' = Tail(rqQueue), NEW w \in Workers, PrepWorkers' \subseteq PrepWorkers \cup {w},
         UNCHANGED retryThreads
  PROVE  PrepOnce' /\ ~PrepGone
<1>1. /\ NoJob("prepare", rqQueue') /\ ~NoJob("prepare", rqQueue)
      /\ OneJob("prepare", rqQueue')
  BY TailJob, NoJobIsOne DEF PrepOnce
<1>2. PrepThreads' = {} /\ PrepWorkers' \subseteq {w}
  BY <1>1 DEF PrepOnce, PrepThreads
<1>3. \A v \in Workers : OneJob("prepare", retryThreads'[v])
  BY DEF PrepOnce
<1> QED
  BY <1>1, <1>2, <1>3 DEF PrepOnce, PrepGone

LEMMA PrepRetried ==
  ASSUME PrepOnce, retryThreads \in [Workers -> Seq(RqJob)], NEW w \in PrepWorkers,
         PrepWorkers' \subseteq PrepWorkers \ {w},
         retryThreads' = [retryThreads EXCEPT ![w] = Append(@, "prepare")],
         UNCHANGED rqQueue
  PROVE  PrepOnce'
<1>1. w \in Workers /\ "prepare" \in RqJob
  BY DEF PrepWorkers, RqJob
<1>2. PrepWorkers' = {} /\ NoJob("prepare", rqQueue') /\ PrepThreads = {}
  BY DEF PrepOnce
<1>3. \A v \in Workers : NoJob("prepare", retryThreads[v])
  BY <1>2 DEF PrepThreads
<1>4. OneJob("prepare", Append(retryThreads[w], "prepare"))
  BY <1>1, <1>3, AppendJob
<1>5. \A v \in Workers : retryThreads'[v] =
         IF v = w THEN Append(retryThreads[w], "prepare") ELSE retryThreads[v]
  BY <1>1
<1>6. /\ \A v \in Workers : OneJob("prepare", retryThreads'[v])
      /\ PrepThreads' \subseteq {w}
  BY <1>3, <1>4, <1>5, NoJobIsOne DEF PrepThreads
<1> QED
  BY <1>2, <1>6, NoJobIsOne DEF PrepOnce

LEMMA PrepEnqueued ==
  ASSUME PrepOnce, retryThreads \in [Workers -> Seq(RqJob)], rqQueue \in Seq(RqJob),
         NEW w \in Workers, retryThreads[w] # <<>>, Head(retryThreads[w]) = "prepare",
         rqQueue' = Append(rqQueue, "prepare"),
         retryThreads' = [retryThreads EXCEPT ![w] = Tail(@)], UNCHANGED <<wrk, nBatches>>
  PROVE  PrepOnce' /\ ~PrepGone
<1>1. retryThreads[w] \in Seq(RqJob) /\ OneJob("prepare", retryThreads[w])
  BY DEF PrepOnce
<1>2. NoJob("prepare", Tail(retryThreads[w])) /\ ~NoJob("prepare", retryThreads[w])
  BY <1>1, TailJob
<1>3. w \in PrepThreads
  BY <1>2 DEF PrepThreads
<1>4. /\ PrepWorkers' = {} /\ NoJob("prepare", rqQueue)
      /\ \A v \in PrepThreads : v = w
  BY <1>3, PrepPcSame DEF PrepOnce, PrepWorkers
<1>5. \A v \in Workers : retryThreads'[v] =
         IF v = w THEN Tail(retryThreads[w]) ELSE retryThreads[v]
  OBVIOUS
<1>6. \A v \in Workers : NoJob("prepare", retryThreads'[v])
  BY <1>2, <1>4, <1>5 DEF PrepThreads
<1>7. PrepThreads' = {} /\ \A v \in Workers : OneJob("prepare", retryThreads'[v])
  BY <1>6, NoJobIsOne DEF PrepThreads
<1>8. OneJob("prepare", rqQueue')
  BY <1>4, AppendJob DEF RqJob
<1> QED
  BY <1>3, <1>4, <1>7, <1>8 DEF PrepOnce, PrepGone

LEMMA PrepAnew ==
  ASSUME PrepGone, rqQueue \in Seq(RqJob), rqQueue' = Append(rqQueue, "prepare"),
         UNCHANGED <<wrk, nBatches, retryThreads>>
  PROVE  PrepOnce'
<1>1. PrepWorkers' = {} /\ PrepThreads' = {} /\ OneJob("prepare", rqQueue')
  BY AppendJob, PrepPcSame DEF PrepGone, PrepWorkers, PrepThreads, RqJob
<1>2. \A w \in Workers : OneJob("prepare", retryThreads'[w])
  BY NoJobIsOne DEF PrepGone, PrepThreads
<1> QED
  BY <1>1, <1>2 DEF PrepOnce

LEMMA MovePrep ==
  ASSUME NEW w \in Workers, \A v \in Workers \ {w} : wrk'[v] = wrk[v], UNCHANGED nBatches
  PROVE  /\ wrk'[w].pc \notin PrepPc => PrepWorkers' \subseteq PrepWorkers \ {w}
         /\ wrk[w].pc \in PrepPc => PrepWorkers' \subseteq PrepWorkers
         /\ PrepWorkers' \subseteq PrepWorkers \cup {w}
BY PrepPcSame DEF PrepWorkers

-----------------------------------------------------------------------------
(* A step that keeps the places of both jobs keeps the baton *)

LEMMA BatonKept ==
  ASSUME Baton, PrepOnce', PrepGone => PrepGone', Handed' => Handed,
         UNCHANGED <<status, usageRows>>
  PROVE  Baton'
BY DEF Baton

\* A worker other than a prepare moves on, and the token is nowhere new.
LEMMA OtherWorkerMoves ==
  ASSUME Baton, NEW w \in Workers, \A v \in Workers \ {w} : wrk'[v] = wrk[v],
         wrk'[w].pc \notin PrepPc, wrk'[w].pc \in FinPc => wrk[w].pc \in FinPc,
         \A v \in Workers : retryThreads'[v] = retryThreads[v] \/ retryThreads'[v] = <<>>,
         finEnqueued' = finEnqueued,
         UNCHANGED <<nBatches, status, usageRows, rqQueue, chunkQueue, handlerVars>>
  PROVE  Baton'
<1>1. PrepWorkers' \subseteq PrepWorkers /\ FinWorkers' \subseteq FinWorkers
  BY MovePrep, MoveFin
<1>2. PrepThreadsKept /\ FinThreads' \subseteq FinThreads
  BY EmptyJob, EmptyFin DEF PrepThreadsKept, FinThreads
<1>3. PrepOnce' /\ (PrepGone => PrepGone')
  BY <1>1, <1>2, PrepKept DEF Baton, PrepOnce
<1>4. (FinGone => FinGone') /\ Chunks' = Chunks
  BY <1>1, <1>2 DEF FinGone, EnqHandlers, Chunks, handlerVars
<1>5. Handed' => Handed
  BY <1>4 DEF Handed
<1> QED
  BY <1>3, <1>5, BatonKept

\* Chunk workers move only when a batch is with them, and never touch prepare.
LEMMA ChunkStepBaton ==
  ASSUME Token, Baton, Chunks, rqQueue \in Seq(RqJob), finEnqueued => finEnqueued',
         UNCHANGED <<wrk, nBatches, retryThreads, status, usageRows>>,
         rqQueue' = rqQueue \/ rqQueue' = Append(rqQueue, "finalize"),
         finEnqueued /\ FinGone => FinGone'
  PROVE  Baton'
<1>1. PrepWorkers' = PrepWorkers /\ PrepThreadsKept
  BY PrepThreadsSame, PrepPcSame DEF PrepWorkers
<1>2. /\ NoJob("prepare", rqQueue) => NoJob("prepare", rqQueue')
      /\ OneJob("prepare", rqQueue')
  BY AppendJob DEF Baton, PrepOnce, RqJob
<1>3. PrepOnce' /\ (PrepGone => PrepGone')
  BY <1>1, <1>2, PrepKept DEF Baton
<1>4. Handed' => Handed
  BY DEF Handed
<1> QED
  BY <1>3, <1>4, BatonKept

LEMMA HandlerStepBaton ==
  ASSUME TypeOK, Token, Baton, NEW h \in Handlers, HandlerStep(h), UNCHANGED nBatches
  PROVE  Baton'
<1>1. HandlerType /\ rqQueue \in Seq(RqJob)
  BY DEF TypeOK, QueueType
<1>2. UNCHANGED <<wrk, retryThreads, status, usageRows>>
  BY HandlerFrame DEF Take, frame, workerVars, dbVars
<1>3. Chunks
  <2>1. CASE Take(h)
    BY <2>1, ConstantsOK DEF Take, Chunks, ConstantsOK
  <2>2. CASE ~Take(h)
    <3>1. hnd[h].pc # "idle"
      BY <1>1, <2>2
      DEF HandlerStep, CheckOutput, AcquireLock, LockBusy, ReadManifest, AcquireSlot,
          TranslateReturns, TranslateRaises, FinishWrite, MarkCompleted, IncrDone, ReleaseSlot,
          RequeueAttempt, GiveUp, MarkFailed, IncrFailed, ReleaseLock, Schedule, ClaimFinalize,
          EnqueueFinalize, Goto, GotoAs
    <3> QED
      BY <3>1 DEF Chunks
  <2> QED
    BY <2>1, <2>2
<1>4. FinWorkers' = FinWorkers /\ FinThreads' = FinThreads
  BY <1>2 DEF FinWorkers, FinThreads
<1>5. CASE ClaimFinalize(h)
  <2>1. /\ finEnqueued' /\ UNCHANGED rqQueue
        /\ hnd'[h].pc = IF finEnqueued THEN AfterSchedule(h) ELSE "enqueue"
        /\ \A g \in Handlers \ {h} : hnd'[g] = hnd[g]
    BY <1>1, <1>5, GotoPlace DEF ClaimFinalize, queues
  <2>2. finEnqueued => EnqHandlers' \subseteq EnqHandlers
    BY <1>1, <2>1, AfterSchedulePlace, MoveEnq
  <2>3. finEnqueued /\ FinGone => FinGone'
    BY <1>4, <2>1, <2>2 DEF FinGone
  <2> QED
    BY <1>1, <1>2, <1>3, <2>1, <2>3, ChunkStepBaton
<1>6. CASE EnqueueFinalize(h)
  <2>1. /\ hnd[h].pc = "enqueue" /\ UNCHANGED finEnqueued
        /\ rqQueue' = Append(rqQueue, "finalize")
    BY <1>1, <1>6, GotoPlace DEF EnqueueFinalize, locks
  <2>2. ~FinGone
    BY <2>1 DEF FinGone, EnqHandlers
  <2> QED
    BY <1>1, <1>2, <1>3, <2>1, <2>2, ChunkStepBaton
<1>7. CASE Tokenless(h)
  <2>1. EnqHandlers' \subseteq EnqHandlers /\ UNCHANGED <<finEnqueued, rqQueue>>
    BY <1>1, <1>7, TokenlessMoves, MoveEnq
  <2>2. FinGone => FinGone'
    BY <1>4, <2>1 DEF FinGone
  <2> QED
    BY <1>1, <1>2, <1>3, <2>1, <2>2, ChunkStepBaton
<1> QED
  BY <1>5, <1>6, <1>7 DEF Tokenless

LEMMA PopBaton ==
  ASSUME TypeOK, Token, Baton, NEW p \in Procs, Pop(p), UNCHANGED nBatches
  PROVE  Baton'
<1>1. Chunks /\ UNCHANGED <<finEnqueued, hnd, wrk, retryThreads, status, usageRows, rqQueue>>
  BY DEF Pop, Chunks, frame, dbVars, workerVars, locks
<1>2. FinGone => FinGone'
  BY <1>1 DEF FinGone, EnqHandlers, FinWorkers, FinThreads
<1> QED
  BY <1>1, <1>2, ChunkStepBaton DEF TypeOK, QueueType

LEMMA WorkerFaultBaton ==
  ASSUME Calm, TypeOK, Token, Baton, ChunkWorkerFault, UNCHANGED nBatches
  PROVE  Baton'
<1>1. ASSUME NEW p \in Procs, ProcKilled(p) PROVE Baton'
  <2>1. UNCHANGED <<finEnqueued, wrk, retryThreads, status, usageRows, rqQueue>>
    BY <1>1 DEF ProcKilled, Stop, frame, dbVars, workerVars, queues
  <2>2. Chunks
    BY <1>1 DEF ProcKilled, Chunks, InProc
  <2>3. EnqHandlers' \subseteq EnqHandlers
    BY <1>1 DEF ProcKilled, Stop, IdleHandler, EnqHandlers
  <2>4. FinGone => FinGone'
    BY <2>1, <2>3 DEF FinGone, FinWorkers, FinThreads
  <2> QED
    BY <2>1, <2>2, <2>4, ChunkStepBaton DEF TypeOK, QueueType
<1>2. ASSUME NEW b \in Batches, ChunkLockExpires(b) PROVE Baton'
  <2>1. UNCHANGED <<finEnqueued, chunkQueue, workQueue, hnd, wrk, retryThreads, status,
                    usageRows, rqQueue>>
    BY <1>2 DEF ChunkLockExpires, frame, dbVars, workerVars, queues
  <2>2. Handed' = Handed
    BY <2>1 DEF Handed, FinGone, EnqHandlers, FinWorkers, FinThreads, Chunks
  <2>3. PrepWorkers' = PrepWorkers /\ OneJob("prepare", rqQueue') /\ PrepThreadsKept
    BY <2>1, PrepThreadsSame, PrepPcSame DEF PrepWorkers, Baton, PrepOnce
  <2> QED
    BY <2>1, <2>2, <2>3, PrepKept, BatonKept DEF Baton
<1>3. ~ \E h \in Handlers : WorkRaises(h) \/ ReplyLost(h) \/ Swallowed(h) \/ HandlerEscapes(h)
  BY DEF Calm, WorkRaises, ReplyLost, Swallowed, HandlerEscapes, Fault
<1> QED
  BY <1>1, <1>2, <1>3 DEF ChunkWorkerFault

-----------------------------------------------------------------------------
(* The steps of a prepare *)

\* Where prepare is, nothing has been handed on.
LEMMA PrepareIsFirst ==
  ASSUME Baton, ~PrepGone
  PROVE  ~Handed /\ status # "failed" /\ FinGone /\ ~(usageRows > 0)
BY DEF Baton, Handed

LEMMA PrepareStays ==
  ASSUME Baton, NEW w \in PrepWorkers, \A v \in Workers \ {w} : wrk'[v] = wrk[v],
         wrk'[w].pc \in PrepPc, status' # "failed",
         UNCHANGED <<nBatches, usageRows, rqQueue, retryThreads, finEnqueued, chunkQueue,
                     handlerVars>>
  PROVE  Baton'
<1>1. w \in Workers /\ wrk[w].pc \in PrepPc /\ ~PrepGone
  BY DEF PrepWorkers, PrepGone
<1>2. ~Handed /\ FinGone /\ ~(usageRows > 0)
  BY <1>1, PrepareIsFirst
<1>3. PrepWorkers' \subseteq PrepWorkers
  BY <1>1, MovePrep
<1>4. PrepOnce'
  BY <1>3, PrepKept, PrepThreadsSame DEF Baton, PrepOnce
<1>5. wrk'[w].pc \notin FinPc
  BY DEF PrepPc, PreparePc, FinPc
<1>6. FinWorkers' \subseteq FinWorkers
  BY <1>1, <1>5, MoveFin
<1>7. FinGone' /\ Chunks' = Chunks
  BY <1>2, <1>6 DEF FinGone, EnqHandlers, FinThreads, Chunks, handlerVars
<1>8. ~Handed'
  BY <1>2, <1>7 DEF Handed
<1> QED
  BY <1>2, <1>4, <1>8 DEF Baton

LEMMA PrepareExits ==
  ASSUME Baton, NEW w \in PrepWorkers, \A v \in Workers \ {w} : wrk'[v] = wrk[v],
         wrk'[w].pc \notin PrepPc, status' # "failed",
         UNCHANGED <<nBatches, usageRows, rqQueue, retryThreads>>
  PROVE  Baton'
<1>1. w \in Workers /\ ~PrepGone
  BY DEF PrepWorkers, PrepGone
<1>2. ~(usageRows > 0) /\ NoJob("prepare", rqQueue')
  BY <1>1, PrepareIsFirst DEF Baton, PrepOnce
<1>3. PrepWorkers' \subseteq PrepWorkers \ {w}
  BY <1>1, MovePrep
<1>4. PrepOnce' /\ PrepGone'
  BY <1>2, <1>3, PrepLeaves, PrepThreadsSame DEF Baton
<1> QED
  BY <1>2, <1>4 DEF Baton

LEMMA PrepareExceptBaton ==
  ASSUME TokenTypes, Baton, NEW w \in Workers, PrepareExcept(w), UNCHANGED nBatches
  PROVE  Baton'
<1>1. /\ wrk[w].pc = "p_except" /\ wrk'[w].pc = "exit"
      /\ \A v \in Workers \ {w} : wrk'[v] = wrk[v]
      /\ UNCHANGED <<usageRows, rqQueue, finEnqueued, chunkQueue, handlerVars>>
  BY GoAsMoves DEF PrepareExcept, Go, redis, locks, queues, env, TokenTypes
<1>2. w \in PrepWorkers /\ PrepWorkers' \subseteq PrepWorkers \ {w}
  BY <1>1, MovePrep DEF PrepWorkers, PrepPc, PreparePc
<1>3. ~PrepGone /\ NoJob("prepare", rqQueue')
  BY <1>1, <1>2 DEF PrepGone, Baton, PrepOnce
<1>4. ~Handed /\ FinGone /\ ~(usageRows > 0)
  BY <1>3, PrepareIsFirst
<1>5. FinWorkers' \subseteq FinWorkers
  BY <1>1, MoveFin DEF FinPc
<1>6. CASE /\ status' = "pending"
           /\ retryThreads' = [retryThreads EXCEPT ![w] = Append(@, "prepare")]
  <2>1. PrepOnce'
    BY <1>1, <1>2, <1>6, PrepRetried DEF Baton, TokenTypes
  <2>2. \A v \in Workers : NoFin(retryThreads[v]) => NoFin(retryThreads'[v])
    <3>1. \A v \in Workers : /\ retryThreads[v] \in Seq(RqJob)
                             /\ retryThreads'[v] = IF v = w THEN Append(retryThreads[w], "prepare")
                                                   ELSE retryThreads[v]
      BY <1>6 DEF TokenTypes
    <3> QED
      BY <3>1, AppendPrepare
  <2>3. FinGone' /\ Chunks' = Chunks
    BY <1>1, <1>4, <1>5, <2>2 DEF FinGone, EnqHandlers, FinThreads, Chunks, handlerVars
  <2>4. ~Handed'
    BY <1>1, <1>4, <2>3 DEF Handed
  <2> QED
    BY <1>1, <1>4, <1>6, <2>1, <2>4 DEF Baton
<1>7. CASE status' = "failed" /\ UNCHANGED retryThreads
  <2>1. PrepOnce' /\ PrepGone'
    BY <1>2, <1>3, <1>7, PrepLeaves, PrepThreadsSame DEF Baton
  <2>2. FinGone' /\ Chunks' = Chunks
    BY <1>1, <1>4, <1>5, <1>7 DEF FinGone, EnqHandlers, FinThreads, Chunks, handlerVars
  <2>3. ~Handed'
    BY <1>1, <1>4, <2>2 DEF Handed
  <2> QED
    BY <1>1, <1>4, <2>1, <2>3 DEF Baton
<1> QED
  BY <1>6, <1>7 DEF PrepareExcept, RetryOrFail

\* The manifest is read again: by a prepare that goes on to its claim, or that has
\* handed the batches out.
LEMMA ReadAgainBaton ==
  ASSUME PlaceType, Baton, NEW w \in Workers, ReadAgain(w), UNCHANGED nBatches
  PROVE  Baton'
<1>1. /\ wrk[w].pc = "p_reread" /\ wrk'[w].pc = Finished
      /\ \A v \in Workers \ {w} : wrk'[v] = wrk[v]
  BY GoAsMoves DEF ReadAgain, Go
<1>2. UNCHANGED <<status, usageRows, rqQueue, retryThreads, finEnqueued, chunkQueue, handlerVars>>
  BY DEF ReadAgain, job, dbVars, redis, queues, locks, env
<1>3. CASE nBatches = 0
  <2>1. w \in PrepWorkers /\ wrk'[w].pc \in PrepPc /\ ~PrepGone
    BY <1>1, <1>3 DEF PrepWorkers, PrepPc, PreparePc, Finished, PrepGone
  <2> QED
    BY <1>1, <1>2, <2>1, PrepareStays, PrepareIsFirst
<1>4. CASE nBatches # 0
  <2>1. wrk'[w].pc \notin PrepPc /\ wrk'[w].pc \notin FinPc
    BY <1>1, <1>4 DEF PrepPc, PreparePc, FinPc, Finished
  <2> QED
    BY <1>1, <1>2, <2>1, OtherWorkerMoves
<1> QED
  BY <1>3, <1>4

LEMMA PrepareBaton ==
  ASSUME TokenTypes, Token, Baton, Rereads, NEW w \in Workers, PrepareStep(w),
         UNCHANGED nBatches
  PROVE  Baton'
<1>1. PlaceType
  BY DEF TokenTypes
<1>2. CASE PrepareExcept(w)
  BY <1>2, PrepareExceptBaton
<1>3. CASE EnqueueEmpty(w)
  <2>1. /\ wrk[w].pc = "p_enqueue" /\ wrk'[w].pc = AfterClaim(w)
        /\ \A v \in Workers \ {w} : wrk'[v] = wrk[v]
        /\ rqQueue' = Append(rqQueue, "finalize") /\ rqQueue \in Seq(RqJob)
        /\ UNCHANGED <<retryThreads, status, usageRows>>
    BY <1>1, <1>3, GoAsMoves DEF EnqueueEmpty, Go, job, dbVars, TokenTypes
  <2>2. w \in FinWorkers
    BY <2>1 DEF FinWorkers, FinPc
  <2>3. Handed
    BY <2>2 DEF Handed, FinGone
  <2>4. /\ NoJob("prepare", rqQueue) => NoJob("prepare", rqQueue')
        /\ OneJob("prepare", rqQueue')
    BY <2>1, AppendJob DEF Baton, PrepOnce, RqJob
  <2>5. PrepWorkers' \subseteq PrepWorkers
    <3>1. wrk'[w].pc \notin PrepPc
      BY <2>1 DEF Rereads, AfterClaim, Returned, Finished, PrepPc, PreparePc
    <3> QED
      BY <2>1, <3>1, MovePrep
  <2>6. PrepOnce' /\ (PrepGone => PrepGone')
    BY <2>1, <2>4, <2>5, PrepKept, PrepThreadsSame DEF Baton
  <2> QED
    BY <2>1, <2>3, <2>6, BatonKept
<1>4. CASE PushMessages(w) \/ ClaimEmpty(w)
  <2>1. /\ wrk[w].pc \in {"p_push", "p_claim"}
        /\ \A v \in Workers \ {w} : wrk'[v] = wrk[v]
        /\ \/ wrk[w].pc = "p_push" /\ wrk'[w].pc = Returned
           \/ wrk'[w].pc \in {AfterClaim(w), "p_enqueue"}
    BY <1>1, <1>4, GoAsMoves DEF PushMessages, ClaimEmpty, Go
  <2>2. UNCHANGED <<status, usageRows, rqQueue, retryThreads>>
    BY <1>4 DEF PushMessages, ClaimEmpty, job, dbVars, redis, queues
  <2>4. wrk[w].pc \in PrepPc /\ wrk'[w].pc \notin PrepPc
    BY <2>1 DEF Rereads, AfterClaim, Returned, Finished, PrepPc, PreparePc
  <2>3. w \in PrepWorkers /\ ~PrepGone
    BY <2>4 DEF PrepWorkers, PrepGone
  <2> QED
    BY <2>1, <2>2, <2>3, <2>4, PrepareExits, PrepareIsFirst
<1>5. CASE \/ PrepareMark(w) \/ Parse(w) \/ RepairQueue(w) \/ BuildManifest(w) \/ SetTotals(w)
  <2>1. /\ wrk[w].pc \in PrepPc /\ wrk'[w].pc \in PrepPc
        /\ \A v \in Workers \ {w} : wrk'[v] = wrk[v]
    BY <1>1, <1>5, GoAsMoves
    DEF PrepareMark, Parse, RepairQueue, BuildManifest, SetTotals, Returned, Finished, Go,
        PrepPc, PreparePc
  <2>2. UNCHANGED <<usageRows, rqQueue, retryThreads, finEnqueued, chunkQueue, handlerVars>>
    BY <1>5
    DEF PrepareMark, Parse, RepairQueue, BuildManifest, SetTotals, job, dbVars, redis, queues,
        locks, env
  <2>3. w \in PrepWorkers /\ ~PrepGone
    BY <2>1 DEF PrepWorkers, PrepGone
  <2>4. status' \in {status, "processing"}
    BY <1>5 DEF PrepareMark, SetStatus, Parse, RepairQueue, BuildManifest, SetTotals, job, dbVars
  <2>5. status' # "failed"
    BY <2>3, <2>4, PrepareIsFirst
  <2> QED
    BY <2>1, <2>2, <2>3, <2>5, PrepareStays
<1>6. CASE PrepareLoad(w)
  <2>1. /\ wrk[w].pc = "p_load" /\ wrk'[w].pc \in {"exit", "p_mark"}
        /\ \A v \in Workers \ {w} : wrk'[v] = wrk[v]
    BY <1>1, <1>6 DEF PrepareLoad, Load, PlaceType, Worker, IdleWorker
  <2>2. UNCHANGED <<status, usageRows, rqQueue, retryThreads, finEnqueued, chunkQueue, handlerVars>>
    BY <1>6 DEF PrepareLoad, job, dbVars, redis, queues, locks, env
  <2>3. w \in PrepWorkers /\ ~PrepGone
    BY <2>1 DEF PrepWorkers, PrepGone, PrepPc, PreparePc
  <2>4. status' # "failed"
    BY <2>2, <2>3, PrepareIsFirst
  <2>5. CASE wrk'[w].pc = "exit"
    <3>1. wrk'[w].pc \notin PrepPc
      BY <2>5 DEF PrepPc, PreparePc
    <3> QED
      BY <2>1, <2>2, <2>3, <2>4, <3>1, PrepareExits
  <2>6. CASE wrk'[w].pc = "p_mark"
    <3>1. wrk'[w].pc \in PrepPc
      BY <2>6 DEF PrepPc, PreparePc
    <3> QED
      BY <2>1, <2>2, <2>3, <2>4, <3>1, PrepareStays
  <2> QED
    BY <2>1, <2>5, <2>6
<1>7. CASE SkipPrepared(w)
  <2>1. /\ wrk[w].pc = "p_build" /\ wrk'[w].pc = Returned
        /\ \A v \in Workers \ {w} : wrk'[v] = wrk[v]
    BY <1>1, <1>7, GoAsMoves DEF SkipPrepared, Go
  <2>2. UNCHANGED <<status, usageRows, rqQueue, retryThreads, finEnqueued, chunkQueue, handlerVars>>
    BY <1>7 DEF SkipPrepared, job, dbVars, redis, queues, locks, env
  <2>3. w \in PrepWorkers /\ ~PrepGone
    BY <2>1 DEF PrepWorkers, PrepGone, PrepPc, PreparePc
  <2> QED
    BY <2>1, <2>2, <2>3, PrepareStays, PrepareExits, PrepareIsFirst
<1>8. CASE ReadAgain(w)
  BY <1>1, <1>8, ReadAgainBaton
<1>9. ~ReadAgainRaises(w)
  BY DEF ReadAgainRaises, Go, GoAs, Rereads
<1> QED
  BY <1>2, <1>3, <1>4, <1>5, <1>6, <1>7, <1>8, <1>9 DEF PrepareStep

LEMMA InlineBaton ==
  ASSUME TokenTypes, Baton, NEW w \in Workers, InlineStep(w), UNCHANGED nBatches
  PROVE  Baton'
<1>1. PlaceType
  BY DEF TokenTypes
<1>2. UNCHANGED <<status, usageRows, rqQueue, retryThreads, finEnqueued, chunkQueue, handlerVars>>
  BY InlineFrame DEF handlerVars, dbVars, queues
<1>3. /\ wrk[w].pc \in PrepPc /\ \A v \in Workers \ {w} : wrk'[v] = wrk[v]
  <2>1. CASE InlineMark(w) \/ InlineIncr(w)
    <3>1. /\ wrk[w].pc \in {"i_mark", "i_incr"}
          /\ \A v \in Workers \ {w} : wrk'[v] = wrk[v]
          /\ wrk'[w].pc \in {"i_incr", "i_write", "i_sched"}
      <4>1. wrk[w].pc \in {"i_mark", "i_incr"}
        BY <2>1 DEF InlineMark, InlineIncr, NextInline
      <4>2. /\ \A v \in Workers \ {w} : wrk'[v] = wrk[v]
            /\ wrk'[w].pc \in {"i_incr", "i_write", "i_sched"}
        BY <1>1, <2>1, GoAsMoves, NextInlineMoves DEF InlineMark, InlineIncr, Go
      <4> QED
        BY <4>1, <4>2
    <3> QED
      BY <3>1 DEF PrepPc, PreparePc
  <2>2. CASE InlineFails(w) \/ InlineWrite(w) \/ InlineSchedule(w)
    BY <1>1, <2>2, GoAsMoves
    DEF InlineFails, InlineWrite, InlineSchedule, Returned, Finished, Go, PrepPc, PreparePc
  <2>3. CASE StartInline(w)
    BY <1>1, <2>3 DEF StartInline, PlaceType, Worker, PrepPc, PreparePc
  <2>4. CASE InlineGathered(w)
    BY <1>1, <2>4 DEF InlineGathered, PlaceType, Worker, PrepPc, PreparePc
  <2>5. CASE \E b \in Batches : InlineAcquire(w, b) \/ InlineDone(w, b)
    BY <1>1, <2>5 DEF InlineAcquire, InlineDone, PlaceType, Worker, PrepPc, PreparePc
  <2> QED
    BY <2>1, <2>2, <2>3, <2>4, <2>5 DEF InlineStep
<1>4. w \in PrepWorkers /\ ~PrepGone
  BY <1>3 DEF PrepWorkers, PrepGone
<1>5. status' # "failed"
  BY <1>2, <1>4, PrepareIsFirst
<1>6. CASE wrk'[w].pc \notin PrepPc
  BY <1>2, <1>3, <1>4, <1>5, <1>6, PrepareExits
<1>7. CASE wrk'[w].pc \in PrepPc
  BY <1>2, <1>3, <1>4, <1>5, <1>7, PrepareStays
<1> QED
  BY <1>6, <1>7

-----------------------------------------------------------------------------
(* The steps of a finalize, and of the worker loop *)

\* Who runs finalize has the one token; when it goes, it is nowhere.
LEMMA LastFinalize ==
  ASSUME Token, Baton, NEW w \in Workers, wrk[w].pc \in FinPc
  PROVE  /\ Handed /\ PrepGone /\ status # "failed" /\ usageRows = 0
         /\ finEnqueued \in BOOLEAN => finEnqueued
         /\ FinWorkers = {w} /\ EnqHandlers = {} /\ NoFin(rqQueue) /\ FinThreads = {}
<1>1. w \in FinWorkers
  BY DEF FinWorkers
<1>2. /\ finEnqueued \in BOOLEAN => finEnqueued
      /\ usageRows = 0
      /\ FinWorkers = {w} /\ EnqHandlers = {} /\ NoFin(rqQueue) /\ FinThreads = {}
  BY <1>1 DEF Token, Single, Apart
<1>3. Handed
  BY <1>1 DEF Handed, FinGone
<1> QED
  BY <1>2, <1>3 DEF Baton

LEMMA FinalizeBaton ==
  ASSUME TokenTypes, Token, Baton, Unfinished, NEW w \in Workers, FinalizeStep(w),
         UNCHANGED nBatches
  PROVE  Baton'
<1>1. PlaceType /\ finEnqueued \in BOOLEAN
  BY DEF TokenTypes
<1>2. UNCHANGED <<rqQueue, chunkQueue, finEnqueued, handlerVars>>
  BY DEF FinalizeStep, FinalizeLoad, FinalizeLock, FinalizeFails, FinalizeTooEarly,
    FinalizeReady, Merge, Charge, FinalizeExcept, ReleaseFinalize, redis, locks, queues, env
<1>3. CASE \/ FinalizeLoad(w) \/ FinalizeLock(w) \/ FinalizeTooEarly(w) \/ FinalizeReady(w)
           \/ Merge(w) \/ ReleaseFinalize(w)
  <2>1. UNCHANGED <<status, usageRows, retryThreads>>
    BY <1>3 DEF FinalizeLoad, FinalizeLock, FinalizeTooEarly, FinalizeReady, Merge,
      ReleaseFinalize, job, dbVars
  <2>2. /\ \A v \in Workers \ {w} : wrk'[v] = wrk[v]
        /\ wrk'[w].pc \notin PrepPc
        /\ wrk'[w].pc \in FinPc => wrk[w].pc \in FinPc
    <3>1. CASE FinalizeLoad(w)
      BY <1>1, <3>1 DEF FinalizeLoad, Load, PlaceType, Worker, IdleWorker, FinPc, PrepPc, PreparePc
    <3>2. CASE ~FinalizeLoad(w)
      BY <1>1, <1>3, <3>2, GoAsMoves
      DEF FinalizeLock, FinalizeTooEarly, FinalizeReady, Merge, ReleaseFinalize, Go, FinPc,
          PrepPc, PreparePc
    <3> QED
      BY <3>1, <3>2
  <2> QED
    BY <1>2, <2>1, <2>2, OtherWorkerMoves
<1>4. CASE FinalizeFails(w) \/ Charge(w) \/ FinalizeExcept(w)
  <2>1. /\ wrk[w].pc \in FinPc /\ wrk'[w].pc = "f_release"
        /\ \A v \in Workers \ {w} : wrk'[v] = wrk[v]
    BY <1>1, <1>4, GoAsMoves DEF FinalizeFails, Charge, FinalizeExcept, Go, FinPc
  <2>2. /\ Handed /\ PrepGone /\ status # "failed" /\ usageRows = 0 /\ finEnqueued
        /\ FinWorkers = {w} /\ EnqHandlers = {} /\ NoFin(rqQueue) /\ FinThreads = {}
    BY <1>1, <2>1, LastFinalize
  <2>3. PrepWorkers' \subseteq PrepWorkers /\ FinWorkers' = {} /\ EnqHandlers' = {}
    BY <1>2, <2>1, <2>2, MovePrep, MoveFin
    DEF PrepPc, PreparePc, FinPc, EnqHandlers, handlerVars
  <2>4. ASSUME UNCHANGED retryThreads PROVE PrepOnce' /\ PrepGone' /\ FinGone'
    <3>1. FinThreads' = {}
      BY <2>2, <2>4 DEF FinThreads
    <3> QED
      BY <1>2, <2>2, <2>3, <2>4, <3>1, PrepKept, PrepThreadsSame DEF Baton, PrepOnce, FinGone
  <2>5. CASE FinalizeFails(w)
    <3>1. UNCHANGED <<usageRows, retryThreads>>
      BY <2>5 DEF FinalizeFails
    <3>2. ~Handed'
      BY <1>2, <2>2, <2>4, <3>1 DEF Handed
    <3> QED
      BY <2>2, <2>4, <3>1, <3>2 DEF Baton
  <2>6. CASE Charge(w)
    <3>1. UNCHANGED retryThreads /\ status' = "completed"
      BY <2>6 DEF Charge, SetStatus, Unfinished
    <3> QED
      BY <2>4, <3>1 DEF Baton
  <2>7. CASE FinalizeExcept(w) /\ status' = "failed" /\ UNCHANGED retryThreads
    <3>1. UNCHANGED usageRows
      BY <2>7 DEF FinalizeExcept
    <3>2. ~Handed'
      BY <1>2, <2>2, <2>4, <2>7, <3>1 DEF Handed
    <3> QED
      BY <2>2, <2>4, <2>7, <3>1, <3>2 DEF Baton
  <2>8. CASE /\ FinalizeExcept(w) /\ status' = "pending"
             /\ retryThreads' = [retryThreads EXCEPT ![w] = Append(@, "finalize")]
    <3>1. UNCHANGED usageRows
      BY <2>8 DEF FinalizeExcept
    <3>2. \A v \in Workers : /\ retryThreads[v] \in Seq(RqJob)
                             /\ retryThreads'[v] = IF v = w THEN Append(retryThreads[w], "finalize")
                                                   ELSE retryThreads[v]
      BY <2>8 DEF TokenTypes
    <3>3. PrepThreadsKept
      BY <3>2, AppendJob DEF PrepThreadsKept, RqJob
    <3>4. PrepOnce' /\ PrepGone'
      BY <1>2, <2>2, <2>3, <3>3, PrepKept DEF Baton, PrepOnce
    <3> QED
      BY <2>2, <2>8, <3>1, <3>4 DEF Baton
  <2> QED
    BY <1>4, <2>5, <2>6, <2>7, <2>8 DEF FinalizeExcept, RetryOrFail
<1> QED
  BY <1>3, <1>4 DEF FinalizeStep

LEMMA LoopBaton ==
  ASSUME TokenTypes, Token, Baton, NEW w \in Workers,
         TakeJob(w) \/ JobReturns(w) \/ RetryThreadRuns(w), UNCHANGED nBatches
  PROVE  Baton'
<1>1. UNCHANGED <<status, usageRows, chunkQueue, finEnqueued, handlerVars>> /\ PlaceType
  BY DEF TakeJob, JobReturns, RetryThreadRuns, redis, queues, locks, env, job, dbVars, TokenTypes
<1>2. EnqHandlers' = EnqHandlers /\ Chunks' = Chunks
  BY <1>1 DEF EnqHandlers, Chunks, handlerVars
<1>3. CASE JobReturns(w)
  <2>1. /\ wrk'[w].pc = "idle" /\ \A v \in Workers \ {w} : wrk'[v] = wrk[v]
        /\ UNCHANGED rqQueue
    BY <1>1, <1>3, GoAsMoves DEF JobReturns, Go, redis, queues
  <2>2. \A v \in Workers : retryThreads'[v] = retryThreads[v] \/ retryThreads'[v] = <<>>
    BY <1>3 DEF JobReturns, TokenTypes
  <2>3. wrk'[w].pc \notin PrepPc /\ wrk'[w].pc \notin FinPc
    BY <2>1 DEF PrepPc, PreparePc, FinPc
  <2> QED
    BY <1>1, <2>1, <2>2, <2>3, OtherWorkerMoves
<1>4. CASE TakeJob(w)
  <2>1. /\ rqQueue # <<>> /\ rqQueue' = Tail(rqQueue) /\ UNCHANGED retryThreads
        /\ wrk'[w].pc = IF Head(rqQueue) = "prepare" THEN "p_load" ELSE "f_load"
        /\ \A v \in Workers \ {w} : wrk'[v] = wrk[v]
    BY <1>1, <1>4, GoAsMoves DEF TakeJob, Go
  <2>2. rqQueue \in Seq(RqJob) /\ Head(rqQueue) \in {"prepare", "finalize"}
    BY <2>1, HeadTail DEF TokenTypes, RqJob
  <2>3. /\ NoJob("prepare", rqQueue) => NoJob("prepare", rqQueue')
        /\ OneJob("prepare", rqQueue') /\ (NoFin(rqQueue) => NoFin(rqQueue'))
    BY <2>1, <2>2, TailJob, TailFin DEF Baton, PrepOnce
  <2>4. CASE Head(rqQueue) = "finalize"
    <3>1. ~NoFin(rqQueue)
      BY <2>1, <2>2, <2>4, TailFin DEF Token, Single
    <3>2. Handed
      BY <3>1 DEF Handed, FinGone
    <3>3. PrepWorkers' \subseteq PrepWorkers
      BY <2>1, <2>4, MovePrep DEF PrepPc, PreparePc
    <3>4. PrepOnce' /\ (PrepGone => PrepGone')
      BY <2>1, <2>3, <3>3, PrepKept, PrepThreadsSame DEF Baton
    <3> QED
      BY <1>1, <3>2, <3>4, BatonKept
  <2>5. CASE Head(rqQueue) = "prepare"
    <3>1. PrepWorkers' \subseteq PrepWorkers \cup {w}
      BY <2>1, MovePrep
    <3>2. PrepOnce' /\ ~PrepGone
      BY <2>1, <2>2, <2>5, <3>1, PrepTaken DEF Baton
    <3>3. ~Handed /\ status # "failed" /\ FinGone /\ ~(usageRows > 0)
      BY <3>2, PrepareIsFirst
    <3>4. wrk'[w].pc \notin FinPc
      BY <2>1, <2>5 DEF FinPc
    <3>5. FinWorkers' \subseteq FinWorkers /\ FinThreads' = FinThreads
      BY <2>1, <3>4, MoveFin DEF FinThreads
    <3>6. FinGone'
      BY <1>2, <2>3, <3>3, <3>5 DEF FinGone
    <3>7. ~Handed'
      BY <1>1, <1>2, <3>3, <3>6 DEF Handed
    <3> QED
      BY <1>1, <3>2, <3>3, <3>7 DEF Baton
  <2> QED
    BY <2>2, <2>4, <2>5
<1>5. CASE RetryThreadRuns(w)
  <2>1. /\ retryThreads[w] # <<>> /\ UNCHANGED wrk
        /\ rqQueue' = Append(rqQueue, Head(retryThreads[w]))
        /\ retryThreads' = [retryThreads EXCEPT ![w] = Tail(@)]
        /\ retryThreads \in [Workers -> Seq(RqJob)] /\ rqQueue \in Seq(RqJob)
    BY <1>5 DEF RetryThreadRuns, TokenTypes
  <2>2. /\ retryThreads[w] \in Seq(RqJob)
        /\ Head(retryThreads[w]) \in {"prepare", "finalize"}
    BY <2>1, HeadTail DEF RqJob
  <2>3. \A v \in Workers : retryThreads'[v] = IF v = w THEN Tail(retryThreads[w])
                                             ELSE retryThreads[v]
    BY <2>1
  <2>4. PrepThreadsKept /\ \A v \in Workers : NoFin(retryThreads[v]) => NoFin(retryThreads'[v])
    BY <2>1, <2>2, <2>3, TailJob, TailFin DEF PrepThreadsKept
  <2>5. PrepWorkers' = PrepWorkers /\ FinWorkers' = FinWorkers
    BY <2>1, PrepPcSame DEF PrepWorkers, FinWorkers
  <2>6. CASE Head(retryThreads[w]) = "finalize"
    <3>1. OneFin(retryThreads[w])
      BY DEF Token, Single
    <3>2. ~NoFin(retryThreads[w])
      BY <2>1, <2>2, <2>6, <3>1, TailFin
    <3>3. Handed
      BY <3>2 DEF Handed, FinGone, FinThreads
    <3>4. /\ NoJob("prepare", rqQueue) => NoJob("prepare", rqQueue')
          /\ OneJob("prepare", rqQueue')
      BY <2>1, <2>6, AppendJob DEF Baton, PrepOnce, RqJob
    <3>5. PrepOnce' /\ (PrepGone => PrepGone')
      BY <2>4, <2>5, <3>4, PrepKept DEF Baton
    <3> QED
      BY <1>1, <3>3, <3>5, BatonKept
  <2>7. CASE Head(retryThreads[w]) = "prepare"
    <3>1. PrepOnce' /\ ~PrepGone
      BY <2>1, <2>7, PrepEnqueued DEF Baton
    <3>2. ~Handed /\ status # "failed" /\ FinGone /\ ~(usageRows > 0)
      BY <3>1, PrepareIsFirst
    <3>3. NoFin(rqQueue')
      BY <2>1, <2>7, <3>2, AppendPrepare DEF FinGone
    <3>4. FinThreads' = {}
      BY <2>4, <3>2 DEF FinGone, FinThreads
    <3>5. FinGone'
      BY <1>2, <2>5, <3>2, <3>3, <3>4 DEF FinGone
    <3>6. ~Handed'
      BY <1>1, <1>2, <3>2, <3>5 DEF Handed
    <3> QED
      BY <1>1, <3>1, <3>2, <3>6 DEF Baton
  <2> QED
    BY <2>2, <2>6, <2>7
<1> QED
  BY <1>3, <1>4, <1>5

LEMMA RqFaultBaton ==
  ASSUME Calm, TokenTypes, Token, Baton, RqTasksFault, UNCHANGED nBatches
  PROVE  Baton'
<1>1. PlaceType
  BY DEF TokenTypes
<1>2. ASSUME NEW w \in Workers, ParseRaises(w) PROVE Baton'
  <2>1. /\ wrk[w].pc = "p_parse" /\ wrk'[w].pc = "p_except"
        /\ \A v \in Workers \ {w} : wrk'[v] = wrk[v]
    BY <1>1, <1>2, GoAsMoves DEF ParseRaises, Go
  <2>2. wrk'[w].pc \in PrepPc /\ w \in PrepWorkers /\ ~PrepGone
    BY <2>1 DEF PrepPc, PreparePc, PrepWorkers, PrepGone
  <2>3. UNCHANGED <<status, usageRows, rqQueue, retryThreads, finEnqueued, chunkQueue, handlerVars>>
    BY <1>2 DEF ParseRaises, job, dbVars, redis, queues, locks
  <2> QED
    BY <2>1, <2>2, <2>3, PrepareStays, PrepareIsFirst
<1>3. ASSUME NEW w \in Workers, FinalizeRaises(w) PROVE Baton'
  <2>1. /\ wrk[w].pc \in FinPc /\ wrk'[w].pc = "f_except"
        /\ \A v \in Workers \ {w} : wrk'[v] = wrk[v]
    BY <1>1, <1>3, GoAsMoves DEF FinalizeRaises, Go, FinPc
  <2>2. wrk'[w].pc \notin PrepPc
    BY <2>1 DEF PrepPc, PreparePc
  <2>3. UNCHANGED <<status, usageRows, rqQueue, retryThreads, finEnqueued, chunkQueue, handlerVars>>
    BY <1>3 DEF FinalizeRaises, job, dbVars, redis, queues, locks
  <2> QED
    BY <2>1, <2>2, <2>3, OtherWorkerMoves
<1>4. ASSUME NEW w \in Workers, HorseDies(w) PROVE Baton'
  <2>1. /\ wrk'[w].pc = "idle" /\ \A v \in Workers \ {w} : wrk'[v] = wrk[v]
    BY <1>1, <1>4 DEF HorseDies, PlaceType, IdleWorker
  <2>2. wrk'[w].pc \notin PrepPc /\ wrk'[w].pc \notin FinPc
    BY <2>1 DEF PrepPc, PreparePc, FinPc
  <2>3. \A v \in Workers : retryThreads'[v] = retryThreads[v] \/ retryThreads'[v] = <<>>
    BY <1>4 DEF HorseDies, TokenTypes
  <2>4. UNCHANGED <<status, usageRows, rqQueue, finEnqueued, chunkQueue, handlerVars>>
    BY <1>4 DEF HorseDies, job, dbVars, redis, queues, locks
  <2> QED
    BY <2>1, <2>2, <2>3, <2>4, OtherWorkerMoves
<1>5. ASSUME FinLockExpires PROVE Baton'
  <2>1. UNCHANGED <<status, usageRows, rqQueue, finEnqueued, chunkQueue, hnd, workQueue, wrk,
                    retryThreads>>
    BY <1>5 DEF FinLockExpires, job, dbVars, queues, locks, env, handlerVars, workerVars
  <2>2. PrepOnce' = PrepOnce /\ PrepGone' = PrepGone /\ Handed' = Handed
    BY <2>1, PrepPcSame DEF PrepOnce, PrepGone, PrepWorkers, PrepThreads, Handed, FinGone,
      EnqHandlers, FinWorkers, FinThreads, Chunks
  <2> QED
    BY <2>1, <2>2, BatonKept DEF Baton
<1>6. ~ \E w \in Workers :
          \/ PrepareRaises(w) \/ InlineRaises(w) \/ RepairRaises(w)
          \/ PushReplyLost(w) \/ ClaimReplyLost(w) \/ EnqueueReplyLost(w)
          \/ FinalizeEscapes(w) \/ ReleaseRaises(w) \/ RetryThreadRaises(w)
  BY DEF Calm, Fault, PrepareRaises, InlineRaises, RepairRaises, PushReplyLost, ClaimReplyLost,
    EnqueueReplyLost, FinalizeEscapes, ReleaseRaises, RetryThreadRaises
<1> QED
  BY <1>2, <1>3, <1>4, <1>5, <1>6 DEF RqTasksFault

LEMMA OthersBaton ==
  ASSUME TokenTypes, Token, Baton, Resubmit \/ Cleanup \/ UNCHANGED vars, UNCHANGED nBatches
  PROVE  Baton'
<1>1. /\ UNCHANGED <<usageRows, finEnqueued, chunkQueue, hnd, workQueue, wrk, retryThreads>>
      /\ rqQueue \in Seq(RqJob)
  BY DEF Resubmit, Cleanup, vars, dbVars, queues, locks, handlerVars, workerVars, TokenTypes
<1>2. UNCHANGED <<EnqHandlers, FinWorkers, FinThreads, Chunks>>
  BY <1>1 DEF EnqHandlers, FinWorkers, FinThreads, Chunks
<1>3. CASE Resubmit
  <2>1. status = "failed" /\ status' = "pending" /\ rqQueue' = Append(rqQueue, "prepare")
    BY <1>3 DEF Resubmit
  <2>2. PrepGone /\ ~Handed
    BY <2>1 DEF Baton
  <2>3. FinGone'
    BY <1>1, <1>2, <2>1, <2>2, AppendPrepare DEF FinGone, Handed
  <2>4. ~Handed'
    BY <1>1, <1>2, <2>2, <2>3 DEF Handed
  <2>5. PrepOnce'
    BY <1>1, <2>1, <2>2, PrepAnew
  <2> QED
    BY <1>1, <2>1, <2>2, <2>4, <2>5 DEF Baton, Handed
<1>4. CASE Cleanup \/ UNCHANGED vars
  <2>1. UNCHANGED <<rqQueue, status>>
    BY <1>4 DEF Cleanup, vars, dbVars, queues
  <2>2. PrepOnce' = PrepOnce /\ PrepGone' = PrepGone /\ Handed' = Handed
    BY <1>1, <1>2, <2>1, PrepPcSame
    DEF PrepOnce, PrepGone, PrepWorkers, PrepThreads, Handed, FinGone
  <2> QED
    BY <1>1, <2>1, <2>2, BatonKept DEF Baton
<1> QED
  BY <1>3, <1>4

-----------------------------------------------------------------------------
(* What a worker read *)

LEMMA UnfinishedKept ==
  ASSUME Unfinished, NEW w \in Workers, \A v \in Workers \ {w} : wrk'[v] = wrk[v],
         wrk'[w].loaded # "completed"
  PROVE  Unfinished'
BY DEF Unfinished

LEMMA GoAsLoaded ==
  ASSUME PlaceType, Unfinished, NEW w \in Workers, NEW from, NEW to, NEW ctx,
         GoAs(w, from, to, ctx)
  PROVE  Unfinished'
<1>1. wrk'[w].loaded # "completed" /\ \A v \in Workers \ {w} : wrk'[v] = wrk[v]
  BY DEF GoAs, Unfinished, PlaceType, Worker, IdleWorker
<1> QED
  BY <1>1, UnfinishedKept

LEMMA LoadLoaded ==
  ASSUME PlaceType, Unfinished, NEW w \in Workers, NEW from, NEW to, Load(w, from, to)
  PROVE  Unfinished'
<1>1. wrk'[w].loaded # "completed" /\ \A v \in Workers \ {w} : wrk'[v] = wrk[v]
  BY DEF Load, PlaceType, Worker, IdleWorker
<1> QED
  BY <1>1, UnfinishedKept

LEMMA InlineLoaded ==
  ASSUME PlaceType, Unfinished, NEW w \in Workers, InlineStep(w)
  PROVE  Unfinished'
<1>1. CASE InlineMark(w) \/ InlineIncr(w)
  <2>1. CASE Go(w, "i_mark", "i_incr")
    BY <2>1, GoAsLoaded DEF Go
  <2>2. CASE NextInline(w, "i_mark") \/ NextInline(w, "i_incr")
    <3>1. wrk'[w].loaded = wrk[w].loaded /\ \A v \in Workers \ {w} : wrk'[v] = wrk[v]
      BY <2>2 DEF NextInline, PlaceType, Worker
    <3> QED
      BY <3>1, UnfinishedKept DEF Unfinished
  <2> QED
    BY <1>1, <2>1, <2>2 DEF InlineMark, InlineIncr
<1>2. CASE InlineFails(w) \/ InlineWrite(w) \/ InlineSchedule(w)
  BY <1>2, GoAsLoaded DEF InlineFails, InlineWrite, InlineSchedule, Returned, Finished, Go
<1>3. CASE StartInline(w) \/ InlineGathered(w)
  <2>1. wrk'[w].loaded = wrk[w].loaded /\ \A v \in Workers \ {w} : wrk'[v] = wrk[v]
    BY <1>3 DEF StartInline, InlineGathered, PlaceType, Worker
  <2> QED
    BY <2>1, UnfinishedKept DEF Unfinished
<1>4. CASE \E b \in Batches : InlineAcquire(w, b) \/ InlineDone(w, b)
  <2>1. wrk'[w].loaded = wrk[w].loaded /\ \A v \in Workers \ {w} : wrk'[v] = wrk[v]
    BY <1>4 DEF InlineAcquire, InlineDone, PlaceType, Worker
  <2> QED
    BY <2>1, UnfinishedKept DEF Unfinished
<1> QED
  BY <1>1, <1>2, <1>3, <1>4 DEF InlineStep

LEMMA WorkerLoaded ==
  ASSUME PlaceType, Unfinished, NEW w \in Workers, WorkerStep(w) \/ RetryThreadRuns(w)
  PROVE  Unfinished'
<1>1. CASE PrepareLoad(w) \/ FinalizeLoad(w)
  BY <1>1, LoadLoaded DEF PrepareLoad, FinalizeLoad
<1>2. CASE TakeJob(w) \/ JobReturns(w)
  BY <1>2, GoAsLoaded DEF TakeJob, JobReturns, Go
<1>3. CASE RetryThreadRuns(w)
  BY <1>3 DEF RetryThreadRuns, Unfinished
<1>4. CASE PrepareStep(w) /\ ~PrepareLoad(w)
  BY <1>4, GoAsLoaded
  DEF PrepareStep, PrepareMark, Parse, SkipPrepared, RepairQueue, BuildManifest, SetTotals,
      PushMessages, ClaimEmpty, EnqueueEmpty, ReadAgain, ReadAgainRaises, PrepareExcept,
      Returned, Finished, AfterClaim, Go
<1>5. CASE FinalizeStep(w) /\ ~FinalizeLoad(w)
  BY <1>5, GoAsLoaded
  DEF FinalizeStep, FinalizeLock, FinalizeFails, FinalizeTooEarly, FinalizeReady, Merge,
      Charge, FinalizeExcept, ReleaseFinalize, Go
<1> QED
  BY <1>1, <1>2, <1>3, <1>4, <1>5, InlineLoaded DEF WorkerStep

LEMMA RqFaultLoaded ==
  ASSUME PlaceType, Unfinished, RqTasksFault
  PROVE  Unfinished'
<1>1. ASSUME NEW w \in Workers, ReleaseRaises(w) PROVE Unfinished'
  <2>1. CASE Go(w, "f_release", "exit")
    BY <2>1, GoAsLoaded DEF Go
  <2>2. CASE \E b \in wrk[w].live : wrk' = [wrk EXCEPT ![w].live = @ \ {b}]
    <3>1. wrk'[w].loaded = wrk[w].loaded /\ \A v \in Workers \ {w} : wrk'[v] = wrk[v]
      BY <2>2 DEF PlaceType, Worker
    <3> QED
      BY <3>1, UnfinishedKept DEF Unfinished
  <2> QED
    BY <1>1, <2>1, <2>2 DEF ReleaseRaises
<1>2. ASSUME NEW w \in Workers, HorseDies(w) PROVE Unfinished'
  <2>1. wrk'[w].loaded = "pending" /\ \A v \in Workers \ {w} : wrk'[v] = wrk[v]
    BY <1>2 DEF HorseDies, PlaceType, IdleWorker
  <2> QED
    BY <2>1, UnfinishedKept
<1>3. ASSUME NEW w \in Workers,
             \/ ParseRaises(w) \/ PrepareRaises(w) \/ InlineRaises(w) \/ RepairRaises(w)
             \/ PushReplyLost(w) \/ ClaimReplyLost(w) \/ EnqueueReplyLost(w)
             \/ FinalizeRaises(w) \/ FinalizeEscapes(w)
      PROVE  Unfinished'
  BY <1>3, GoAsLoaded
  DEF ParseRaises, PrepareRaises, InlineRaises, RepairRaises, PushReplyLost, ClaimReplyLost,
      EnqueueReplyLost, FinalizeRaises, FinalizeEscapes, Returned, Finished, Go
<1>4. ASSUME (\E w \in Workers : RetryThreadRaises(w)) \/ FinLockExpires PROVE Unfinished'
  BY <1>4 DEF RetryThreadRaises, FinLockExpires, workerVars, Unfinished
<1> QED
  BY <1>1, <1>2, <1>3, <1>4 DEF RqTasksFault

\* The others leave the workers alone.
LEMMA OthersWrk ==
  ASSUME \/ \E p \in Procs : Pop(p)
         \/ \E h \in Handlers : HandlerStep(h)
         \/ ChunkWorkerFault \/ Resubmit \/ Cleanup \/ UNCHANGED vars
  PROVE  UNCHANGED wrk
<1>1. ASSUME NEW h \in Handlers, HandlerStep(h) PROVE UNCHANGED wrk
  BY <1>1, HandlerFrame DEF Take, frame, workerVars
<1>2. ASSUME ChunkWorkerFault PROVE UNCHANGED wrk
  BY <1>2
  DEF ChunkWorkerFault, WorkRaises, ReplyLost, Swallowed, HandlerEscapes, ProcKilled,
      ChunkLockExpires, Stop, frame, workerVars
<1>3. ASSUME (\E p \in Procs : Pop(p)) \/ Resubmit \/ Cleanup \/ UNCHANGED vars
      PROVE  UNCHANGED wrk
  BY <1>3 DEF Pop, Resubmit, Cleanup, vars, frame, workerVars
<1> QED
  BY <1>1, <1>2, <1>3

LEMMA OthersLoaded ==
  ASSUME Unfinished,
         \/ \E p \in Procs : Pop(p)
         \/ \E h \in Handlers : HandlerStep(h)
         \/ ChunkWorkerFault \/ Resubmit \/ Cleanup \/ UNCHANGED vars
  PROVE  Unfinished'
BY OthersWrk DEF Unfinished

-----------------------------------------------------------------------------
(* The document keeps its batches, and its manifest as long as no files are removed *)

LEMMA DocumentFixed ==
  ASSUME Calm, [Next]_vars
  PROVE  UNCHANGED nBatches /\ (manifest => manifest')
<1>1. ASSUME NEW h \in Handlers, HandlerStep(h) PROVE UNCHANGED <<nBatches, manifest>>
  BY <1>1, HandlerFrame DEF Take, frame, dbVars, fileVars
<1>2. ASSUME (\E p \in Procs : Pop(p)) \/ ChunkWorkerFault PROVE UNCHANGED <<nBatches, manifest>>
  BY <1>2
  DEF Pop, ChunkWorkerFault, WorkRaises, ReplyLost, Swallowed, HandlerEscapes, ProcKilled,
      ChunkLockExpires, Stop, frame, dbVars, fileVars
<1>3. ASSUME NEW w \in Workers, PrepareStep(w) PROVE UNCHANGED nBatches /\ (manifest => manifest')
  <2>1. CASE BuildManifest(w)
    BY <1>3, <2>1, PrepareFrame DEF BuildManifest
  <2>2. CASE ~BuildManifest(w)
    <3>1. UNCHANGED manifest
      BY <1>3, <2>2
      DEF PrepareStep, PrepareLoad, PrepareMark, Parse, SkipPrepared, RepairQueue, SetTotals,
          PushMessages, ClaimEmpty, EnqueueEmpty, ReadAgain, ReadAgainRaises, PrepareExcept,
          job, fileVars
    <3> QED
      BY <1>3, <3>1, PrepareFrame
  <2> QED
    BY <2>1, <2>2
<1>4. ASSUME NEW w \in Workers, InlineStep(w) PROVE UNCHANGED <<nBatches, manifest>>
  BY <1>4, InlineFrame DEF dbVars
<1>5. ASSUME NEW w \in Workers,
             FinalizeStep(w) \/ TakeJob(w) \/ JobReturns(w) \/ RetryThreadRuns(w)
      PROVE  UNCHANGED <<nBatches, manifest>>
  BY <1>5
  DEF FinalizeStep, FinalizeLoad, FinalizeLock, FinalizeFails, FinalizeTooEarly, FinalizeReady,
      Merge, Charge, FinalizeExcept, ReleaseFinalize, TakeJob, JobReturns, RetryThreadRuns, job,
      dbVars, fileVars
<1>6. ASSUME RqTasksFault PROVE UNCHANGED <<nBatches, manifest>>
  <2>1. ~ \E w \in Workers : RepairRaises(w) \/ PushReplyLost(w)
    BY DEF Calm, Fault, RepairRaises, PushReplyLost
  <2> QED
    BY <1>6, <2>1
    DEF RqTasksFault, ParseRaises, PrepareRaises, InlineRaises, ClaimReplyLost,
        EnqueueReplyLost, FinalizeRaises, FinalizeEscapes, ReleaseRaises, RetryThreadRaises,
        HorseDies, FinLockExpires, job, dbVars, fileVars
<1>7. ASSUME Resubmit \/ UNCHANGED vars PROVE UNCHANGED <<nBatches, manifest>>
  BY <1>7 DEF Resubmit, vars, dbVars, fileVars
<1>8. ~Cleanup
  BY DEF Calm, Cleanup, Fault
<1> QED
  BY <1>1, <1>2, <1>3, <1>4, <1>5, <1>6, <1>7, <1>8 DEF Next, System, WorkerStep

\* A worker goes on.
LEMMA RereadsKept ==
  ASSUME Rereads, UNCHANGED nBatches, manifest => manifest', NEW w \in Workers,
         \A v \in Workers \ {w} : wrk'[v] = wrk[v], wrk'[w].pc = "p_reread" => manifest,
         wrk'[w].pc = "p_push" \/ wrk'[w].ctx = "inline" => nBatches > 0
  PROVE  Rereads'
BY DEF Rereads

LEMMA GoAsRereads ==
  ASSUME PlaceType, Rereads, UNCHANGED nBatches, manifest => manifest', NEW w \in Workers,
         NEW from, NEW to, NEW ctx, GoAs(w, from, to, ctx), to = "p_reread" => manifest,
         to = "p_push" \/ ctx = "inline" => nBatches > 0
  PROVE  Rereads'
<1>1. /\ wrk'[w].pc = to /\ wrk'[w].ctx \in {ctx, IdleWorker.ctx}
      /\ \A v \in Workers \ {w} : wrk'[v] = wrk[v]
  BY DEF PlaceType, GoAs, Worker, IdleWorker
<1>2. IdleWorker.ctx # "inline"
  BY DEF IdleWorker
<1> QED
  BY <1>1, <1>2, RereadsKept

LEMMA GoRereads ==
  ASSUME PlaceType, Rereads, UNCHANGED nBatches, manifest => manifest', NEW w \in Workers,
         NEW from, NEW to, Go(w, from, to), to = "p_reread" => manifest,
         to = "p_push" => nBatches > 0
  PROVE  Rereads'
BY GoAsRereads DEF Go, Rereads

\* A worker stays with its context, and does not come to a place of interest.
LEMMA StayRereads ==
  ASSUME Rereads, UNCHANGED nBatches, manifest => manifest', NEW w \in Workers,
         \A v \in Workers \ {w} : wrk'[v] = wrk[v], wrk'[w].pc \notin {"p_reread", "p_push"},
         wrk'[w].ctx # "inline" \/ wrk'[w].ctx = wrk[w].ctx
  PROVE  Rereads'
BY RereadsKept DEF Rereads

LEMMA LoadRereads ==
  ASSUME PlaceType, Rereads, UNCHANGED nBatches, manifest => manifest', NEW w \in Workers,
         PrepareLoad(w) \/ FinalizeLoad(w)
  PROVE  Rereads'
<1>1. PICK to \in {"p_mark", "f_lock"} : \E from : Load(w, from, to)
  BY DEF PrepareLoad, FinalizeLoad
<1>2. CASE status = "completed"
  <2>1. wrk' = [wrk EXCEPT ![w] = [IdleWorker EXCEPT !.pc = "exit"]]
    BY <1>1, <1>2 DEF Load
  <2>2. /\ wrk'[w].pc = "exit" /\ wrk'[w].ctx # "inline"
        /\ \A v \in Workers \ {w} : wrk'[v] = wrk[v]
    BY <2>1 DEF PlaceType, IdleWorker
  <2> QED
    BY <2>2, StayRereads
<1>3. CASE status # "completed"
  <2>1. wrk' = [wrk EXCEPT ![w] = [@ EXCEPT !.pc = to, !.loaded = status, !.tried = attempt]]
    BY <1>1, <1>3 DEF Load
  <2>2. /\ wrk'[w].pc = to /\ wrk'[w].ctx = wrk[w].ctx
        /\ \A v \in Workers \ {w} : wrk'[v] = wrk[v]
    BY <2>1 DEF PlaceType, Worker
  <2> QED
    BY <1>1, <2>2, StayRereads
<1> QED
  BY <1>2, <1>3

LEMMA PrepareRereads ==
  ASSUME PlaceType, nBatches \in Nat, Rereads, UNCHANGED nBatches, manifest => manifest',
         NEW w \in Workers, PrepareStep(w)
  PROVE  Rereads'
<1>1. CASE PrepareLoad(w)
  BY <1>1, LoadRereads
<1>2. CASE RepairQueue(w) \/ BuildManifest(w)
  BY <1>2, GoAsRereads DEF RepairQueue, BuildManifest
<1>3. CASE \/ PrepareMark(w) \/ Parse(w) \/ SkipPrepared(w) \/ SetTotals(w) \/ PushMessages(w)
           \/ ClaimEmpty(w) \/ EnqueueEmpty(w) \/ ReadAgain(w) \/ ReadAgainRaises(w)
           \/ PrepareExcept(w)
  BY <1>3, GoRereads
  DEF PrepareMark, Parse, SkipPrepared, SetTotals, PushMessages, ClaimEmpty, EnqueueEmpty,
      ReadAgain, ReadAgainRaises, PrepareExcept, Returned, Finished, AfterClaim
<1> QED
  BY <1>1, <1>2, <1>3 DEF PrepareStep

LEMMA InlineRereads ==
  ASSUME PlaceType, Rereads, UNCHANGED nBatches, manifest => manifest', NEW w \in Workers,
         InlineStep(w)
  PROVE  Rereads'
<1>1. CASE InlineFails(w) \/ InlineWrite(w) \/ InlineSchedule(w)
  BY <1>1, GoRereads DEF InlineFails, InlineWrite, InlineSchedule, Returned, Finished
<1>2. CASE StartInline(w)
  <2>1. /\ wrk'[w].pc = "i_translate" /\ \A v \in Workers \ {w} : wrk'[v] = wrk[v]
        /\ nBatches > 0
    BY <1>2 DEF StartInline, Inline, PlaceType, Worker
  <2> QED
    BY <2>1, RereadsKept
<1>3. CASE InlineMark(w) \/ InlineIncr(w)
  <2>1. CASE Go(w, "i_mark", "i_incr")
    BY <2>1, GoRereads
  <2>2. CASE NextInline(w, "i_mark") \/ NextInline(w, "i_incr")
    <3>1. /\ wrk'[w].pc \in {"i_write", "i_sched"} /\ wrk'[w].ctx = wrk[w].ctx
          /\ \A v \in Workers \ {w} : wrk'[v] = wrk[v]
      BY <2>2 DEF NextInline, PlaceType, Worker
    <3> QED
      BY <3>1, StayRereads
  <2> QED
    BY <1>3, <2>1, <2>2 DEF InlineMark, InlineIncr
<1>4. CASE InlineGathered(w) \/ \E b \in Batches : InlineAcquire(w, b) \/ InlineDone(w, b)
  <2>1. /\ wrk'[w].pc \in {"i_translate", "i_write"} /\ wrk'[w].ctx = wrk[w].ctx
        /\ \A v \in Workers \ {w} : wrk'[v] = wrk[v]
    BY <1>4 DEF InlineGathered, InlineAcquire, InlineDone, PlaceType, Worker
  <2> QED
    BY <2>1, StayRereads
<1> QED
  BY <1>1, <1>2, <1>3, <1>4 DEF InlineStep

LEMMA WorkerRereads ==
  ASSUME PlaceType, nBatches \in Nat, Rereads, UNCHANGED nBatches, manifest => manifest',
         NEW w \in Workers, WorkerStep(w) \/ RetryThreadRuns(w)
  PROVE  Rereads'
<1>1. CASE TakeJob(w) \/ JobReturns(w)
  BY <1>1, GoRereads DEF TakeJob, JobReturns
<1>2. CASE RetryThreadRuns(w)
  BY <1>2 DEF RetryThreadRuns, Rereads
<1>3. CASE FinalizeLoad(w)
  BY <1>3, LoadRereads
<1>4. CASE FinalizeStep(w) /\ ~FinalizeLoad(w)
  BY <1>4, GoRereads
  DEF FinalizeStep, FinalizeLock, FinalizeFails, FinalizeTooEarly, FinalizeReady, Merge,
      Charge, FinalizeExcept, ReleaseFinalize
<1> QED
  BY <1>1, <1>2, <1>3, <1>4, PrepareRereads, InlineRereads DEF WorkerStep

LEMMA RqFaultRereads ==
  ASSUME PlaceType, Rereads, Calm, UNCHANGED nBatches, manifest => manifest', RqTasksFault
  PROVE  Rereads'
<1>1. ASSUME NEW w \in Workers, ParseRaises(w) \/ FinalizeRaises(w) PROVE Rereads'
  BY <1>1, GoRereads DEF ParseRaises, FinalizeRaises
<1>2. ASSUME NEW w \in Workers, HorseDies(w) PROVE Rereads'
  <2>1. /\ wrk'[w].pc = "idle" /\ wrk'[w].ctx # "inline"
        /\ \A v \in Workers \ {w} : wrk'[v] = wrk[v]
    BY <1>2 DEF HorseDies, PlaceType, IdleWorker
  <2> QED
    BY <2>1, StayRereads
<1>3. ASSUME FinLockExpires PROVE Rereads'
  BY <1>3 DEF FinLockExpires, workerVars, Rereads
<1>4. ~ \E w \in Workers :
          \/ PrepareRaises(w) \/ InlineRaises(w) \/ RepairRaises(w)
          \/ PushReplyLost(w) \/ ClaimReplyLost(w) \/ EnqueueReplyLost(w)
          \/ FinalizeEscapes(w) \/ ReleaseRaises(w) \/ RetryThreadRaises(w)
  BY DEF Calm, Fault, PrepareRaises, InlineRaises, RepairRaises, PushReplyLost, ClaimReplyLost,
    EnqueueReplyLost, FinalizeEscapes, ReleaseRaises, RetryThreadRaises
<1> QED
  BY <1>1, <1>2, <1>3, <1>4 DEF RqTasksFault

-----------------------------------------------------------------------------
(* The theorem *)

LEMMA NextRereads ==
  ASSUME Calm, TypeOK, Rereads, [Next]_vars
  PROVE  Rereads'
<1>1. PlaceType /\ nBatches \in Nat
  BY DEF TypeOK, WorkerType, PlaceType, RowType
<1>2. UNCHANGED nBatches /\ (manifest => manifest')
  BY DocumentFixed
<1>3. ASSUME \/ \E p \in Procs : Pop(p)
             \/ \E h \in Handlers : HandlerStep(h)
             \/ ChunkWorkerFault \/ Resubmit \/ Cleanup \/ UNCHANGED vars
      PROVE  UNCHANGED wrk
  BY <1>3, OthersWrk
<1>4. UNCHANGED wrk => Rereads'
  BY <1>2 DEF Rereads
<1> QED
  BY <1>1, <1>2, <1>3, <1>4, WorkerRereads, RqFaultRereads DEF Next, System

LEMMA NextBaton ==
  ASSUME Calm, TypeOK, Token, Baton, Rereads, Unfinished, [Next]_vars
  PROVE  Baton' /\ Unfinished'
<1>1. TokenTypes
  BY TokenTypesHold
<1>2. PlaceType
  BY <1>1 DEF TokenTypes
<1>3. Unfinished'
  BY <1>2, WorkerLoaded, RqFaultLoaded, OthersLoaded DEF Next, System
<1>4. UNCHANGED nBatches
  BY DocumentFixed
<1>5. Baton'
  BY <1>1, <1>4, HandlerStepBaton, PopBaton, WorkerFaultBaton, PrepareBaton, InlineBaton,
    FinalizeBaton, LoopBaton, RqFaultBaton, OthersBaton
  DEF Next, System, WorkerStep
<1> QED
  BY <1>3, <1>5

LEMMA InitBaton == Init => Baton /\ Rereads /\ Unfinished
<1> SUFFICES ASSUME Init PROVE Baton /\ Rereads /\ Unfinished
  OBVIOUS
<1>1. PrepWorkers = {} /\ Rereads /\ Unfinished
  BY DEF Init, IdleWorker, PrepWorkers, PrepPc, PreparePc, Rereads, Unfinished
<1>2. PrepThreads = {} /\ \A w \in Workers : OneJob("prepare", retryThreads[w])
  BY EmptyJob DEF Init, PrepThreads
<1>3. OneJob("prepare", rqQueue)
  BY DEF Init, OneJob
<1>4. EnqHandlers = {} /\ FinWorkers = {}
  BY DEF Init, IdleHandler, IdleWorker, EnqHandlers, FinWorkers, FinPc
<1>5. FinThreads = {} /\ NoFin(rqQueue)
  BY EmptyFin DEF Init, FinThreads, NoFin
<1>6. ~Chunks
  BY DEF Init, Chunks, IdleHandler
<1>7. ~Handed
  BY <1>4, <1>5, <1>6 DEF Init, Handed, FinGone
<1>8. status = "pending" /\ usageRows = 0
  BY DEF Init
<1> QED
  BY <1>1, <1>2, <1>3, <1>7, <1>8 DEF Baton, PrepOnce

\* As long as Redis neither fails nor loses an answer and no job's files are removed,
\* whatever else happens (killed workers, retries, late finalize jobs, uploads of the
\* document again): a job whose user was charged is completed, and stays so.
THEOREM CompletedStays ==
  ASSUME "redis" \notin FaultKinds, "reply" \notin FaultKinds, "cleanup" \notin FaultKinds
  PROVE  Spec => []CompletedIsFinal
<1>1. Init => Token /\ Baton /\ Rereads /\ Unfinished
  BY InitToken, InitBaton
<1>2. TypeOK /\ Token /\ Baton /\ Rereads /\ Unfinished /\ [Next]_vars
        => Token' /\ Baton' /\ Rereads' /\ Unfinished'
  BY NextToken, NextBaton, NextRereads DEF Calm
<1>3. Baton => CompletedIsFinal
  BY DEF Baton, CompletedIsFinal
<1> QED
  BY <1>1, <1>2, <1>3, TypeCorrect, PTL DEF Spec

-----------------------------------------------------------------------------
(* Each batch is decided once, as long as Redis neither fails nor loses an answer *)
(* and no files are removed: there is one message of a batch at most, and none of *)
(* a batch that has its marker.                                                   *)

InMsgs(s, b) == \E i \in 1 .. Len(s) : s[i].batch = b
OneMsg(s) == \A i, j \in 1 .. Len(s) : s[i].batch = s[j].batch => i = j

\* A handler that has its batch neither decided nor given back.
CarryPc == {"check", "lock", "manifest", "slot", "translate", "write", "abort", "except",
            "mark", "mark_failed"}
Carries(h, b) == hnd[h].pc \in CarryPc /\ Batch(h) = b

\* The batches that have a message.
Open == {b \in Batches : \/ InMsgs(chunkQueue, b)
                         \/ \E p \in Procs : InMsgs(workQueue[p], b)
                         \/ \E h \in Handlers : Carries(h, b)}

OneMessage ==
  /\ OneMsg(chunkQueue)
  /\ \A p \in Procs : OneMsg(workQueue[p])
  /\ \A b \in Batches :
       /\ InMsgs(chunkQueue, b) => /\ \A p \in Procs : ~InMsgs(workQueue[p], b)
                                   /\ \A h \in Handlers : ~Carries(h, b)
       /\ \A p \in Procs : InMsgs(workQueue[p], b) => \A h \in Handlers : ~Carries(h, b)
       /\ \A p, q \in Procs : InMsgs(workQueue[p], b) /\ InMsgs(workQueue[q], b) => p = q
       /\ \A g, h \in Handlers : Carries(g, b) /\ Carries(h, b) => g = h

\* No message has been handed out, and nothing marked.
Fresh == Open = {} /\ doneMark = {} /\ failMark = {}

InlinePc == {"i_translate", "i_write", "i_mark", "i_incr", "i_sched"}

\* What prepare may rely on where it is: it pushes the messages when nothing was
\* handed out, and translates itself when no message will be.
Founded(w) ==
  /\ wrk[w].pc \in {"p_totals", "p_push"} => manifest /\ Fresh
  /\ wrk[w].pc = "p_push" => total = nBatches
  /\ wrk[w].pc \in InlinePc => /\ manifest /\ total = nBatches /\ nBatches > 0
                               /\ Open = {} /\ failMark = {}

\* Messages are pushed once: when there is a manifest and counters, prepare does not
\* come to push them again.
PushedOnce ==
  /\ ~manifest \/ total = 0 => Fresh
  /\ \A w \in Workers : Founded(w)

Decided ==
  /\ \A b \in Open : b \notin doneMark /\ b \notin failMark
  /\ BatchDecidedOnce

-----------------------------------------------------------------------------
(* Sequences of messages *)

LEMMA AppendMsg ==
  ASSUME NEW S, NEW s \in Seq(S), NEW m \in S
  PROVE  /\ \A b : InMsgs(Append(s, m), b) <=> InMsgs(s, b) \/ m.batch = b
         /\ OneMsg(s) /\ ~InMsgs(s, m.batch) => OneMsg(Append(s, m))
<1>1. /\ Len(s) \in Nat /\ Len(Append(s, m)) = Len(s) + 1
      /\ \A i \in 1 .. Len(s) : Append(s, m)[i] = s[i]
      /\ Append(s, m)[Len(s) + 1] = m
  OBVIOUS
<1>2. ASSUME NEW b PROVE InMsgs(Append(s, m), b) <=> InMsgs(s, b) \/ m.batch = b
  BY <1>1 DEF InMsgs
<1>3. ASSUME OneMsg(s), ~InMsgs(s, m.batch), NEW i \in 1 .. Len(s) + 1, NEW j \in 1 .. Len(s) + 1,
             Append(s, m)[i].batch = Append(s, m)[j].batch
      PROVE  i = j
  <2>1. ASSUME NEW k \in 1 .. Len(s) PROVE s[k].batch # m.batch
    BY <1>3 DEF InMsgs
  <2>2. CASE i \in 1 .. Len(s) /\ j \in 1 .. Len(s)
    BY <1>1, <1>3, <2>2 DEF OneMsg
  <2>3. CASE i = Len(s) + 1 \/ j = Len(s) + 1
    BY <1>1, <1>3, <2>1, <2>3
  <2> QED
    BY <1>1, <2>2, <2>3
<1>4. OneMsg(s) /\ ~InMsgs(s, m.batch) => OneMsg(Append(s, m))
  BY <1>1, <1>3 DEF OneMsg
<1> QED
  BY <1>2, <1>4

LEMMA TailMsg ==
  ASSUME NEW S, NEW s \in Seq(S), s # <<>>
  PROVE  /\ \A b : InMsgs(s, b) <=> Head(s).batch = b \/ InMsgs(Tail(s), b)
         /\ OneMsg(s) => OneMsg(Tail(s)) /\ ~InMsgs(Tail(s), Head(s).batch)
<1>1. /\ Len(s) \in Nat /\ Len(s) > 0 /\ Len(Tail(s)) = Len(s) - 1 /\ Head(s) = s[1]
      /\ \A i \in 1 .. Len(Tail(s)) : Tail(s)[i] = s[i + 1] /\ i + 1 \in 1 .. Len(s)
      /\ 1 \in 1 .. Len(s)
  OBVIOUS
<1>2. ASSUME NEW b PROVE InMsgs(s, b) <=> Head(s).batch = b \/ InMsgs(Tail(s), b)
  <2>1. ASSUME NEW i \in 1 .. Len(s), s[i].batch = b, i # 1 PROVE InMsgs(Tail(s), b)
    <3>1. i - 1 \in 1 .. Len(Tail(s)) /\ Tail(s)[i - 1] = s[i]
      BY <1>1, <2>1
    <3> QED
      BY <2>1, <3>1 DEF InMsgs
  <2>2. InMsgs(Tail(s), b) => InMsgs(s, b)
    BY <1>1 DEF InMsgs
  <2> QED
    BY <1>1, <2>1, <2>2 DEF InMsgs
<1>3. OneMsg(s) => OneMsg(Tail(s))
  BY <1>1 DEF OneMsg
<1>4. OneMsg(s) => ~InMsgs(Tail(s), Head(s).batch)
  BY <1>1 DEF OneMsg, InMsgs
<1> QED
  BY <1>2, <1>3, <1>4

LEMMA PushOne ==
  ASSUME NEW S, NEW s \in Seq(S), NEW m \in S PROVE s \o <<m>> = Append(s, m)
OBVIOUS

LEMMA NoMsgs == /\ \A b : ~InMsgs(<<>>, b)
                /\ OneMsg(<<>>)
BY DEF InMsgs, OneMsg

\* The types the moves of messages rest on.
MessageTypes ==
  /\ nBatches \in Nat /\ HandlerType /\ chunkQueue \in Seq(Message)
  /\ PlaceType /\ total \in Nat

LEMMA MessageTypesHold ==
  ASSUME TypeOK, ConstantsOK
  PROVE  MessageTypes
BY DEF TypeOK, RowType, QueueType, WorkerType, CounterType, PlaceType, MessageTypes, ConstantsOK

LEMMA FirstMessagesAlone ==
  ASSUME MessageTypes, chunkQueue = <<>>, RPush(FirstMessages), UNCHANGED nBatches
  PROVE  OneMsg(chunkQueue')
<1>1. FirstMessages \in Seq(Message) /\ Len(FirstMessages) = nBatches
  BY DEF FirstMessages, Message, Batches, MessageTypes
<1>2. chunkQueue' = FirstMessages
  BY <1>1 DEF RPush
<1>3. \A i \in 1 .. nBatches : FirstMessages[i].batch = i - 1
  BY DEF FirstMessages
<1>4. OneMsg(FirstMessages)
  BY <1>1, <1>3 DEF OneMsg, MessageTypes
<1> QED
  BY <1>2, <1>4

-----------------------------------------------------------------------------
(* Where a message goes *)

\* Messages may be lost, and none is made.
LEMMA FewerMessages ==
  ASSUME OneMessage, UNCHANGED nBatches,
         OneMsg(chunkQueue'), \A p \in Procs : OneMsg(workQueue'[p]),
         \A b \in Batches :
            /\ InMsgs(chunkQueue', b) => InMsgs(chunkQueue, b)
            /\ \A p \in Procs : InMsgs(workQueue'[p], b) => InMsgs(workQueue[p], b)
            /\ \A h \in Handlers : Carries(h, b)' => Carries(h, b)
  PROVE  OneMessage' /\ Open' \subseteq Open
<1>1. Batches' = Batches
  BY DEF Batches
<1>2. Open' \subseteq Open
  BY <1>1 DEF Open
<1>3. OneMessage'
  BY <1>1 DEF OneMessage
<1> QED
  BY <1>2, <1>3

LEMMA HandlersKeepMessages ==
  ASSUME OneMessage, UNCHANGED <<nBatches, chunkQueue, workQueue>>,
         \A b \in Batches : \A h \in Handlers : Carries(h, b)' => Carries(h, b)
  PROVE  OneMessage' /\ Open' \subseteq Open
BY FewerMessages DEF OneMessage

LEMMA PopMessages ==
  ASSUME MessageTypes, OneMessage, NEW p \in Procs, Pop(p)
  PROVE  OneMessage' /\ Open' \subseteq Open
<1>1. UNCHANGED <<nBatches, hnd>> /\ chunkQueue # <<>> /\ chunkQueue' = Tail(chunkQueue)
      /\ workQueue' = [workQueue EXCEPT ![p] = Append(@, Head(chunkQueue))]
  BY DEF Pop, frame, dbVars
<1>2. PICK m \in Message : m = Head(chunkQueue)
  BY <1>1, HeadTail DEF MessageTypes
<1>3. Batches' = Batches /\ m.batch \in Batches
  BY <1>1, <1>2 DEF Batches, Message
<1>4. /\ \A b : InMsgs(chunkQueue, b) <=> m.batch = b \/ InMsgs(chunkQueue', b)
      /\ OneMsg(chunkQueue') /\ ~InMsgs(chunkQueue', m.batch)
  BY <1>1, <1>2, TailMsg DEF MessageTypes, OneMessage
<1>5. /\ \A b : InMsgs(workQueue'[p], b) <=> InMsgs(workQueue[p], b) \/ m.batch = b
      /\ OneMsg(workQueue'[p])
      /\ \A q \in Procs \ {p} : workQueue'[q] = workQueue[q]
  <2>1. workQueue[p] \in Seq(Message) /\ workQueue'[p] = Append(workQueue[p], m)
    BY <1>1, <1>2 DEF MessageTypes, HandlerType
  <2>2. OneMsg(workQueue[p]) /\ ~InMsgs(workQueue[p], m.batch)
    BY <1>3, <1>4 DEF OneMessage
  <2>3. \A q \in Procs \ {p} : workQueue'[q] = workQueue[q]
    BY <1>1 DEF MessageTypes, HandlerType
  <2> QED
    BY <2>1, <2>2, <2>3, AppendMsg
<1>6. \A b : \A h \in Handlers : Carries(h, b)' <=> Carries(h, b)
  BY <1>1 DEF Carries, Batch
<1>7. Open' \subseteq Open
  BY <1>3, <1>4, <1>5, <1>6 DEF Open
<1>8. OneMessage'
  BY <1>3, <1>4, <1>5, <1>6 DEF OneMessage
<1> QED
  BY <1>7, <1>8

LEMMA TakeMessages ==
  ASSUME MessageTypes, OneMessage, ConstantsOK, NEW h \in Handlers, Take(h)
  PROVE  OneMessage' /\ Open' \subseteq Open
<1>1. PICK p \in Procs : p = ProcOf[h]
  BY DEF ConstantsOK
<1>2. UNCHANGED <<nBatches, chunkQueue>> /\ hnd[h].pc = "idle" /\ workQueue[p] # <<>>
      /\ hnd' = [hnd EXCEPT ![h] = [pc |-> "check", ctx |-> "skip", msg |-> Head(workQueue[p])]]
      /\ workQueue' = [workQueue EXCEPT ![p] = Tail(@)]
  BY <1>1 DEF Take, frame, dbVars, queues
<1>3. workQueue[p] \in Seq(Message)
  BY DEF MessageTypes, HandlerType
<1>4. PICK m \in Message : m = Head(workQueue[p])
  BY <1>2, <1>3, HeadTail
<1>5. Batches' = Batches /\ m.batch \in Batches
  BY <1>2, <1>4 DEF Batches, Message
<1>6. /\ \A b : InMsgs(workQueue[p], b) <=> m.batch = b \/ InMsgs(workQueue'[p], b)
      /\ OneMsg(workQueue'[p]) /\ ~InMsgs(workQueue'[p], m.batch)
      /\ \A q \in Procs \ {p} : workQueue'[q] = workQueue[q]
  <2>1. workQueue'[p] = Tail(workQueue[p]) /\ \A q \in Procs \ {p} : workQueue'[q] = workQueue[q]
    BY <1>2 DEF MessageTypes, HandlerType
  <2> QED
    BY <1>2, <1>3, <1>4, <2>1, TailMsg DEF OneMessage
<1>7. /\ \A b : Carries(h, b)' <=> m.batch = b
      /\ \A b : \A g \in Handlers \ {h} : Carries(g, b)' <=> Carries(g, b)
  BY <1>2, <1>4 DEF Carries, Batch, CarryPc, MessageTypes, HandlerType
<1>8. Open' \subseteq Open
  BY <1>2, <1>5, <1>6, <1>7 DEF Open
<1>9. OneMessage'
  BY <1>2, <1>5, <1>6, <1>7 DEF OneMessage
<1> QED
  BY <1>8, <1>9

\* A handler gives its message back, under the same or the next attempt number.
LEMMA RequeueMessages ==
  ASSUME MessageTypes, OneMessage, NEW h \in Handlers, hnd[h].pc \in CarryPc,
         NEW m \in Message, m.batch = Batch(h), RPush(<<m>>), hnd'[h].pc \notin CarryPc,
         \A g \in Handlers \ {h} : hnd'[g] = hnd[g], UNCHANGED <<nBatches, workQueue>>
  PROVE  OneMessage' /\ Open' \subseteq Open
<1>1. Batches' = Batches /\ m.batch \in Batches
  BY DEF Batches, Message
<1>2. /\ \A b : InMsgs(chunkQueue', b) <=> InMsgs(chunkQueue, b) \/ m.batch = b
      /\ OneMsg(chunkQueue')
  <2>1. Carries(h, m.batch)
    BY DEF Carries
  <2>2. OneMsg(chunkQueue) /\ ~InMsgs(chunkQueue, m.batch)
    BY <1>1, <2>1 DEF OneMessage
  <2>3. chunkQueue' = Append(chunkQueue, m)
    BY PushOne DEF RPush, MessageTypes
  <2> QED
    BY <2>2, <2>3, AppendMsg DEF MessageTypes
<1>3. /\ \A b : ~Carries(h, b)' /\ Carries(h, m.batch)
      /\ \A b : \A g \in Handlers \ {h} : Carries(g, b)' <=> Carries(g, b)
  BY DEF Carries, Batch
<1>4. Open' \subseteq Open
  BY <1>1, <1>2, <1>3 DEF Open
<1>5. OneMessage'
  BY <1>1, <1>2, <1>3 DEF OneMessage
<1> QED
  BY <1>4, <1>5

\* A handler that goes on, with its batch or without, takes nobody else's, ...
LEMMA HandlerGoesOn ==
  ASSUME OneMessage, NEW h \in Handlers, \A g \in Handlers \ {h} : hnd'[g] = hnd[g],
         hnd'[h].pc \in CarryPc => hnd[h].pc \in CarryPc /\ hnd'[h].msg = hnd[h].msg,
         UNCHANGED <<nBatches, chunkQueue, workQueue>>
  PROVE  OneMessage' /\ Open' \subseteq Open
<1>1. \A b \in Batches : \A g \in Handlers : Carries(g, b)' => Carries(g, b)
  BY DEF Carries, Batch
<1> QED
  BY <1>1, HandlersKeepMessages

\* ... and one that decides its batch had the only message of it.
LEMMA HandlerDecides ==
  ASSUME OneMessage, NEW h \in Handlers, \A g \in Handlers \ {h} : hnd'[g] = hnd[g],
         hnd[h].pc \in CarryPc, hnd'[h].pc \notin CarryPc, NEW b \in Batches, Batch(h) = b,
         UNCHANGED <<nBatches, chunkQueue, workQueue>>
  PROVE  OneMessage' /\ b \in Open /\ Open' \subseteq Open \ {b}
<1>1. OneMessage' /\ Open' \subseteq Open
  BY HandlerGoesOn
<1>2. Carries(h, b) /\ Batches' = Batches
  BY DEF Carries, Batches
<1>3. b \in Open
  BY <1>2 DEF Open
<1>4. /\ ~InMsgs(chunkQueue', b)
      /\ \A p \in Procs : ~InMsgs(workQueue'[p], b)
      /\ \A g \in Handlers : ~Carries(g, b)'
  <2>1. /\ ~InMsgs(chunkQueue, b)
        /\ \A p \in Procs : ~InMsgs(workQueue[p], b)
        /\ \A g \in Handlers \ {h} : ~Carries(g, b)
    BY <1>2 DEF OneMessage
  <2> QED
    BY <2>1 DEF Carries, Batch
<1>5. b \notin Open'
  BY <1>4 DEF Open
<1> QED
  BY <1>1, <1>3, <1>5
-----------------------------------------------------------------------------
(* The steps of the chunk workers *)

MarksKept == UNCHANGED <<doneMark, failMark>>

\* A handler goes on with its message, or with none.
Onward(h) ==
  /\ \A g \in Handlers \ {h} : hnd'[g] = hnd[g]
  /\ hnd'[h].pc \in CarryPc => hnd[h].pc \in CarryPc /\ hnd'[h].msg = hnd[h].msg

LEMMA GotoOnward ==
  ASSUME HandlerType, NEW h \in Handlers, NEW from, NEW to, NEW ctx, GotoAs(h, from, to, ctx),
         from \in CarryPc \/ to \notin CarryPc
  PROVE  Onward(h)
BY DEF HandlerType, GotoAs, Handler, IdleHandler, Onward, CarryPc

LEMMA ScheduleOnward ==
  ASSUME HandlerType, NEW h \in Handlers, Schedule(h) \/ ClaimFinalize(h) \/ EnqueueFinalize(h)
  PROVE  Onward(h)
<1>1. PICK to : to \notin CarryPc /\ \E from : Goto(h, from, to)
  BY AfterSchedulePlace DEF Schedule, ClaimFinalize, EnqueueFinalize, CarryPc
<1> QED
  BY <1>1, GotoOnward DEF Goto

LEMMA QuietOnward ==
  ASSUME HandlerType, NEW h \in Handlers, HandlerStep(h), ~Take(h), ~LockBusy(h),
         ~RequeueAttempt(h), ~MarkCompleted(h), ~MarkFailed(h)
  PROVE  Onward(h) /\ MarksKept /\ UNCHANGED <<chunkQueue, workQueue>>
<1>1. ASSUME \/ CheckOutput(h) \/ AcquireLock(h) \/ ReadManifest(h) \/ AcquireSlot(h)
             \/ TranslateReturns(h) \/ TranslateRaises(h) \/ FinishWrite(h) \/ GiveUp(h)
             \/ IncrDone(h) \/ IncrFailed(h) \/ ReleaseLock(h) \/ ReleaseSlot(h)
      PROVE  Onward(h)
  BY <1>1, GotoOnward
  DEF CheckOutput, AcquireLock, ReadManifest, AcquireSlot, TranslateReturns, TranslateRaises,
      FinishWrite, GiveUp, IncrDone, IncrFailed, ReleaseLock, ReleaseSlot, Goto, CarryPc
<1>2. ASSUME Schedule(h) \/ ClaimFinalize(h) \/ EnqueueFinalize(h) PROVE Onward(h)
  BY <1>2, ScheduleOnward
<1>3. MarksKept /\ UNCHANGED <<chunkQueue, workQueue>>
  BY DEF HandlerStep, CheckOutput, AcquireLock, ReadManifest, AcquireSlot, TranslateReturns,
    TranslateRaises, FinishWrite, IncrDone, ReleaseSlot, GiveUp, IncrFailed, ReleaseLock,
    Schedule, ClaimFinalize, EnqueueFinalize, counterVars, queues, MarksKept
<1> QED
  BY <1>1, <1>2, <1>3 DEF HandlerStep

LEMMA DecidedKept ==
  ASSUME Decided, Open' \subseteq Open, MarksKept
  PROVE  Decided'
BY DEF Decided, MarksKept, BatchDecidedOnce

LEMMA HandlerMessages ==
  ASSUME MessageTypes, ConstantsOK, OneMessage, Decided, NEW h \in Handlers, HandlerStep(h)
  PROVE  OneMessage' /\ Decided' /\ Open' \subseteq Open /\ (Open = {} => MarksKept)
<1>1. HandlerType
  BY DEF MessageTypes
<1>2. CASE Take(h)
  <2>1. MarksKept
    BY <1>2 DEF Take, counterVars, MarksKept
  <2> QED
    BY <1>2, <2>1, TakeMessages, DecidedKept
<1>3. CASE ~Take(h)
  <2>1. UNCHANGED <<nBatches, workQueue>>
    BY <1>3, HandlerFrame DEF dbVars
  <2>2. HandlerType' /\ Batch(h) \in Batches
    BY <1>1, <1>3, <2>1, HandlerMoves
  <2>3. PICK b \in Batches : b = Batch(h)
    BY <2>2
  <2>4. CASE LockBusy(h) \/ RequeueAttempt(h)
    <3>1. /\ hnd[h].pc \in CarryPc /\ hnd'[h].pc \notin CarryPc
          /\ \A g \in Handlers \ {h} : hnd'[g] = hnd[g]
      BY <1>1, <2>4, GotoAsMoves DEF LockBusy, RequeueAttempt, Goto, CarryPc
    <3>2. PICK m \in Message : m.batch = Batch(h) /\ RPush(<<m>>)
      <4>1. hnd[h].msg \in Message
        BY <1>1, <2>2 DEF HandlerType, Handler, Message, Batch
      <4>2. ASSUME NEW r \in Message
            PROVE  /\ [r EXCEPT !.attempt = @ + 1] \in Message
                   /\ [r EXCEPT !.attempt = @ + 1].batch = r.batch
        BY DEF Message
      <4> QED
        BY <2>4, <4>1, <4>2 DEF LockBusy, RequeueAttempt, Batch
    <3>3. MarksKept
      BY <2>4 DEF LockBusy, RequeueAttempt, counterVars, MarksKept
    <3> QED
      BY <2>1, <3>1, <3>2, <3>3, RequeueMessages, DecidedKept
  <2>5. CASE MarkCompleted(h) \/ MarkFailed(h)
    <3>1. /\ hnd[h].pc \in CarryPc /\ hnd'[h].pc \notin CarryPc
          /\ \A g \in Handlers \ {h} : hnd'[g] = hnd[g]
      BY <1>1, <2>5, GotoAsMoves DEF MarkCompleted, MarkFailed, Goto, CarryPc
    <3>2. UNCHANGED chunkQueue
      BY <2>5 DEF MarkCompleted, MarkFailed, queues
    <3>3. OneMessage' /\ b \in Open /\ Open' \subseteq Open \ {b}
      BY <2>1, <2>3, <3>1, <3>2, HandlerDecides
    <3>4. \/ doneMark' = doneMark \cup {b} /\ UNCHANGED failMark
          \/ failMark' = failMark \cup {b} /\ UNCHANGED doneMark
      BY <2>3, <2>5 DEF MarkCompleted, MarkFailed
    <3>5. Decided'
      BY <3>3, <3>4 DEF Decided, BatchDecidedOnce
    <3> QED
      BY <3>3, <3>5
  <2>6. CASE ~(LockBusy(h) \/ RequeueAttempt(h) \/ MarkCompleted(h) \/ MarkFailed(h))
    <3>1. Onward(h) /\ MarksKept /\ UNCHANGED <<chunkQueue, workQueue>>
      BY <1>1, <1>3, <2>6, QuietOnward
    <3> QED
      BY <2>1, <3>1, HandlerGoesOn, DecidedKept DEF Onward
  <2> QED
    BY <2>4, <2>5, <2>6
<1> QED
  BY <1>2, <1>3

LEMMA StopMessages ==
  ASSUME MessageTypes, OneMessage, NEW p \in Procs, Stop(p)
  PROVE  OneMessage' /\ Open' \subseteq Open /\ MarksKept
<1>1. UNCHANGED <<nBatches, chunkQueue, doneMark, failMark>>
  BY DEF Stop, frame, dbVars, counterVars, queues
<1>2. \A b \in Batches : \A h \in Handlers : Carries(h, b)' => Carries(h, b)
  BY DEF Stop, Carries, CarryPc, IdleHandler, Batch, MessageTypes, HandlerType
<1>3. \A q \in Procs : workQueue'[q] = IF q = p THEN <<>> ELSE workQueue[q]
  BY DEF Stop, MessageTypes, HandlerType
<1>4. /\ \A q \in Procs : OneMsg(workQueue'[q])
      /\ \A b \in Batches : \A q \in Procs : InMsgs(workQueue'[q], b) => InMsgs(workQueue[q], b)
  BY <1>3, NoMsgs DEF OneMessage
<1>5. OneMsg(chunkQueue')
  BY <1>1 DEF OneMessage
<1> QED
  BY <1>1, <1>2, <1>4, <1>5, FewerMessages DEF MarksKept

LEMMA WorkerFaultMessages ==
  ASSUME Calm, MessageTypes, OneMessage, Decided, ChunkWorkerFault
  PROVE  OneMessage' /\ Decided' /\ Open' \subseteq Open /\ MarksKept
<1>1. ASSUME NEW p \in Procs, ProcKilled(p)
      PROVE  OneMessage' /\ Open' \subseteq Open /\ MarksKept
  BY <1>1, StopMessages DEF ProcKilled
<1>2. ASSUME NEW b \in Batches, ChunkLockExpires(b)
      PROVE  OneMessage' /\ Open' \subseteq Open /\ MarksKept
  <2>1. UNCHANGED <<nBatches, chunkQueue, workQueue, hnd, doneMark, failMark>>
    BY <1>2 DEF ChunkLockExpires, frame, dbVars, queues, counterVars
  <2>2. \A c \in Batches : \A h \in Handlers : Carries(h, c)' => Carries(h, c)
    BY <2>1 DEF Carries, Batch
  <2> QED
    BY <2>1, <2>2, HandlersKeepMessages DEF MarksKept
<1>3. ~ \E h \in Handlers : WorkRaises(h) \/ ReplyLost(h) \/ Swallowed(h) \/ HandlerEscapes(h)
  BY DEF Calm, WorkRaises, ReplyLost, Swallowed, HandlerEscapes, Fault
<1> QED
  BY <1>1, <1>2, <1>3, DecidedKept DEF ChunkWorkerFault

\* Chunk workers neither prepare nor take a manifest away.
LEMMA PushedKept ==
  ASSUME PushedOnce, UNCHANGED <<nBatches, manifest, total, wrk>>,
         Open' \subseteq Open, Open = {} => MarksKept
  PROVE  PushedOnce'
<1>1. Fresh => Fresh'
  BY DEF Fresh, MarksKept
<1>2. \A w \in Workers : Founded(w)'
  BY <1>1 DEF PushedOnce, Founded, MarksKept
<1> QED
  BY <1>1, <1>2 DEF PushedOnce
-----------------------------------------------------------------------------
(* The steps of the RQ workers *)

Messages == OneMessage /\ PushedOnce /\ Decided

\* No message moves.
MessagesStay == UNCHANGED <<nBatches, hnd, workQueue, chunkQueue>>

LEMMA OpenStays ==
  ASSUME MessagesStay
  PROVE  (OneMessage => OneMessage') /\ Open' = Open
<1>1. Batches' = Batches
  BY DEF MessagesStay, Batches
<1>2. \A b : \A h \in Handlers : Carries(h, b)' <=> Carries(h, b)
  BY DEF MessagesStay, Carries, Batch
<1> QED
  BY <1>1, <1>2 DEF MessagesStay, OneMessage, Open

FoundedPc == {"p_totals", "p_push"} \cup InlinePc

\* A worker moves, its founding being what its new place needs.
LEMMA WorkerMovesOn ==
  ASSUME Messages, MessagesStay, MarksKept, NEW w \in Workers,
         \A v \in Workers \ {w} : wrk'[v] = wrk[v], Founded(w)',
         UNCHANGED <<manifest, total>>
  PROVE  Messages'
<1>1. OneMessage' /\ Open' = Open
  BY OpenStays DEF Messages
<1>2. Decided'
  BY <1>1, DecidedKept DEF Messages
<1>3. Fresh' = Fresh
  BY <1>1 DEF Fresh, MarksKept
<1>4. \A v \in Workers \ {w} : Founded(v)'
  BY <1>1, <1>3 DEF Messages, PushedOnce, Founded, MessagesStay, MarksKept
<1> QED
  BY <1>1, <1>2, <1>3, <1>4 DEF Messages, PushedOnce

LEMMA WorkerElsewhere ==
  ASSUME Messages, MessagesStay, MarksKept, NEW w \in Workers,
         \A v \in Workers \ {w} : wrk'[v] = wrk[v], wrk'[w].pc \notin FoundedPc,
         UNCHANGED <<manifest, total>>
  PROVE  Messages'
<1>1. Founded(w)'
  BY DEF Founded, FoundedPc, InlinePc
<1> QED
  BY <1>1, WorkerMovesOn

\* A worker comes to the totals, or has written them.
LEMMA WorkerFounded ==
  ASSUME MessageTypes, Messages, MessagesStay, MarksKept, NEW w \in Workers,
         \A v \in Workers \ {w} : wrk'[v] = wrk[v],
         wrk'[w].pc = "p_push" \/ wrk'[w].pc \in InlinePc => total' = nBatches,
         wrk'[w].pc \in InlinePc => nBatches > 0,
         Fresh, manifest', total' \in {total, nBatches}
  PROVE  Messages'
<1>1. OneMessage' /\ Open' = Open
  BY OpenStays DEF Messages
<1>2. Decided'
  BY <1>1, DecidedKept DEF Messages
<1>3. Fresh'
  BY <1>1 DEF Fresh, MarksKept
<1>4. UNCHANGED nBatches
  BY DEF MessagesStay
<1>5. ASSUME NEW v \in Workers PROVE Founded(v)'
  <2>1. CASE v = w
    BY <1>3, <1>4, <2>1 DEF Founded, Fresh
  <2>2. CASE v # w
    <3>1. wrk'[v] = wrk[v] /\ Founded(v)
      BY <2>2 DEF Messages, PushedOnce
    <3> QED
      BY <1>3, <1>4, <3>1 DEF Founded, Fresh
  <2> QED
    BY <2>1, <2>2
<1> QED
  BY <1>1, <1>2, <1>3, <1>5 DEF Messages, PushedOnce

\* Nobody else is where prepare hands batches out.
LEMMA OthersElsewhere ==
  ASSUME PrepOnce, NEW w \in Workers, wrk[w].pc \in FoundedPc
  PROVE  \A v \in Workers \ {w} : wrk[v].pc \notin FoundedPc
<1>1. FoundedPc \subseteq PrepPc
  BY DEF FoundedPc, InlinePc, PrepPc, PreparePc
<1> QED
  BY <1>1 DEF PrepOnce, PrepWorkers

LEMMA PushMessagesOnce ==
  ASSUME MessageTypes, PrepOnce, Messages, NEW w \in Workers, PushMessages(w)
  PROVE  Messages'
<1>1. /\ wrk[w].pc = "p_push" /\ wrk'[w].pc = Returned
      /\ \A v \in Workers \ {w} : wrk'[v] = wrk[v]
      /\ UNCHANGED <<nBatches, hnd, workQueue, manifest, total, doneMark, failMark>>
  BY GoAsMoves DEF PushMessages, Go, MessageTypes, job, dbVars, fileVars, counterVars, env,
    handlerVars
<1>2. manifest /\ Fresh /\ total = nBatches
  BY <1>1 DEF Messages, PushedOnce, Founded
<1>3. Batches' = Batches
  BY <1>1 DEF Batches
<1>4. chunkQueue = <<>>
  <2>1. ASSUME chunkQueue # <<>> PROVE FALSE
    <3>1. PICK m \in Message : m = Head(chunkQueue)
      BY <2>1, HeadTail DEF MessageTypes
    <3>2. m.batch \in Batches
      BY DEF Message
    <3>3. InMsgs(chunkQueue, m.batch)
      BY <2>1, <3>1, TailMsg DEF MessageTypes
    <3> QED
      BY <1>2, <3>2, <3>3 DEF Fresh, Open
  <2> QED
    BY <2>1
<1>5. OneMsg(chunkQueue')
  BY <1>1, <1>4, FirstMessagesAlone DEF PushMessages
<1>6. \A b : \A h \in Handlers : Carries(h, b)' <=> Carries(h, b)
  BY <1>1 DEF Carries, Batch
<1>7. OneMessage'
  BY <1>1, <1>2, <1>3, <1>5, <1>6 DEF Messages, OneMessage, Fresh, Open
<1>8. Decided'
  BY <1>1, <1>2 DEF Decided, BatchDecidedOnce, Fresh
<1>9. ~manifest' \/ total' = 0 => Fresh'
  <2>1. ASSUME total' = 0 PROVE Fresh'
    <3>1. Batches' = {}
      BY <1>1, <1>2, <2>1 DEF Batches
    <3> QED
      BY <1>1, <1>2, <3>1 DEF Fresh, Open
  <2> QED
    BY <1>1, <1>2, <2>1
<1>10. \A v \in Workers : wrk'[v].pc \notin FoundedPc
  <2>1. "p_push" \in FoundedPc /\ Returned \notin FoundedPc
    BY DEF FoundedPc, InlinePc, Returned, Finished
  <2> QED
    BY <1>1, <2>1, OthersElsewhere
<1>11. \A v \in Workers : Founded(v)'
  BY <1>10 DEF Founded, FoundedPc
<1> QED
  BY <1>7, <1>8, <1>9, <1>11 DEF Messages, PushedOnce

LEMMA PrepareMessages ==
  ASSUME MessageTypes, PrepOnce, Messages, NEW w \in Workers, PrepareStep(w)
  PROVE  Messages'
<1>1. PlaceType /\ MarksKept
  BY PrepareFrame DEF MessageTypes, MarksKept
<1>2. CASE PushMessages(w)
  BY <1>2, PushMessagesOnce
<1>3. CASE ~PushMessages(w)
  <2>1. MessagesStay
    BY <1>3, PrepareFrame
    DEF PrepareStep, PrepareLoad, PrepareMark, Parse, SkipPrepared, RepairQueue, BuildManifest,
        SetTotals, ClaimEmpty, EnqueueEmpty, ReadAgain, ReadAgainRaises, PrepareExcept,
        Returned, Finished, AfterClaim, MessagesStay, handlerVars, redis, queues
  <2>2. CASE SetTotals(w)
    <3>1. /\ wrk[w].pc = "p_totals" /\ wrk'[w].pc \in {Returned, "p_push"}
          /\ \A v \in Workers \ {w} : wrk'[v] = wrk[v]
          /\ total' = nBatches /\ UNCHANGED manifest
      BY <1>1, <2>2, GoAsMoves DEF SetTotals, Go, SetJobChunkTotals, job, fileVars
    <3>2. manifest /\ Fresh
      BY <3>1 DEF Messages, PushedOnce, Founded
    <3> QED
      BY <1>1, <2>1, <3>1, <3>2, WorkerFounded DEF InlinePc, Returned, Finished
  <2>3. CASE RepairQueue(w) \/ BuildManifest(w)
    <3>1. /\ wrk'[w].pc = "p_totals" /\ \A v \in Workers \ {w} : wrk'[v] = wrk[v]
          /\ manifest' /\ UNCHANGED total
      BY <1>1, <2>3, GoAsMoves DEF RepairQueue, BuildManifest, job, fileVars, redis, counterVars
    <3>2. Fresh
      BY <2>3 DEF Messages, PushedOnce, RepairQueue, BuildManifest
    <3> QED
      BY <1>1, <2>1, <3>1, <3>2, WorkerFounded DEF InlinePc
  <2>4. CASE PrepareLoad(w)
    <3>1. /\ wrk'[w].pc \in {"exit", "p_mark"} /\ \A v \in Workers \ {w} : wrk'[v] = wrk[v]
          /\ UNCHANGED <<manifest, total>>
      BY <1>1, <2>4 DEF PrepareLoad, Load, PlaceType, Worker, IdleWorker, job, fileVars, redis,
        counterVars
    <3> QED
      BY <1>1, <2>1, <3>1, WorkerElsewhere DEF FoundedPc, InlinePc
  <2>5. CASE \/ PrepareMark(w) \/ Parse(w) \/ SkipPrepared(w) \/ ClaimEmpty(w)
             \/ EnqueueEmpty(w) \/ ReadAgain(w) \/ ReadAgainRaises(w) \/ PrepareExcept(w)
    <3>1. /\ wrk'[w].pc \notin FoundedPc /\ \A v \in Workers \ {w} : wrk'[v] = wrk[v]
      BY <1>1, <2>5, GoAsMoves
      DEF PrepareMark, Parse, SkipPrepared, ClaimEmpty, EnqueueEmpty, ReadAgain,
          ReadAgainRaises, PrepareExcept, Returned, Finished, AfterClaim, Go, FoundedPc,
          InlinePc
    <3>2. UNCHANGED <<manifest, total>>
      BY <2>5
      DEF PrepareMark, Parse, SkipPrepared, ClaimEmpty, EnqueueEmpty, ReadAgain,
          ReadAgainRaises, PrepareExcept, job, fileVars, redis, counterVars
    <3> QED
      BY <1>1, <2>1, <3>1, <3>2, WorkerElsewhere
  <2> QED
    BY <1>3, <2>2, <2>3, <2>4, <2>5 DEF PrepareStep
<1> QED
  BY <1>2, <1>3

LEMMA InlineMarksOnce ==
  ASSUME MessageTypes, PrepOnce, Messages, NEW w \in Workers, InlineMark(w)
  PROVE  Messages'
<1>1. /\ wrk[w].pc = "i_mark" /\ wrk'[w].pc \in {"i_incr", "i_write", "i_sched"}
      /\ \A v \in Workers \ {w} : wrk'[v] = wrk[v]
  <2>1. wrk[w].pc = "i_mark"
    BY DEF InlineMark
  <2>2. /\ wrk'[w].pc \in {"i_incr", "i_write", "i_sched"}
        /\ \A v \in Workers \ {w} : wrk'[v] = wrk[v]
    BY GoAsMoves, NextInlineMoves DEF InlineMark, Go, MessageTypes
  <2> QED
    BY <2>1, <2>2
<1>2. UNCHANGED <<manifest, total, failMark>> /\ MessagesStay
  BY DEF InlineMark, job, dbVars, fileVars, queues, env, handlerVars, MessagesStay
<1>3. manifest /\ total = nBatches /\ nBatches > 0 /\ Open = {} /\ failMark = {}
  BY <1>1 DEF Messages, PushedOnce, Founded, InlinePc
<1>4. OneMessage' /\ Open' = {} /\ failMark' = {} /\ UNCHANGED nBatches
  BY <1>2, <1>3, OpenStays DEF Messages, MessagesStay
<1>5. Decided'
  BY <1>4 DEF Decided, BatchDecidedOnce
<1>6. manifest' /\ total' = nBatches' /\ nBatches' > 0
  BY <1>2, <1>3, <1>4
<1>7. \A v \in Workers \ {w} : wrk'[v].pc \notin FoundedPc
  <2>1. "i_mark" \in FoundedPc
    BY DEF FoundedPc, InlinePc
  <2> QED
    BY <1>1, <2>1, OthersElsewhere
<1>8. \A v \in Workers \ {w} : Founded(v)'
  BY <1>7 DEF Founded, FoundedPc
<1>9. Founded(w)'
  BY <1>1, <1>4, <1>6 DEF Founded
<1> QED
  BY <1>4, <1>5, <1>6, <1>8, <1>9 DEF Messages, PushedOnce

LEMMA InlineMessages ==
  ASSUME MessageTypes, PrepOnce, Messages, NEW w \in Workers, InlineStep(w)
  PROVE  Messages'
<1>1. PlaceType /\ MessagesStay
  BY InlineFrame DEF MessageTypes, MessagesStay, dbVars, queues, handlerVars
<1>2. UNCHANGED <<manifest, failMark>>
  BY InlineFrame
<1>3. CASE InlineMark(w)
  BY <1>3, InlineMarksOnce
<1>4. CASE StartInline(w)
  <2>1. /\ wrk[w].pc = "p_totals" /\ nBatches > 0 /\ total' = nBatches /\ MarksKept
        /\ \A v \in Workers \ {w} : wrk'[v] = wrk[v]
    BY <1>1, <1>4 DEF StartInline, Inline, SetJobChunkTotals, MarksKept, PlaceType, Worker
  <2>2. manifest /\ Fresh
    BY <2>1 DEF Messages, PushedOnce, Founded
  <2> QED
    BY <1>1, <1>2, <2>1, <2>2, WorkerFounded
<1>5. CASE ~InlineMark(w) /\ ~StartInline(w)
  <2>1. UNCHANGED total /\ MarksKept
    BY <1>2, <1>5
    DEF InlineStep, InlineAcquire, InlineDone, InlineGathered, InlineFails, InlineWrite,
        InlineIncr, InlineSchedule, counterVars, redis, MarksKept
  <2>2. /\ wrk[w].pc \in InlinePc /\ \A v \in Workers \ {w} : wrk'[v] = wrk[v]
        /\ wrk'[w].pc \in InlinePc \cup {"p_except", "p_claim", "p_reread", "exit"}
    <3>1. CASE InlineFails(w) \/ InlineWrite(w) \/ InlineSchedule(w)
      BY <1>1, <3>1, GoAsMoves
      DEF InlineFails, InlineWrite, InlineSchedule, Returned, Finished, Go, InlinePc
    <3>2. CASE InlineIncr(w)
      BY <1>1, <3>2, NextInlineMoves DEF InlineIncr, InlinePc
    <3>3. CASE InlineGathered(w)
      BY <1>1, <3>3 DEF InlineGathered, PlaceType, Worker, InlinePc
    <3>4. CASE \E b \in Batches : InlineAcquire(w, b) \/ InlineDone(w, b)
      BY <1>1, <3>4 DEF InlineAcquire, InlineDone, PlaceType, Worker, InlinePc
    <3> QED
      BY <1>5, <3>1, <3>2, <3>3, <3>4 DEF InlineStep
  <2>3. manifest /\ total = nBatches /\ nBatches > 0 /\ Open = {} /\ failMark = {}
    BY <2>2 DEF Messages, PushedOnce, Founded
  <2>4. wrk'[w].pc \notin {"p_totals", "p_push"}
    BY <2>2 DEF InlinePc
  <2>5. Founded(w)'
    BY <1>1, <1>2, <2>1, <2>3, <2>4, OpenStays DEF Founded, MessagesStay
  <2> QED
    BY <1>1, <1>2, <2>1, <2>2, <2>5, WorkerMovesOn
<1> QED
  BY <1>3, <1>4, <1>5

LEMMA FinalizeMessages ==
  ASSUME MessageTypes, Messages, NEW w \in Workers, FinalizeStep(w)
  PROVE  Messages'
<1>1. PlaceType
  BY DEF MessageTypes
<1>2. MessagesStay /\ MarksKept /\ UNCHANGED <<manifest, total>>
  BY DEF FinalizeStep, FinalizeLoad, FinalizeLock, FinalizeFails, FinalizeTooEarly, FinalizeReady,
    Merge, Charge, FinalizeExcept, ReleaseFinalize, MessagesStay, MarksKept, job, dbVars, fileVars,
    redis, counterVars, queues, env, handlerVars
<1>3. wrk'[w].pc \notin FoundedPc /\ \A v \in Workers \ {w} : wrk'[v] = wrk[v]
  <2>1. CASE FinalizeLoad(w)
    BY <1>1, <2>1 DEF FinalizeLoad, Load, PlaceType, Worker, IdleWorker, FoundedPc, InlinePc
  <2>2. CASE ~FinalizeLoad(w)
    BY <1>1, <2>2, GoAsMoves
    DEF FinalizeStep, FinalizeLock, FinalizeFails, FinalizeTooEarly, FinalizeReady, Merge,
        Charge, FinalizeExcept, ReleaseFinalize, Go, FoundedPc, InlinePc
  <2> QED
    BY <2>1, <2>2
<1> QED
  BY <1>2, <1>3, WorkerElsewhere

\* A step that moves no message, sets no marker and moves no worker to prepare.
LEMMA MessagesKept ==
  ASSUME Messages, MessagesStay, MarksKept, UNCHANGED <<manifest, total, wrk>>
  PROVE  Messages'
<1>1. OneMessage' /\ Open' = Open
  BY OpenStays DEF Messages
<1>2. Decided'
  BY <1>1, DecidedKept DEF Messages
<1>3. PushedOnce'
  BY <1>1, PushedKept DEF Messages, MessagesStay
<1> QED
  BY <1>1, <1>2, <1>3 DEF Messages

LEMMA LoopMessages ==
  ASSUME MessageTypes, Messages, NEW w \in Workers,
         TakeJob(w) \/ JobReturns(w) \/ RetryThreadRuns(w)
  PROVE  Messages'
<1>1. PlaceType
  BY DEF MessageTypes
<1>2. MessagesStay /\ MarksKept /\ UNCHANGED <<manifest, total>>
  BY DEF TakeJob, JobReturns, RetryThreadRuns, MessagesStay, MarksKept, job, dbVars, fileVars,
    redis, counterVars, queues, env, handlerVars
<1>3. CASE TakeJob(w) \/ JobReturns(w)
  <2>1. wrk'[w].pc \notin FoundedPc /\ \A v \in Workers \ {w} : wrk'[v] = wrk[v]
    BY <1>1, <1>3, GoAsMoves DEF TakeJob, JobReturns, Go, FoundedPc, InlinePc
  <2> QED
    BY <1>2, <2>1, WorkerElsewhere
<1>4. CASE RetryThreadRuns(w)
  BY <1>2, <1>4, MessagesKept DEF RetryThreadRuns
<1> QED
  BY <1>3, <1>4

LEMMA RqFaultMessages ==
  ASSUME Calm, MessageTypes, Messages, RqTasksFault
  PROVE  Messages'
<1>1. PlaceType
  BY DEF MessageTypes
<1>2. ASSUME NEW w \in Workers, ParseRaises(w) \/ FinalizeRaises(w) \/ HorseDies(w)
      PROVE  Messages'
  <2>1. MessagesStay /\ MarksKept /\ UNCHANGED <<manifest, total>>
    BY <1>2 DEF ParseRaises, FinalizeRaises, HorseDies, MessagesStay, MarksKept, job, dbVars,
      fileVars, redis, counterVars, queues, handlerVars
  <2>2. wrk'[w].pc \notin FoundedPc /\ \A v \in Workers \ {w} : wrk'[v] = wrk[v]
    <3>1. CASE ParseRaises(w) \/ FinalizeRaises(w)
      BY <1>1, <3>1, GoAsMoves DEF ParseRaises, FinalizeRaises, Go, FoundedPc, InlinePc
    <3>2. CASE HorseDies(w)
      BY <1>1, <3>2 DEF HorseDies, PlaceType, IdleWorker, FoundedPc, InlinePc
    <3> QED
      BY <1>2, <3>1, <3>2
  <2> QED
    BY <2>1, <2>2, WorkerElsewhere
<1>3. ASSUME FinLockExpires PROVE Messages'
  BY <1>3, MessagesKept
  DEF FinLockExpires, MessagesStay, MarksKept, job, dbVars, fileVars, counterVars, queues, env,
      handlerVars, workerVars
<1>4. ~ \E w \in Workers :
          \/ PrepareRaises(w) \/ InlineRaises(w) \/ RepairRaises(w)
          \/ PushReplyLost(w) \/ ClaimReplyLost(w) \/ EnqueueReplyLost(w)
          \/ FinalizeEscapes(w) \/ ReleaseRaises(w) \/ RetryThreadRaises(w)
  BY DEF Calm, Fault, PrepareRaises, InlineRaises, RepairRaises, PushReplyLost,
    ClaimReplyLost, EnqueueReplyLost, FinalizeEscapes, ReleaseRaises, RetryThreadRaises
<1> QED
  BY <1>2, <1>3, <1>4 DEF RqTasksFault

-----------------------------------------------------------------------------
(* The theorem *)

LEMMA NextMessages ==
  ASSUME ConstantsOK, Calm, TypeOK, Baton, Messages, [Next]_vars
  PROVE  Messages'
<1>1. MessageTypes /\ PrepOnce
  BY MessageTypesHold DEF Baton
<1>2. ASSUME NEW h \in Handlers, HandlerStep(h) PROVE Messages'
  <2>1. UNCHANGED <<nBatches, manifest, total, wrk>>
    <3>1. CASE Take(h)
      BY <3>1 DEF Take, frame, dbVars, counterVars, workerVars
    <3>2. CASE ~Take(h)
      <4>1. UNCHANGED <<nBatches, manifest, wrk>>
        BY <1>2, <3>2, HandlerFrame DEF dbVars, workerVars
      <4>2. UNCHANGED total
        BY <1>2, <3>2
        DEF HandlerStep, CheckOutput, AcquireLock, LockBusy, ReadManifest, AcquireSlot,
            TranslateReturns, TranslateRaises, FinishWrite, MarkCompleted, IncrDone, ReleaseSlot,
            RequeueAttempt, GiveUp, MarkFailed, IncrFailed, ReleaseLock, Schedule, ClaimFinalize,
            EnqueueFinalize, counterVars
      <4> QED
        BY <4>1, <4>2
    <3> QED
      BY <3>1, <3>2
  <2> QED
    BY <1>1, <1>2, <2>1, HandlerMessages, PushedKept DEF Messages
<1>3. ASSUME NEW p \in Procs, Pop(p) PROVE Messages'
  <2>1. UNCHANGED <<nBatches, manifest, total, wrk>> /\ MarksKept
    BY <1>3 DEF Pop, frame, dbVars, counterVars, workerVars, MarksKept
  <2> QED
    BY <1>1, <1>3, <2>1, PopMessages, DecidedKept, PushedKept DEF Messages
<1>4. ASSUME ChunkWorkerFault PROVE Messages'
  <2>1. UNCHANGED <<nBatches, manifest, wrk>>
    BY <1>4
    DEF ChunkWorkerFault, WorkRaises, ReplyLost, Swallowed, HandlerEscapes, ProcKilled,
        ChunkLockExpires, Stop, frame, dbVars, workerVars
  <2>2. UNCHANGED total
    BY <1>4
    DEF ChunkWorkerFault, WorkRaises, ReplyLost, Swallowed, HandlerEscapes, ProcKilled,
        ChunkLockExpires, Stop, counterVars
  <2> QED
    BY <1>1, <1>4, <2>1, <2>2, WorkerFaultMessages, PushedKept DEF Messages
<1>5. ASSUME Resubmit \/ UNCHANGED vars PROVE Messages'
  BY <1>5, MessagesKept
  DEF Resubmit, vars, MessagesStay, MarksKept, dbVars, fileVars, counterVars, queues, handlerVars,
      workerVars
<1>6. ~Cleanup
  BY DEF Calm, Cleanup, Fault
<1> QED
  BY <1>1, <1>2, <1>3, <1>4, <1>5, <1>6, PrepareMessages, InlineMessages, FinalizeMessages,
    LoopMessages, RqFaultMessages
  DEF Next, System, WorkerStep

LEMMA InitMessages == Init => Messages
<1> SUFFICES ASSUME Init PROVE Messages
  OBVIOUS
<1>1. /\ chunkQueue = <<>> /\ doneMark = {} /\ failMark = {}
      /\ \A p \in Procs : workQueue[p] = <<>>
      /\ \A h \in Handlers : hnd[h].pc = "idle"
      /\ \A w \in Workers : wrk[w].pc = "idle"
  BY DEF Init, IdleHandler, IdleWorker
<1>2. /\ \A b : ~InMsgs(chunkQueue, b)
      /\ \A b : \A p \in Procs : ~InMsgs(workQueue[p], b)
      /\ \A b : \A h \in Handlers : ~Carries(h, b)
  BY <1>1, NoMsgs DEF Carries, CarryPc
<1>3. OneMessage /\ Fresh
  BY <1>1, <1>2, NoMsgs DEF OneMessage, Fresh, Open
<1>4. Decided
  BY <1>3 DEF Decided, Fresh, BatchDecidedOnce
<1>5. PushedOnce
  BY <1>1, <1>3 DEF PushedOnce, Founded, InlinePc
<1> QED
  BY <1>3, <1>4, <1>5 DEF Messages

\* As long as Redis neither fails nor loses an answer and no job's files are removed,
\* whatever else happens (killed workers, expired locks, retries, uploads of the
\* document again): no batch is ever marked both completed and failed.
THEOREM BatchesDecidedOnce ==
  ASSUME "redis" \notin FaultKinds, "reply" \notin FaultKinds, "cleanup" \notin FaultKinds
  PROVE  Spec => []BatchDecidedOnce
<1>1. Init => Token /\ Baton /\ Rereads /\ Unfinished /\ Messages
  BY InitToken, InitBaton, InitMessages
<1>2. TypeOK /\ Token /\ Baton /\ Rereads /\ Unfinished /\ Messages /\ [Next]_vars
        => Token' /\ Baton' /\ Rereads' /\ Unfinished' /\ Messages'
  BY ConstantsOK, NextToken, NextBaton, NextRereads, NextMessages DEF Calm
<1>3. Messages => BatchDecidedOnce
  BY DEF Messages, Decided
<1> QED
  BY <1>1, <1>2, <1>3, TypeCorrect, PTL DEF Spec
=============================================================================
