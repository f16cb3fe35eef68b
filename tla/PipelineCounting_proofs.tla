----------------------- MODULE PipelineCounting_proofs -----------------------
(***************************************************************************)
(* What the batch counters of ChunkPipeline mean, for every value of the   *)
(* constants: a counter never runs ahead of its markers (NeverOverCounted, *)
(* inductive beside TypeOK), so a job gets past the checks of finalize     *)
(* only when every batch is marked (NoPartialCompletion, inductive beside  *)
(* both).                                                                  *)
(***************************************************************************)
EXTENDS PipelineSafety_proofs

-----------------------------------------------------------------------------
(* Finite sets *)

LEMMA MarksFinite ==
  ASSUME NEW n \in Nat, NEW S \in SUBSET (0 .. n - 1)
  PROVE  IsFiniteSet(S) /\ Cardinality(S) \in Nat
<1>1. 0 \in Int /\ n - 1 \in Int
  OBVIOUS
<1>2. IsFiniteSet(0 .. n - 1)
  BY <1>1, FS_Interval
<1> QED
  BY <1>2, FS_Subset, FS_CardinalityType

LEMMA IncrsFinite ==
  ASSUME ConstantsOK
  PROVE  /\ IsFiniteSet(DoneIncrs) /\ IsFiniteSet(FailIncrs) /\ IsFiniteSet(InlineIncrs)
         /\ Cardinality(DoneIncrs) \in Nat /\ Cardinality(FailIncrs) \in Nat
         /\ Cardinality(InlineIncrs) \in Nat
<1>1. DoneIncrs \subseteq Handlers /\ FailIncrs \subseteq Handlers /\ InlineIncrs \subseteq Workers
  BY DEF DoneIncrs, FailIncrs, InlineIncrs
<1> QED
  BY <1>1, FS_Subset, FS_CardinalityType DEF ConstantsOK

\* The two halves of NeverOverCounted.
DoneCounted == done + Cardinality(DoneIncrs) + Cardinality(InlineIncrs) <= Cardinality(doneMark)
FailCounted == failed + Cardinality(FailIncrs) <= Cardinality(failMark)

\* The types both halves need, now and after the step.
CountTypes ==
  /\ nBatches \in Nat /\ done \in Nat /\ failed \in Nat
  /\ doneMark \subseteq 0 .. nBatches - 1 /\ failMark \subseteq 0 .. nBatches - 1

LEMMA CountTypesHold == TypeOK /\ ConstantsOK => CountTypes
BY DEF TypeOK, RowType, CounterType, CountTypes, Batches, ConstantsOK

-----------------------------------------------------------------------------
(* A step that starts no INCR, loses no marker and counts nothing *)

LEMMA DoneKept ==
  ASSUME ConstantsOK, CountTypes, CountTypes', DoneCounted, done' \in {done, 0},
         doneMark \subseteq doneMark', DoneIncrs' \subseteq DoneIncrs,
         InlineIncrs' \subseteq InlineIncrs
  PROVE  DoneCounted'
<1>1. IsFiniteSet(doneMark') /\ Cardinality(doneMark') \in Nat /\ Cardinality(doneMark) \in Nat
  BY MarksFinite DEF CountTypes
<1>2. Cardinality(doneMark) <= Cardinality(doneMark')
  BY <1>1, FS_Subset
<1>3. /\ Cardinality(DoneIncrs') <= Cardinality(DoneIncrs)
      /\ Cardinality(InlineIncrs') <= Cardinality(InlineIncrs)
      /\ IsFiniteSet(DoneIncrs') /\ IsFiniteSet(InlineIncrs')
  BY IncrsFinite, FS_Subset
<1>4. Cardinality(DoneIncrs') \in Nat /\ Cardinality(InlineIncrs') \in Nat
  BY <1>3, FS_CardinalityType
<1>5. Cardinality(DoneIncrs) \in Nat /\ Cardinality(InlineIncrs) \in Nat
  BY IncrsFinite
<1> QED
  BY <1>1, <1>2, <1>3, <1>4, <1>5 DEF DoneCounted, CountTypes

LEMMA FailKept ==
  ASSUME ConstantsOK, CountTypes, CountTypes', FailCounted, failed' \in {failed, 0},
         failMark \subseteq failMark', FailIncrs' \subseteq FailIncrs
  PROVE  FailCounted'
<1>1. IsFiniteSet(failMark') /\ Cardinality(failMark') \in Nat /\ Cardinality(failMark) \in Nat
  BY MarksFinite DEF CountTypes
<1>2. Cardinality(failMark) <= Cardinality(failMark')
  BY <1>1, FS_Subset
<1>3. Cardinality(FailIncrs') <= Cardinality(FailIncrs) /\ IsFiniteSet(FailIncrs')
  BY IncrsFinite, FS_Subset
<1>4. Cardinality(FailIncrs') \in Nat
  BY <1>3, FS_CardinalityType
<1>5. Cardinality(FailIncrs) \in Nat
  BY IncrsFinite
<1> QED
  BY <1>1, <1>2, <1>3, <1>4, <1>5 DEF FailCounted, CountTypes

-----------------------------------------------------------------------------
(* A marker is set, and the INCR it allows is begun, ... *)

LEMMA DoneMarked ==
  ASSUME ConstantsOK, CountTypes, CountTypes', DoneCounted, UNCHANGED done,
         NEW b, b \notin doneMark, doneMark' = doneMark \cup {b},
         \/ /\ \E h : DoneIncrs' = DoneIncrs \cup {h}
            /\ InlineIncrs' = InlineIncrs
         \/ /\ \E w : InlineIncrs' = InlineIncrs \cup {w}
            /\ DoneIncrs' = DoneIncrs
  PROVE  DoneCounted'
<1>1. IsFiniteSet(doneMark) /\ Cardinality(doneMark) \in Nat
  BY MarksFinite DEF CountTypes
<1>2. Cardinality(doneMark') = Cardinality(doneMark) + 1
  BY <1>1, FS_AddElement
<1>3. IsFiniteSet(DoneIncrs) /\ Cardinality(DoneIncrs) \in Nat
  BY IncrsFinite
<1>4. IsFiniteSet(InlineIncrs) /\ Cardinality(InlineIncrs) \in Nat
  BY IncrsFinite
<1>5. CASE (\E h : DoneIncrs' = DoneIncrs \cup {h}) /\ InlineIncrs' = InlineIncrs
  <2>1. PICK h : DoneIncrs' = DoneIncrs \cup {h}
    BY <1>5
  <2>2. \/ Cardinality(DoneIncrs') = Cardinality(DoneIncrs)
        \/ Cardinality(DoneIncrs') = Cardinality(DoneIncrs) + 1
    BY <1>3, <2>1, FS_AddElement
  <2>3. Cardinality(InlineIncrs') = Cardinality(InlineIncrs)
    BY <1>5
  <2> QED
    BY <1>1, <1>2, <1>3, <1>4, <2>2, <2>3 DEF DoneCounted, CountTypes
<1>6. CASE (\E w : InlineIncrs' = InlineIncrs \cup {w}) /\ DoneIncrs' = DoneIncrs
  <2>1. PICK w : InlineIncrs' = InlineIncrs \cup {w}
    BY <1>6
  <2>2. \/ Cardinality(InlineIncrs') = Cardinality(InlineIncrs)
        \/ Cardinality(InlineIncrs') = Cardinality(InlineIncrs) + 1
    BY <1>4, <2>1, FS_AddElement
  <2>3. Cardinality(DoneIncrs') = Cardinality(DoneIncrs)
    BY <1>6
  <2> QED
    BY <1>1, <1>2, <1>3, <1>4, <2>2, <2>3 DEF DoneCounted, CountTypes
<1> QED
  BY <1>5, <1>6

LEMMA FailMarked ==
  ASSUME ConstantsOK, CountTypes, CountTypes', FailCounted, UNCHANGED failed,
         NEW b, b \notin failMark, failMark' = failMark \cup {b},
         NEW h, FailIncrs' = FailIncrs \cup {h}
  PROVE  FailCounted'
<1>1. IsFiniteSet(failMark) /\ Cardinality(failMark) \in Nat
  BY MarksFinite DEF CountTypes
<1>2. Cardinality(failMark') = Cardinality(failMark) + 1
  BY <1>1, FS_AddElement
<1>3. IsFiniteSet(FailIncrs) /\ Cardinality(FailIncrs) \in Nat
  BY IncrsFinite
<1>4. \/ Cardinality(FailIncrs') = Cardinality(FailIncrs)
      \/ Cardinality(FailIncrs') = Cardinality(FailIncrs) + 1
  BY <1>3, FS_AddElement
<1> QED
  BY <1>1, <1>2, <1>3, <1>4 DEF FailCounted, CountTypes

\* ... and the INCR is done.
LEMMA DoneCountedUp ==
  ASSUME ConstantsOK, CountTypes, DoneCounted, done' = done + 1, UNCHANGED doneMark,
         \/ /\ \E h \in DoneIncrs : DoneIncrs' = DoneIncrs \ {h}
            /\ InlineIncrs' = InlineIncrs
         \/ /\ \E w \in InlineIncrs : InlineIncrs' = InlineIncrs \ {w}
            /\ DoneIncrs' = DoneIncrs
  PROVE  DoneCounted'
<1>1. Cardinality(doneMark) \in Nat /\ Cardinality(doneMark') = Cardinality(doneMark)
  BY MarksFinite DEF CountTypes
<1>2. IsFiniteSet(DoneIncrs) /\ Cardinality(DoneIncrs) \in Nat
  BY IncrsFinite
<1>3. IsFiniteSet(InlineIncrs) /\ Cardinality(InlineIncrs) \in Nat
  BY IncrsFinite
<1>4. CASE (\E h \in DoneIncrs : DoneIncrs' = DoneIncrs \ {h}) /\ InlineIncrs' = InlineIncrs
  <2>1. Cardinality(DoneIncrs') = Cardinality(DoneIncrs) - 1
    BY <1>2, <1>4, FS_RemoveElement
  <2>2. Cardinality(InlineIncrs') = Cardinality(InlineIncrs)
    BY <1>4
  <2> QED
    BY <1>1, <1>2, <1>3, <2>1, <2>2 DEF DoneCounted, CountTypes
<1>5. CASE (\E w \in InlineIncrs : InlineIncrs' = InlineIncrs \ {w}) /\ DoneIncrs' = DoneIncrs
  <2>1. Cardinality(InlineIncrs') = Cardinality(InlineIncrs) - 1
    BY <1>3, <1>5, FS_RemoveElement, ZenonT(60)
  <2>2. Cardinality(DoneIncrs') = Cardinality(DoneIncrs)
    BY <1>5
  <2> QED
    BY <1>1, <1>2, <1>3, <2>1, <2>2 DEF DoneCounted, CountTypes
<1> QED
  BY <1>4, <1>5

LEMMA FailCountedUp ==
  ASSUME ConstantsOK, CountTypes, FailCounted, failed' = failed + 1, UNCHANGED failMark,
         NEW h \in FailIncrs, FailIncrs' = FailIncrs \ {h}
  PROVE  FailCounted'
<1>1. Cardinality(failMark) \in Nat /\ Cardinality(failMark') = Cardinality(failMark)
  BY MarksFinite DEF CountTypes
<1>2. IsFiniteSet(FailIncrs) /\ Cardinality(FailIncrs) \in Nat
  BY IncrsFinite
<1>3. Cardinality(FailIncrs') = Cardinality(FailIncrs) - 1
  BY <1>2, FS_RemoveElement
<1> QED
  BY <1>1, <1>2, <1>3 DEF FailCounted, CountTypes

-----------------------------------------------------------------------------
(* The steps of the handlers *)

\* Handler h moves and nobody else does, ...
LEMMA GotoAsMoves ==
  ASSUME HandlerType, NEW h \in Handlers, NEW from, NEW to, NEW ctx, GotoAs(h, from, to, ctx)
  PROVE  /\ hnd[h].pc = from /\ hnd'[h].pc = to
         /\ \A g \in Handlers \ {h} : hnd'[g] = hnd[g]
BY DEF HandlerType, GotoAs, Handler, IdleHandler

\* ... so a move to a place without INCR begins none, ...
LEMMA HandlerLeaves ==
  ASSUME NEW h \in Handlers, \A g \in Handlers \ {h} : hnd'[g] = hnd[g],
         hnd'[h].pc \notin {"incr", "incr_failed"}
  PROVE  DoneIncrs' = DoneIncrs \ {h} /\ FailIncrs' = FailIncrs \ {h}
BY DEF DoneIncrs, FailIncrs

\* ... and one to an INCR begins just this one.
LEMMA HandlerBegins ==
  ASSUME NEW h \in Handlers, \A g \in Handlers \ {h} : hnd'[g] = hnd[g],
         hnd[h].pc \notin {"incr", "incr_failed"}
  PROVE  /\ hnd'[h].pc = "incr" => DoneIncrs' = DoneIncrs \cup {h} /\ FailIncrs' = FailIncrs
         /\ hnd'[h].pc = "incr_failed" =>
               FailIncrs' = FailIncrs \cup {h} /\ DoneIncrs' = DoneIncrs
BY DEF DoneIncrs, FailIncrs

LEMMA AfterScheduleNoIncr ==
  ASSUME HandlerType, NEW h \in Handlers
  PROVE  AfterSchedule(h) \notin {"incr", "incr_failed"}
BY DEF HandlerType, Handler, AfterSchedule

\* A step of a handler that neither sets a marker nor counts.
Uncounted(h) ==
  \/ Take(h) \/ CheckOutput(h) \/ AcquireLock(h) \/ LockBusy(h) \/ ReadManifest(h)
  \/ AcquireSlot(h) \/ TranslateReturns(h) \/ TranslateRaises(h) \/ FinishWrite(h)
  \/ ReleaseSlot(h) \/ RequeueAttempt(h) \/ GiveUp(h) \/ ReleaseLock(h) \/ Schedule(h)
  \/ ClaimFinalize(h) \/ EnqueueFinalize(h)

LEMMA UncountedMoves ==
  ASSUME HandlerType, NEW h \in Handlers, Uncounted(h)
  PROVE  /\ \A g \in Handlers \ {h} : hnd'[g] = hnd[g]
         /\ hnd'[h].pc \notin {"incr", "incr_failed"}
         /\ UNCHANGED <<counterVars, wrk>>
<1>1. UNCHANGED <<counterVars, wrk>>
  BY DEF Uncounted, Take, CheckOutput, AcquireLock, LockBusy, ReadManifest, AcquireSlot,
    TranslateReturns, TranslateRaises, FinishWrite, ReleaseSlot, RequeueAttempt, GiveUp,
    ReleaseLock, Schedule, ClaimFinalize, EnqueueFinalize, frame, workerVars
<1>2. CASE Take(h)
  BY <1>1, <1>2 DEF Take, HandlerType
<1>3. CASE ~Take(h)
  BY <1>1, <1>3, GotoAsMoves, AfterScheduleNoIncr
  DEF Uncounted, CheckOutput, AcquireLock, LockBusy, ReadManifest, AcquireSlot,
    TranslateReturns, TranslateRaises, FinishWrite, ReleaseSlot, RequeueAttempt, GiveUp,
    ReleaseLock, Schedule, ClaimFinalize, EnqueueFinalize, Goto
<1> QED
  BY <1>2, <1>3

LEMMA HandlerStepCounts ==
  ASSUME ConstantsOK, HandlerType, CountTypes, CountTypes', DoneCounted, FailCounted,
         NEW h \in Handlers, HandlerStep(h)
  PROVE  DoneCounted' /\ FailCounted'
<1>1. CASE Uncounted(h)
  <2>1. /\ DoneIncrs' \subseteq DoneIncrs /\ FailIncrs' \subseteq FailIncrs
        /\ UNCHANGED <<counterVars, wrk>>
    BY <1>1, UncountedMoves, HandlerLeaves
  <2>2. InlineIncrs' = InlineIncrs /\ UNCHANGED <<done, failed, doneMark, failMark>>
    BY <2>1 DEF InlineIncrs, counterVars
  <2> QED
    BY <2>1, <2>2, DoneKept, FailKept
<1>2. CASE MarkCompleted(h)
  <2>1. /\ UNCHANGED <<done, failed, failMark>> /\ InlineIncrs' = InlineIncrs
        /\ doneMark' = doneMark \cup {Batch(h)}
    BY <1>2 DEF MarkCompleted, frame, workerVars, InlineIncrs
  <2>2. /\ hnd[h].pc = "mark" /\ \A g \in Handlers \ {h} : hnd'[g] = hnd[g]
        /\ hnd'[h].pc = IF Batch(h) \in doneMark THEN "sched" ELSE "incr"
    BY <1>2, GotoAsMoves DEF MarkCompleted, Goto
  <2>3. CASE Batch(h) \in doneMark
    <3>1. DoneIncrs' \subseteq DoneIncrs /\ FailIncrs' \subseteq FailIncrs
      BY <2>2, <2>3, HandlerLeaves
    <3> QED
      BY <2>1, <3>1, DoneKept, FailKept
  <2>4. CASE Batch(h) \notin doneMark
    <3>1. DoneIncrs' = DoneIncrs \cup {h} /\ FailIncrs' = FailIncrs
      BY <2>2, <2>4, HandlerBegins
    <3>2. DoneCounted'
      BY <2>1, <2>4, <3>1, DoneMarked
    <3>3. FailCounted'
      BY <2>1, <3>1, FailKept
    <3> QED
      BY <3>2, <3>3
  <2> QED
    BY <2>3, <2>4
<1>3. CASE IncrDone(h)
  <2>1. /\ done' = done + 1 /\ UNCHANGED <<failed, doneMark, failMark>>
        /\ InlineIncrs' = InlineIncrs
    BY <1>3 DEF IncrDone, frame, workerVars, InlineIncrs
  <2>2. /\ hnd[h].pc = "incr" /\ \A g \in Handlers \ {h} : hnd'[g] = hnd[g]
        /\ hnd'[h].pc = "sched"
    BY <1>3, GotoAsMoves DEF IncrDone, Goto
  <2>3. DoneIncrs' = DoneIncrs \ {h} /\ FailIncrs' \subseteq FailIncrs
    BY <2>2, HandlerLeaves
  <2>4. h \in DoneIncrs
    BY <2>2 DEF DoneIncrs
  <2>5. DoneCounted'
    BY <2>1, <2>3, <2>4, DoneCountedUp
  <2>6. FailCounted'
    BY <2>1, <2>3, FailKept
  <2> QED
    BY <2>5, <2>6
<1>4. CASE MarkFailed(h)
  <2>1. /\ UNCHANGED <<done, failed, doneMark>> /\ InlineIncrs' = InlineIncrs
        /\ failMark' = failMark \cup {Batch(h)}
    BY <1>4 DEF MarkFailed, frame, workerVars, InlineIncrs
  <2>2. /\ hnd[h].pc = "mark_failed" /\ \A g \in Handlers \ {h} : hnd'[g] = hnd[g]
        /\ hnd'[h].pc = IF Batch(h) \in failMark THEN "sched" ELSE "incr_failed"
    BY <1>4, GotoAsMoves DEF MarkFailed, Goto
  <2>3. CASE Batch(h) \in failMark
    <3>1. DoneIncrs' \subseteq DoneIncrs /\ FailIncrs' \subseteq FailIncrs
      BY <2>2, <2>3, HandlerLeaves
    <3> QED
      BY <2>1, <3>1, DoneKept, FailKept
  <2>4. CASE Batch(h) \notin failMark
    <3>1. FailIncrs' = FailIncrs \cup {h} /\ DoneIncrs' = DoneIncrs
      BY <2>2, <2>4, HandlerBegins
    <3>2. DoneCounted'
      BY <2>1, <3>1, DoneKept
    <3>3. FailCounted'
      BY <2>1, <2>4, <3>1, FailMarked
    <3> QED
      BY <3>2, <3>3
  <2> QED
    BY <2>3, <2>4
<1>5. CASE IncrFailed(h)
  <2>1. /\ failed' = failed + 1 /\ UNCHANGED <<done, doneMark, failMark>>
        /\ InlineIncrs' = InlineIncrs
    BY <1>5 DEF IncrFailed, frame, workerVars, InlineIncrs
  <2>2. /\ hnd[h].pc = "incr_failed" /\ \A g \in Handlers \ {h} : hnd'[g] = hnd[g]
        /\ hnd'[h].pc = "sched"
    BY <1>5, GotoAsMoves DEF IncrFailed, Goto
  <2>3. FailIncrs' = FailIncrs \ {h} /\ DoneIncrs' \subseteq DoneIncrs
    BY <2>2, HandlerLeaves
  <2>4. h \in FailIncrs
    BY <2>2 DEF FailIncrs
  <2>5. FailCounted'
    BY <2>1, <2>3, <2>4, FailCountedUp
  <2>6. DoneCounted'
    BY <2>1, <2>3, DoneKept
  <2> QED
    BY <2>5, <2>6
<1> QED
  BY <1>1, <1>2, <1>3, <1>4, <1>5 DEF HandlerStep, Uncounted

-----------------------------------------------------------------------------
(* The steps of the RQ workers *)

LEMMA WorkerLeaves ==
  ASSUME NEW w \in Workers, \A v \in Workers \ {w} : wrk'[v] = wrk[v],
         wrk'[w].pc # "i_incr"
  PROVE  InlineIncrs' = InlineIncrs \ {w}
BY DEF InlineIncrs

LEMMA WorkerBegins ==
  ASSUME NEW w \in Workers, \A v \in Workers \ {w} : wrk'[v] = wrk[v],
         wrk'[w].pc = "i_incr"
  PROVE  InlineIncrs' = InlineIncrs \cup {w}
BY DEF InlineIncrs

LEMMA HandlersAtRest == UNCHANGED hnd => DoneIncrs' = DoneIncrs /\ FailIncrs' = FailIncrs
BY DEF DoneIncrs, FailIncrs

LEMMA NextInlineMoves ==
  ASSUME PlaceType, NEW w \in Workers, NEW from, NextInline(w, from)
  PROVE  /\ wrk[w].pc = from /\ wrk'[w].pc \in {"i_write", "i_sched"}
         /\ \A v \in Workers \ {w} : wrk'[v] = wrk[v]
BY DEF PlaceType, NextInline, Worker

\* A worker that marks and counts nothing, and at most sets the counters to zero.
LEMMA QuietWorkerCounts ==
  ASSUME ConstantsOK, CountTypes, CountTypes', DoneCounted, FailCounted, NEW w \in Workers,
         \A v \in Workers \ {w} : wrk'[v] = wrk[v], wrk'[w].pc # "i_incr",
         UNCHANGED <<hnd, doneMark, failMark>>, done' \in {done, 0}, failed' \in {failed, 0}
  PROVE  DoneCounted' /\ FailCounted'
<1>1. /\ InlineIncrs' \subseteq InlineIncrs
      /\ DoneIncrs' \subseteq DoneIncrs /\ FailIncrs' \subseteq FailIncrs
  BY WorkerLeaves, HandlersAtRest
<1> QED
  BY <1>1, DoneKept, FailKept

LEMMA PrepareCounts ==
  ASSUME ConstantsOK, PlaceType, CountTypes, CountTypes', DoneCounted, FailCounted,
         NEW w \in Workers, PrepareStep(w)
  PROVE  DoneCounted' /\ FailCounted'
<1>1. /\ \A v \in Workers \ {w} : wrk'[v] = wrk[v]
      /\ wrk'[w].pc # "i_incr"
  <2>1. CASE PrepareLoad(w)
    BY <2>1 DEF PrepareLoad, Load, PlaceType, Worker, IdleWorker
  <2>2. CASE ~PrepareLoad(w)
    BY <2>2, GoAsMoves
    DEF PrepareStep, PrepareMark, Parse, SkipPrepared, RepairQueue, BuildManifest, SetTotals,
        PushMessages, ClaimEmpty, EnqueueEmpty, ReadAgain, ReadAgainRaises, PrepareExcept,
        Returned, Finished, AfterClaim, Go
  <2> QED
    BY <2>1, <2>2
<1>2. UNCHANGED <<hnd, doneMark, failMark>>
  BY PrepareFrame DEF handlerVars
<1>3. done' \in {done, 0} /\ failed' \in {failed, 0}
  BY DEF PrepareStep, PrepareLoad, PrepareMark, Parse, SkipPrepared, RepairQueue,
    BuildManifest, SetTotals, PushMessages, ClaimEmpty, EnqueueEmpty, ReadAgain,
    ReadAgainRaises, PrepareExcept, Returned, Finished, AfterClaim,
    SetJobChunkTotals, redis, counterVars
<1> QED
  BY <1>1, <1>2, <1>3, QuietWorkerCounts

LEMMA InlineCounts ==
  ASSUME ConstantsOK, PlaceType, CountTypes, CountTypes', DoneCounted, FailCounted,
         NEW w \in Workers, InlineStep(w)
  PROVE  DoneCounted' /\ FailCounted'
<1>1. UNCHANGED <<hnd, failMark>>
  BY InlineFrame DEF handlerVars
<1>2. DoneIncrs' = DoneIncrs /\ FailIncrs' = FailIncrs
  BY <1>1, HandlersAtRest
<1>3. CASE InlineMark(w)
  <2>1. /\ UNCHANGED <<done, failed, failMark>>
        /\ doneMark' = doneMark \cup {wrk[w].at}
    BY <1>3 DEF InlineMark
  <2>2. FailCounted'
    BY <1>2, <2>1, FailKept
  <2>3. CASE wrk[w].at \in doneMark
    <3>1. InlineIncrs' \subseteq InlineIncrs
      BY <1>3, <2>3, NextInlineMoves, WorkerLeaves DEF InlineMark
    <3> QED
      BY <1>2, <2>1, <2>2, <3>1, DoneKept
  <2>4. CASE wrk[w].at \notin doneMark
    <3>1. InlineIncrs' = InlineIncrs \cup {w}
      BY <1>3, <2>4, GoAsMoves, WorkerBegins DEF InlineMark, Go
    <3> QED
      BY <1>2, <2>1, <2>2, <2>4, <3>1, DoneMarked
  <2> QED
    BY <2>3, <2>4
<1>4. CASE InlineIncr(w)
  <2>1. done' = done + 1 /\ UNCHANGED <<failed, doneMark, failMark>>
    BY <1>4 DEF InlineIncr
  <2>2. /\ wrk[w].pc = "i_incr" /\ \A v \in Workers \ {w} : wrk'[v] = wrk[v]
        /\ wrk'[w].pc # "i_incr"
    BY <1>4, NextInlineMoves DEF InlineIncr
  <2>3. w \in InlineIncrs /\ InlineIncrs' = InlineIncrs \ {w}
    BY <2>2, WorkerLeaves DEF InlineIncrs
  <2>4. DoneCounted'
    BY <1>2, <2>1, <2>3, DoneCountedUp
  <2>5. FailCounted'
    BY <1>2, <2>1, FailKept
  <2> QED
    BY <2>4, <2>5
<1>5. CASE InlineFails(w) \/ InlineWrite(w) \/ InlineSchedule(w)
  <2>1. /\ \A v \in Workers \ {w} : wrk'[v] = wrk[v]
        /\ wrk'[w].pc # "i_incr"
    BY <1>5, GoAsMoves DEF InlineFails, InlineWrite, InlineSchedule, Returned, Finished, Go
  <2>2. UNCHANGED <<done, failed, doneMark>>
    BY <1>5 DEF InlineFails, InlineWrite, InlineSchedule, redis, counterVars
  <2> QED
    BY <1>1, <2>1, <2>2, QuietWorkerCounts
<1>6. CASE \/ StartInline(w) \/ InlineGathered(w)
           \/ \E b \in Batches : InlineAcquire(w, b) \/ InlineDone(w, b)
  <2>1. /\ \A v \in Workers \ {w} : wrk'[v] = wrk[v]
        /\ wrk'[w].pc # "i_incr"
    BY <1>6, ZenonT(60) DEF StartInline, InlineGathered, InlineAcquire, InlineDone, PlaceType, Worker
  <2>2. UNCHANGED doneMark /\ done' \in {done, 0} /\ failed' \in {failed, 0}
    BY <1>6 DEF StartInline, InlineGathered, InlineAcquire, InlineDone, SetJobChunkTotals,
      redis, counterVars
  <2> QED
    BY <1>1, <2>1, <2>2, QuietWorkerCounts
<1> QED
  BY <1>3, <1>4, <1>5, <1>6 DEF InlineStep

LEMMA FinalizeCounts ==
  ASSUME ConstantsOK, PlaceType, CountTypes, CountTypes', DoneCounted, FailCounted,
         NEW w \in Workers, FinalizeStep(w) \/ TakeJob(w) \/ JobReturns(w)
  PROVE  DoneCounted' /\ FailCounted'
<1>1. /\ \A v \in Workers \ {w} : wrk'[v] = wrk[v]
      /\ wrk'[w].pc # "i_incr"
  <2>1. CASE FinalizeLoad(w)
    BY <2>1 DEF FinalizeLoad, Load, PlaceType, Worker, IdleWorker
  <2>2. CASE ~FinalizeLoad(w)
    BY <2>2, GoAsMoves
    DEF FinalizeStep, FinalizeLock, FinalizeFails, FinalizeTooEarly, FinalizeReady, Merge,
        Charge, FinalizeExcept, ReleaseFinalize, TakeJob, JobReturns, Go
  <2> QED
    BY <2>1, <2>2
<1>2. UNCHANGED <<hnd, done, failed, doneMark, failMark>>
  BY DEF FinalizeStep, FinalizeLoad, FinalizeLock, FinalizeFails, FinalizeTooEarly,
    FinalizeReady, Merge, Charge, FinalizeExcept, ReleaseFinalize, TakeJob, JobReturns,
    redis, counterVars, env, handlerVars
<1> QED
  BY <1>1, <1>2, QuietWorkerCounts

-----------------------------------------------------------------------------
(* The faults *)

LEMMA RqFaultCounts ==
  ASSUME ConstantsOK, PlaceType, CountTypes, CountTypes', DoneCounted, FailCounted,
         RqTasksFault
  PROVE  DoneCounted' /\ FailCounted'
<1>1. UNCHANGED <<hnd, done, failed, doneMark, failMark>>
  BY DEF RqTasksFault, ParseRaises, PrepareRaises, InlineRaises, RepairRaises, PushReplyLost,
    ClaimReplyLost, EnqueueReplyLost, FinalizeRaises, FinalizeEscapes, ReleaseRaises,
    RetryThreadRaises, HorseDies, FinLockExpires, redis, counterVars, env, handlerVars
<1>2. InlineIncrs' \subseteq InlineIncrs
  <2>1. ASSUME NEW w \in Workers,
               \/ ParseRaises(w) \/ PrepareRaises(w) \/ InlineRaises(w) \/ RepairRaises(w)
               \/ PushReplyLost(w) \/ ClaimReplyLost(w) \/ EnqueueReplyLost(w)
               \/ FinalizeRaises(w) \/ FinalizeEscapes(w)
        PROVE  InlineIncrs' \subseteq InlineIncrs
    <3>1. /\ \A v \in Workers \ {w} : wrk'[v] = wrk[v]
          /\ wrk'[w].pc # "i_incr"
      BY <2>1, GoAsMoves
      DEF ParseRaises, PrepareRaises, InlineRaises, RepairRaises, PushReplyLost,
          ClaimReplyLost, EnqueueReplyLost, FinalizeRaises, FinalizeEscapes, Returned,
          Finished, Go
    <3> QED
      BY <3>1, WorkerLeaves
  <2>2. ASSUME NEW w \in Workers, ReleaseRaises(w) PROVE InlineIncrs' \subseteq InlineIncrs
    <3>1. CASE Go(w, "f_release", "exit")
      BY <3>1, GoAsMoves, WorkerLeaves DEF Go
    <3>2. CASE \E b \in wrk[w].live : wrk' = [wrk EXCEPT ![w].live = @ \ {b}]
      BY <3>2 DEF PlaceType, Worker, InlineIncrs
    <3> QED
      BY <2>2, <3>1, <3>2 DEF ReleaseRaises
  <2>3. ASSUME NEW w \in Workers, HorseDies(w) PROVE InlineIncrs' \subseteq InlineIncrs
    BY <2>3 DEF HorseDies, PlaceType, IdleWorker, InlineIncrs
  <2>4. ASSUME (\E w \in Workers : RetryThreadRaises(w)) \/ FinLockExpires
        PROVE  InlineIncrs' \subseteq InlineIncrs
    BY <2>4 DEF RetryThreadRaises, FinLockExpires, workerVars, InlineIncrs
  <2> QED
    BY <2>1, <2>2, <2>3, <2>4 DEF RqTasksFault
<1> QED
  BY <1>1, <1>2, HandlersAtRest, DoneKept, FailKept

LEMMA StopIncrs ==
  ASSUME HandlerType, NEW p \in Procs, Stop(p)
  PROVE  /\ DoneIncrs' \subseteq DoneIncrs /\ FailIncrs' \subseteq FailIncrs
         /\ InlineIncrs' = InlineIncrs /\ UNCHANGED <<done, failed, doneMark, failMark>>
BY DEF Stop, IdleHandler, DoneIncrs, FailIncrs, InlineIncrs, frame, workerVars, counterVars

LEMMA WorkerFaultCounts ==
  ASSUME ConstantsOK, HandlerType, CountTypes, CountTypes', DoneCounted, FailCounted,
         ChunkWorkerFault
  PROVE  DoneCounted' /\ FailCounted'
<1>1. ASSUME NEW h \in Handlers, WorkRaises(h) \/ ReplyLost(h) \/ Swallowed(h)
      PROVE  DoneCounted' /\ FailCounted'
  <2>1. /\ \A g \in Handlers \ {h} : hnd'[g] = hnd[g]
        /\ hnd'[h].pc \notin {"incr", "incr_failed"}
    BY <1>1, GotoAsMoves, AfterScheduleNoIncr DEF WorkRaises, ReplyLost, Swallowed, Raises, Goto
  <2>2. DoneIncrs' = DoneIncrs \ {h} /\ FailIncrs' \subseteq FailIncrs
    BY <2>1, HandlerLeaves
  <2>3. InlineIncrs' = InlineIncrs /\ UNCHANGED <<failed, failMark>>
    BY <1>1 DEF WorkRaises, ReplyLost, Swallowed, frame, workerVars, counterVars, InlineIncrs
  <2>4. FailCounted'
    BY <2>2, <2>3, FailKept
  <2>5. \/ done' = done /\ doneMark \subseteq doneMark'
        \/ done' = done + 1 /\ doneMark' = doneMark /\ Raises(h, "incr")
    BY <1>1 DEF WorkRaises, ReplyLost, Swallowed, counterVars
  <2>6. CASE done' = done /\ doneMark \subseteq doneMark'
    BY <2>2, <2>3, <2>4, <2>6, DoneKept
  <2>7. CASE done' = done + 1 /\ doneMark' = doneMark /\ Raises(h, "incr")
    <3>1. h \in DoneIncrs
      BY <2>7 DEF Raises, Goto, GotoAs, DoneIncrs
    <3> QED
      BY <2>2, <2>3, <2>4, <2>7, <3>1, DoneCountedUp
  <2> QED
    BY <2>5, <2>6, <2>7
<1>2. ASSUME NEW p \in Procs, Stop(p) PROVE DoneCounted' /\ FailCounted'
  BY <1>2, StopIncrs, DoneKept, FailKept
<1>3. ASSUME NEW h \in Handlers, HandlerEscapes(h) PROVE DoneCounted' /\ FailCounted'
  <2>1. ProcOf[h] \in Procs /\ Stop(ProcOf[h])
    BY <1>3 DEF ConstantsOK, HandlerEscapes
  <2> QED
    BY <1>2, <2>1
<1>4. ASSUME NEW p \in Procs, ProcKilled(p) PROVE DoneCounted' /\ FailCounted'
  BY <1>2, <1>4 DEF ProcKilled
<1>5. ASSUME NEW b \in Batches, ChunkLockExpires(b) PROVE DoneCounted' /\ FailCounted'
  <2>1. UNCHANGED <<hnd, wrk, done, failed, doneMark, failMark>>
    BY <1>5 DEF ChunkLockExpires, frame, workerVars, counterVars
  <2>2. InlineIncrs' = InlineIncrs
    BY <2>1 DEF InlineIncrs
  <2> QED
    BY <2>1, <2>2, HandlersAtRest, DoneKept, FailKept
<1> QED
  BY <1>1, <1>3, <1>4, <1>5 DEF ChunkWorkerFault

-----------------------------------------------------------------------------
(* The theorems *)

\* What moves nobody who counts.
LEMMA OthersCount ==
  ASSUME ConstantsOK, CountTypes, CountTypes', DoneCounted, FailCounted,
         \/ \E p \in Procs : Pop(p)
         \/ \E w \in Workers : RetryThreadRuns(w)
         \/ Resubmit \/ Cleanup \/ UNCHANGED vars
  PROVE  DoneCounted' /\ FailCounted'
<1>1. UNCHANGED <<hnd, wrk, done, failed, doneMark, failMark>>
  BY DEF Pop, RetryThreadRuns, Resubmit, Cleanup, vars, frame, handlerVars, workerVars,
    counterVars, env
<1>2. InlineIncrs' = InlineIncrs
  BY <1>1 DEF InlineIncrs
<1> QED
  BY <1>1, <1>2, HandlersAtRest, DoneKept, FailKept

LEMMA NextCounts ==
  ASSUME ConstantsOK, TypeOK, NeverOverCounted, [Next]_vars PROVE NeverOverCounted'
<1>1. CountTypes /\ HandlerType /\ PlaceType
  BY CountTypesHold DEF TypeOK, WorkerType, PlaceType
<1>2. CountTypes'
  <2>1. TypeOK'
    BY NextType
  <2>2. nBatches' \in 0 .. MaxBatches
    BY <2>1 DEF TypeOK, RowType
  <2>3. /\ done' \in Nat /\ failed' \in Nat
        /\ doneMark' \subseteq Batches' /\ failMark' \subseteq Batches'
    BY <2>1 DEF TypeOK, CounterType
  <2>4. nBatches' \in Nat
    BY <2>2 DEF ConstantsOK
  <2> QED
    BY <2>3, <2>4 DEF CountTypes, Batches
<1>3. DoneCounted /\ FailCounted
  BY DEF NeverOverCounted, DoneCounted, FailCounted
<1>4. DoneCounted' /\ FailCounted'
  BY <1>1, <1>2, <1>3, OthersCount, HandlerStepCounts, PrepareCounts, InlineCounts,
    FinalizeCounts, RqFaultCounts, WorkerFaultCounts
  DEF Next, System, WorkerStep
<1> QED
  BY <1>4 DEF NeverOverCounted, DoneCounted, FailCounted

LEMMA InitCounts == ASSUME ConstantsOK, Init PROVE NeverOverCounted
<1>1. DoneIncrs = {} /\ FailIncrs = {} /\ InlineIncrs = {} /\ doneMark = {} /\ failMark = {}
  BY DEF Init, IdleHandler, IdleWorker, DoneIncrs, FailIncrs, InlineIncrs
<1>2. Cardinality({}) = 0
  BY FS_EmptySet
<1>3. done = 0 /\ failed = 0
  BY DEF Init
<1> QED
  BY <1>1, <1>2, <1>3 DEF NeverOverCounted

\* However the messages of a job are duplicated, retried or lost, whatever resets
\* its counters, and wherever a process ends: no counter exceeds what was marked.
THEOREM CountersAreBounded == Spec => []NeverOverCounted
<1>1. Init => NeverOverCounted
  BY InitCounts, ConstantsOK
<1>2. TypeOK /\ NeverOverCounted /\ [Next]_vars => NeverOverCounted'
  BY NextCounts, ConstantsOK
<1> QED
  BY <1>1, <1>2, TypeCorrect, PTL DEF Spec

-----------------------------------------------------------------------------
(* A job completes only with every batch marked *)

PastChecks ==
  status = "completed" \/ \E w \in Workers : wrk[w].pc \in {"f_merge", "f_charge"}

\* Only the check of the counters lets a worker past it, ...
LEMMA ReadyIsMarked ==
  ASSUME ConstantsOK, TypeOK, NeverOverCounted, NEW w \in Workers, FinalizeReady(w)
  PROVE  doneMark = Batches
<1>1. /\ nBatches \in Nat /\ done \in Nat /\ doneMark \subseteq Batches
      /\ failed = 0 /\ ~(nBatches > 0 /\ done + failed < nBatches)
  BY BatchesFinite DEF TypeOK, CounterType, FinalizeReady, ChunksPending
<1>2. done >= nBatches
  BY <1>1
<1>3. /\ Cardinality(DoneIncrs) \in Nat /\ Cardinality(InlineIncrs) \in Nat
      /\ IsFiniteSet(doneMark) /\ Cardinality(doneMark) \in Nat
  BY <1>1, IncrsFinite, MarksFinite DEF Batches
<1>4. nBatches <= Cardinality(doneMark)
  BY <1>1, <1>2, <1>3 DEF NeverOverCounted
<1>5. IsFiniteSet(Batches) /\ Cardinality(Batches) = nBatches
  <2>1. 0 \in Int /\ nBatches - 1 \in Int
    BY <1>1
  <2>2. Cardinality(Batches) = IF 0 > nBatches - 1 THEN 0 ELSE (nBatches - 1) - 0 + 1
    BY <2>1, FS_Interval DEF Batches
  <2> QED
    BY <1>1, <2>1, <2>2, FS_Interval DEF Batches
<1>6. Cardinality(doneMark) <= Cardinality(Batches)
  BY <1>1, <1>5, FS_Subset
<1>7. Cardinality(doneMark) = Cardinality(Batches)
  BY <1>1, <1>3, <1>4, <1>5, <1>6
<1> QED
  BY <1>1, <1>5, <1>7, FS_Subset

\* ... and no status but that of the charge completes the job.
LEMMA SetStatusKeeps ==
  ASSUME NEW w \in Workers, NEW s, s # "completed", status # "completed", SetStatus(w, s)
  PROVE  status' # "completed"
BY DEF SetStatus

LEMMA RetryOrFailKeeps ==
  ASSUME NEW w \in Workers, NEW rqJob, NEW tried, RetryOrFail(w, rqJob, tried)
  PROVE  status' # "completed"
BY DEF RetryOrFail

\* A worker that moves somewhere else lets nobody past the checks.
LEMMA MoveStaysBefore ==
  ASSUME ~PastChecks, NEW w \in Workers, \A v \in Workers \ {w} : wrk'[v] = wrk[v],
         wrk'[w].pc \notin {"f_merge", "f_charge"}, status' # "completed"
  PROVE  ~PastChecks'
BY DEF PastChecks

LEMMA PrepareStaysBefore ==
  ASSUME PlaceType, ~PastChecks, NEW w \in Workers, PrepareStep(w)
  PROVE  ~PastChecks'
<1>1. /\ \A v \in Workers \ {w} : wrk'[v] = wrk[v]
      /\ wrk'[w].pc \notin {"f_merge", "f_charge"}
  <2>1. CASE PrepareLoad(w)
    BY <2>1 DEF PrepareLoad, Load, PlaceType, Worker, IdleWorker
  <2>2. CASE ~PrepareLoad(w)
    BY <2>2, GoAsMoves
    DEF PrepareStep, PrepareMark, Parse, SkipPrepared, RepairQueue, BuildManifest, SetTotals,
        PushMessages, ClaimEmpty, EnqueueEmpty, ReadAgain, ReadAgainRaises, PrepareExcept,
        Returned, Finished, AfterClaim, Go
  <2> QED
    BY <2>1, <2>2
<1>2. status # "completed"
  BY DEF PastChecks
<1>3. status' # "completed"
  BY <1>2, SetStatusKeeps, RetryOrFailKeeps
  DEF PrepareStep, PrepareLoad, PrepareMark, Parse, SkipPrepared, RepairQueue, BuildManifest,
      SetTotals, PushMessages, ClaimEmpty, EnqueueEmpty, ReadAgain, ReadAgainRaises,
      PrepareExcept, Returned, Finished, AfterClaim, job, dbVars
<1> QED
  BY <1>1, <1>3, MoveStaysBefore

LEMMA InlineStaysBefore ==
  ASSUME PlaceType, ~PastChecks, NEW w \in Workers, InlineStep(w)
  PROVE  ~PastChecks'
<1>1. status' # "completed"
  BY InlineFrame DEF PastChecks, dbVars
<1>2. CASE InlineMark(w) \/ InlineIncr(w)
  <2>1. /\ \A v \in Workers \ {w} : wrk'[v] = wrk[v]
        /\ wrk'[w].pc \notin {"f_merge", "f_charge"}
    BY <1>2, GoAsMoves, NextInlineMoves DEF InlineMark, InlineIncr, Go
  <2> QED
    BY <1>1, <2>1, MoveStaysBefore
<1>3. CASE InlineFails(w) \/ InlineWrite(w) \/ InlineSchedule(w)
  <2>1. /\ \A v \in Workers \ {w} : wrk'[v] = wrk[v]
        /\ wrk'[w].pc \notin {"f_merge", "f_charge"}
    BY <1>3, GoAsMoves DEF InlineFails, InlineWrite, InlineSchedule, Returned, Finished, Go
  <2> QED
    BY <1>1, <2>1, MoveStaysBefore
<1>4. CASE \/ StartInline(w) \/ InlineGathered(w)
           \/ \E b \in Batches : InlineAcquire(w, b) \/ InlineDone(w, b)
  <2>1. /\ \A v \in Workers \ {w} : wrk'[v] = wrk[v]
        /\ wrk'[w].pc \notin {"f_merge", "f_charge"}
    <3>1. CASE StartInline(w)
      BY <3>1 DEF StartInline, PlaceType, Worker
    <3>2. CASE InlineGathered(w)
      BY <3>2 DEF InlineGathered, PlaceType, Worker
    <3>3. CASE \E b \in Batches : InlineAcquire(w, b) \/ InlineDone(w, b)
      BY <3>3 DEF InlineAcquire, InlineDone, PlaceType, Worker
    <3> QED
      BY <1>4, <3>1, <3>2, <3>3
  <2> QED
    BY <1>1, <2>1, MoveStaysBefore
<1> QED
  BY <1>2, <1>3, <1>4 DEF InlineStep

LEMMA FinalizeStaysBefore ==
  ASSUME PlaceType, ~PastChecks, NEW w \in Workers,
         FinalizeStep(w) \/ TakeJob(w) \/ JobReturns(w), ~FinalizeReady(w)
  PROVE  ~PastChecks'
<1>1. status # "completed" /\ wrk[w].pc \notin {"f_merge", "f_charge"}
  BY DEF PastChecks
<1>2. ~Merge(w) /\ ~Charge(w)
  BY <1>1, GoAsMoves DEF Merge, Charge, Go
<1>3. /\ \A v \in Workers \ {w} : wrk'[v] = wrk[v]
      /\ wrk'[w].pc \notin {"f_merge", "f_charge"}
  <2>1. CASE FinalizeLoad(w)
    BY <2>1 DEF FinalizeLoad, Load, PlaceType, Worker, IdleWorker
  <2>2. CASE ~FinalizeLoad(w)
    BY <1>2, <2>2, GoAsMoves
    DEF FinalizeStep, FinalizeLock, FinalizeFails, FinalizeTooEarly, FinalizeExcept,
        ReleaseFinalize, TakeJob, JobReturns, Go
  <2> QED
    BY <2>1, <2>2
<1>4. status' # "completed"
  BY <1>1, <1>2, SetStatusKeeps, RetryOrFailKeeps
  DEF FinalizeStep, FinalizeLoad, FinalizeLock, FinalizeFails, FinalizeTooEarly,
      FinalizeExcept, ReleaseFinalize, TakeJob, JobReturns, job, dbVars
<1> QED
  BY <1>3, <1>4, MoveStaysBefore

LEMMA RqFaultStaysBefore ==
  ASSUME PlaceType, ~PastChecks, RqTasksFault
  PROVE  ~PastChecks'
<1>1. status' # "completed"
  BY DEF PastChecks, RqTasksFault, ParseRaises, PrepareRaises, InlineRaises, RepairRaises,
    PushReplyLost, ClaimReplyLost, EnqueueReplyLost, FinalizeRaises, FinalizeEscapes,
    ReleaseRaises, RetryThreadRaises, HorseDies, FinLockExpires, job, dbVars
<1>2. ASSUME NEW w \in Workers,
             \/ ParseRaises(w) \/ PrepareRaises(w) \/ InlineRaises(w) \/ RepairRaises(w)
             \/ PushReplyLost(w) \/ ClaimReplyLost(w) \/ EnqueueReplyLost(w)
             \/ FinalizeRaises(w) \/ FinalizeEscapes(w)
      PROVE  ~PastChecks'
  <2>1. /\ \A v \in Workers \ {w} : wrk'[v] = wrk[v]
        /\ wrk'[w].pc \notin {"f_merge", "f_charge"}
    BY <1>2, GoAsMoves
    DEF ParseRaises, PrepareRaises, InlineRaises, RepairRaises, PushReplyLost,
        ClaimReplyLost, EnqueueReplyLost, FinalizeRaises, FinalizeEscapes, Returned,
        Finished, Go
  <2> QED
    BY <1>1, <2>1, MoveStaysBefore
<1>3. ASSUME NEW w \in Workers, ReleaseRaises(w) \/ HorseDies(w) PROVE ~PastChecks'
  <2>1. /\ \A v \in Workers \ {w} : wrk'[v] = wrk[v]
        /\ wrk'[w].pc \notin {"f_merge", "f_charge"}
    <3>1. CASE Go(w, "f_release", "exit")
      BY <3>1, GoAsMoves DEF Go
    <3>2. CASE wrk[w].pc = "i_translate"
               /\ \E b \in wrk[w].live : wrk' = [wrk EXCEPT ![w].live = @ \ {b}]
      BY <3>2 DEF PlaceType, Worker
    <3>3. CASE HorseDies(w)
      BY <3>3 DEF HorseDies, PlaceType, IdleWorker
    <3> QED
      BY <1>3, <3>1, <3>2, <3>3 DEF ReleaseRaises
  <2> QED
    BY <1>1, <2>1, MoveStaysBefore
<1>4. ASSUME (\E w \in Workers : RetryThreadRaises(w)) \/ FinLockExpires PROVE ~PastChecks'
  BY <1>1, <1>4 DEF RetryThreadRaises, FinLockExpires, workerVars, PastChecks
<1> QED
  BY <1>2, <1>3, <1>4 DEF RqTasksFault

\* Whoever is no RQ worker moves none and completes nothing.
LEMMA OthersStayBefore ==
  ASSUME ~PastChecks,
         \/ \E p \in Procs : Pop(p)
         \/ \E h \in Handlers : HandlerStep(h)
         \/ \E w \in Workers : RetryThreadRuns(w)
         \/ ChunkWorkerFault \/ Resubmit \/ Cleanup \/ UNCHANGED vars
  PROVE  ~PastChecks'
<1>1. wrk' = wrk /\ status' \in {status, "pending"}
  <2>1. ASSUME NEW h \in Handlers, HandlerStep(h) PROVE UNCHANGED <<wrk, status>>
    BY <2>1, HandlerFrame DEF Take, frame, workerVars, dbVars
  <2>2. ASSUME ChunkWorkerFault PROVE UNCHANGED <<wrk, status>>
    BY <2>2
    DEF ChunkWorkerFault, WorkRaises, ReplyLost, Swallowed, HandlerEscapes, ProcKilled,
        ChunkLockExpires, Stop, frame, workerVars, dbVars
  <2>3. ASSUME \/ \E p \in Procs : Pop(p)
               \/ \E w \in Workers : RetryThreadRuns(w)
               \/ Resubmit \/ Cleanup \/ UNCHANGED vars
        PROVE  wrk' = wrk /\ status' \in {status, "pending"}
    BY <2>3
    DEF Pop, RetryThreadRuns, Resubmit, Cleanup, vars, frame, workerVars, dbVars, job
  <2> QED
    BY <2>1, <2>2, <2>3
<1> QED
  BY <1>1 DEF PastChecks

\* Markers only come: nothing takes one away, and a document keeps its batches.
LEMMA MarksStay ==
  ASSUME [Next]_vars PROVE UNCHANGED nBatches /\ doneMark \subseteq doneMark'
<1>1. ASSUME NEW h \in Handlers, HandlerStep(h)
      PROVE  UNCHANGED nBatches /\ doneMark \subseteq doneMark'
  BY <1>1
  DEF HandlerStep, Take, CheckOutput, AcquireLock, LockBusy, ReadManifest, AcquireSlot,
      TranslateReturns, TranslateRaises, FinishWrite, MarkCompleted, IncrDone, ReleaseSlot,
      RequeueAttempt, GiveUp, MarkFailed, IncrFailed, ReleaseLock, Schedule, ClaimFinalize,
      EnqueueFinalize, frame, dbVars, counterVars
<1>2. ASSUME ChunkWorkerFault PROVE UNCHANGED nBatches /\ doneMark \subseteq doneMark'
  BY <1>2
  DEF ChunkWorkerFault, WorkRaises, ReplyLost, Swallowed, HandlerEscapes, ProcKilled,
      ChunkLockExpires, Stop, frame, dbVars, counterVars
<1>3. ASSUME NEW w \in Workers, InlineStep(w)
      PROVE  UNCHANGED nBatches /\ doneMark \subseteq doneMark'
  BY <1>3, InlineFrame
  DEF InlineStep, StartInline, InlineAcquire, InlineDone, InlineGathered, InlineFails,
      InlineWrite, InlineMark, InlineIncr, InlineSchedule, dbVars, redis, counterVars
<1>4. ASSUME NEW w \in Workers, PrepareStep(w)
      PROVE  UNCHANGED nBatches /\ doneMark \subseteq doneMark'
  BY <1>4, PrepareFrame
<1>5. ASSUME NEW w \in Workers, FinalizeStep(w) \/ TakeJob(w) \/ JobReturns(w)
      PROVE  UNCHANGED nBatches /\ doneMark \subseteq doneMark'
  BY <1>5
  DEF FinalizeStep, FinalizeLoad, FinalizeLock, FinalizeFails, FinalizeTooEarly,
      FinalizeReady, Merge, Charge, FinalizeExcept, ReleaseFinalize, TakeJob, JobReturns,
      job, dbVars, redis, counterVars
<1>6. ASSUME RqTasksFault PROVE UNCHANGED nBatches /\ doneMark \subseteq doneMark'
  BY <1>6
  DEF RqTasksFault, ParseRaises, PrepareRaises, InlineRaises, RepairRaises, PushReplyLost,
      ClaimReplyLost, EnqueueReplyLost, FinalizeRaises, FinalizeEscapes, ReleaseRaises,
      RetryThreadRaises, HorseDies, FinLockExpires, job, dbVars, redis, counterVars
<1>7. ASSUME \/ \E p \in Procs : Pop(p)
             \/ \E w \in Workers : RetryThreadRuns(w)
             \/ Resubmit \/ Cleanup \/ UNCHANGED vars
      PROVE  UNCHANGED nBatches /\ doneMark \subseteq doneMark'
  BY <1>7
  DEF Pop, RetryThreadRuns, Resubmit, Cleanup, vars, frame, job, dbVars, counterVars
<1> QED
  BY <1>1, <1>2, <1>3, <1>4, <1>5, <1>6, <1>7 DEF Next, System, WorkerStep

LEMMA NextCompletes ==
  ASSUME ConstantsOK, TypeOK, NeverOverCounted, NoPartialCompletion, [Next]_vars
  PROVE  NoPartialCompletion'
<1>1. TypeOK' /\ PlaceType
  BY NextType DEF TypeOK, WorkerType, PlaceType
<1>2. Batches' = Batches /\ doneMark \subseteq doneMark' /\ doneMark' \subseteq Batches'
  BY <1>1, MarksStay DEF Batches, TypeOK, CounterType
<1>3. CASE doneMark = Batches
  BY <1>2, <1>3 DEF NoPartialCompletion
<1>4. CASE doneMark # Batches
  <2>1. ~PastChecks
    BY <1>4 DEF NoPartialCompletion, PastChecks
  <2>2. \A w \in Workers : ~FinalizeReady(w)
    BY <1>4, ReadyIsMarked
  <2>3. ~PastChecks'
    BY <1>1, <2>1, <2>2, PrepareStaysBefore, InlineStaysBefore, FinalizeStaysBefore,
      RqFaultStaysBefore, OthersStayBefore
    DEF Next, System, WorkerStep
  <2> QED
    BY <2>3 DEF NoPartialCompletion, PastChecks
<1> QED
  BY <1>3, <1>4

\* Whatever fails, is lost or comes twice, a job is completed, and the user charged,
\* only when each of its batches was translated.
THEOREM CompletionIsTotal == Spec => []NoPartialCompletion
<1>1. Init => NoPartialCompletion
  BY DEF Init, NoPartialCompletion, IdleWorker
<1>2. TypeOK /\ NeverOverCounted /\ NoPartialCompletion /\ [Next]_vars
        => NoPartialCompletion'
  BY NextCompletes, ConstantsOK
<1> QED
  BY <1>1, <1>2, TypeCorrect, CountersAreBounded, PTL DEF Spec
=============================================================================
