------------------------ MODULE PipelineSlots_proofs ------------------------
(***************************************************************************)
(* The global cap on calls of the OpenAI API, for every value of the       *)
(* constants: SlotsAccounted is inductive beside TypeOK and HandlerContext *)
(* (from which of its three call sites a handler runs                      *)
(* schedule_finalize_if_terminal, and so whether it holds a slot there).   *)
(* The locks of the batches come last: LocksHeld is inductive beside them. *)
(***************************************************************************)
EXTENDS PipelineCounting_proofs

\* A handler starts in the context of the idempotent path; the context of the last
\* attempt's failure is set before its marker is.
HandlerContext ==
  \A h \in Handlers :
    /\ hnd[h].pc = "check" => hnd[h].ctx = "skip"
    /\ hnd[h].pc \in {"mark_failed", "incr_failed"} => hnd[h].ctx = "fail"

-----------------------------------------------------------------------------
(* Finite sets of slots *)

LEMMA SlotsFinite ==
  ASSUME ConstantsOK, nBatches \in Nat
  PROVE  /\ IsFiniteSet(SlotHandlers) /\ Cardinality(SlotHandlers) \in Nat
         /\ IsFiniteSet(InlineSlots) /\ Cardinality(InlineSlots) \in Nat
<1>1. IsFiniteSet(Handlers) /\ IsFiniteSet(Workers)
  BY DEF ConstantsOK
<1>2. IsFiniteSet(Batches)
  <2>1. 0 \in Int /\ nBatches - 1 \in Int
    OBVIOUS
  <2> QED
    BY <2>1, FS_Interval DEF Batches
<1>3. IsFiniteSet(Workers \X Batches)
  BY <1>1, <1>2, FS_Product
<1>4. SlotHandlers \subseteq Handlers /\ InlineSlots \subseteq Workers \X Batches
  BY DEF SlotHandlers, InlineSlots
<1> QED
  BY <1>1, <1>3, <1>4, FS_Subset, FS_CardinalityType

LEMMA InSlots ==
  /\ \A v \in Workers, b \in Batches : <<v, b>> \in InlineSlots <=> b \in wrk[v].live
  /\ \A x \in InlineSlots : \E v \in Workers, b \in Batches : x = <<v, b>>
BY DEF InlineSlots

-----------------------------------------------------------------------------
(* Slots are given back: the counter falls by no more than what is given back *)

SlotTypes == nBatches \in Nat /\ inflight \in Nat

LEMMA SlotsReturned ==
  ASSUME ConstantsOK, SlotTypes, UNCHANGED nBatches, inflight' \in Nat, SlotsAccounted,
         NEW T \in SUBSET SlotHandlers, SlotHandlers' \subseteq SlotHandlers \ T,
         NEW U \in SUBSET InlineSlots, InlineSlots' \subseteq InlineSlots \ U,
         inflight - (Cardinality(T) + Cardinality(U)) <= inflight', inflight' <= InflightCap
  PROVE  SlotsAccounted'
<1>1. /\ IsFiniteSet(SlotHandlers) /\ Cardinality(SlotHandlers) \in Nat
      /\ IsFiniteSet(InlineSlots) /\ Cardinality(InlineSlots) \in Nat
  BY SlotsFinite DEF SlotTypes
<1>2. IsFiniteSet(T) /\ Cardinality(T) \in Nat /\ IsFiniteSet(U) /\ Cardinality(U) \in Nat
  BY <1>1, FS_Subset, FS_CardinalityType
<1>3. /\ IsFiniteSet(SlotHandlers \ T) /\ IsFiniteSet(InlineSlots \ U)
      /\ Cardinality(SlotHandlers \ T) = Cardinality(SlotHandlers) - Cardinality(T)
      /\ Cardinality(InlineSlots \ U) = Cardinality(InlineSlots) - Cardinality(U)
  <2>1. SlotHandlers \cap T = T /\ InlineSlots \cap U = U
    OBVIOUS
  <2> QED
    BY <1>1, <2>1, FS_Difference
<1>4. /\ IsFiniteSet(SlotHandlers') /\ Cardinality(SlotHandlers') <= Cardinality(SlotHandlers \ T)
      /\ IsFiniteSet(InlineSlots') /\ Cardinality(InlineSlots') <= Cardinality(InlineSlots \ U)
  BY <1>3, FS_Subset
<1>5. Cardinality(SlotHandlers') \in Nat /\ Cardinality(InlineSlots') \in Nat
  BY <1>4, FS_CardinalityType
<1>6. Cardinality(SlotHandlers) + Cardinality(InlineSlots) <= inflight
  BY DEF SlotsAccounted
<1>7. Cardinality(SlotHandlers') + Cardinality(InlineSlots') <= inflight'
  BY <1>1, <1>2, <1>3, <1>4, <1>5, <1>6 DEF SlotTypes
<1> QED
  BY <1>7 DEF SlotsAccounted

\* Nobody takes a slot, and the counter stays.
LEMMA SlotsKept ==
  ASSUME ConstantsOK, SlotTypes, UNCHANGED <<nBatches, inflight>>, SlotsAccounted,
         SlotHandlers' \subseteq SlotHandlers, InlineSlots' \subseteq InlineSlots
  PROVE  SlotsAccounted'
<1>1. {} \in SUBSET SlotHandlers /\ {} \in SUBSET InlineSlots
  OBVIOUS
<1>2. SlotHandlers' \subseteq SlotHandlers \ {} /\ InlineSlots' \subseteq InlineSlots \ {}
  OBVIOUS
<1>3. Cardinality({}) = 0
  BY FS_EmptySet
<1>4. /\ inflight' \in Nat /\ inflight' <= InflightCap
      /\ inflight - (Cardinality({}) + Cardinality({})) <= inflight'
  BY <1>3 DEF SlotTypes, SlotsAccounted
<1> QED
  BY <1>1, <1>2, <1>4, SlotsReturned

\* One actor takes one slot, and the counter goes up.
LEMMA SlotTaken ==
  ASSUME ConstantsOK, SlotTypes, UNCHANGED nBatches, SlotsAccounted, AcquireInflight,
         \/ /\ \E h : SlotHandlers' = SlotHandlers \cup {h}
            /\ InlineSlots' = InlineSlots
         \/ /\ \E x : InlineSlots' = InlineSlots \cup {x}
            /\ SlotHandlers' = SlotHandlers
  PROVE  SlotsAccounted'
<1>1. /\ IsFiniteSet(SlotHandlers) /\ Cardinality(SlotHandlers) \in Nat
      /\ IsFiniteSet(InlineSlots) /\ Cardinality(InlineSlots) \in Nat
  BY SlotsFinite DEF SlotTypes
<1>2. CASE (\E h : SlotHandlers' = SlotHandlers \cup {h}) /\ InlineSlots' = InlineSlots
  <2>1. \/ Cardinality(SlotHandlers') = Cardinality(SlotHandlers)
        \/ Cardinality(SlotHandlers') = Cardinality(SlotHandlers) + 1
    BY <1>1, <1>2, FS_AddElement
  <2>2. Cardinality(InlineSlots') = Cardinality(InlineSlots)
    BY <1>2
  <2> QED
    BY <1>1, <2>1, <2>2 DEF SlotsAccounted, AcquireInflight, SlotTypes, ConstantsOK
<1>3. CASE (\E x : InlineSlots' = InlineSlots \cup {x}) /\ SlotHandlers' = SlotHandlers
  <2>1. \/ Cardinality(InlineSlots') = Cardinality(InlineSlots)
        \/ Cardinality(InlineSlots') = Cardinality(InlineSlots) + 1
    BY <1>1, <1>3, FS_AddElement
  <2>2. Cardinality(SlotHandlers') = Cardinality(SlotHandlers)
    BY <1>3
  <2> QED
    BY <1>1, <2>1, <2>2 DEF SlotsAccounted, AcquireInflight, SlotTypes, ConstantsOK
<1> QED
  BY <1>2, <1>3

\* What the release script and a cancellation do to the counter.
LEMMA ReleaseFalls ==
  ASSUME SlotTypes, ConstantsOK, SlotsAccounted, ReleaseInflight(1)
  PROVE  inflight' \in Nat /\ inflight' <= InflightCap /\ inflight - 1 <= inflight'
BY DEF SlotTypes, ConstantsOK, SlotsAccounted, ReleaseInflight

LEMMA CancelFalls ==
  ASSUME SlotTypes, ConstantsOK, SlotsAccounted, NEW n \in Nat, NEW m \in Nat,
         CancelInflight(n, m)
  PROVE  inflight' \in Nat /\ inflight' <= InflightCap /\ inflight - n <= inflight'
<1>1. PICK orphans \in 0 .. m :
        /\ inflight + orphans <= InflightCap
        /\ inflight' = IF inflight + orphans > n THEN inflight + orphans - n ELSE 0
  BY DEF CancelInflight
<1> QED
  BY <1>1 DEF SlotTypes, ConstantsOK, SlotsAccounted

-----------------------------------------------------------------------------
(* The handlers *)

\* Where a move by GotoAs leads, and in which context.
LEMMA GotoAsPlace ==
  ASSUME HandlerType, NEW h \in Handlers, NEW from, NEW to, NEW ctx, GotoAs(h, from, to, ctx)
  PROVE  /\ hnd[h].pc = from /\ hnd'[h].pc = to
         /\ to # "idle" => hnd'[h].ctx = ctx
         /\ \A g \in Handlers \ {h} : hnd'[g] = hnd[g]
BY DEF HandlerType, GotoAs, Handler, IdleHandler

LEMMA GotoPlace ==
  ASSUME HandlerType, NEW h \in Handlers, NEW from, NEW to, Goto(h, from, to)
  PROVE  /\ hnd[h].pc = from /\ hnd'[h].pc = to
         /\ to # "idle" => hnd'[h].ctx = hnd[h].ctx
         /\ \A g \in Handlers \ {h} : hnd'[g] = hnd[g]
BY GotoAsPlace DEF Goto

LEMMA TakePlace ==
  ASSUME HandlerType, NEW h \in Handlers, Take(h)
  PROVE  /\ hnd'[h].pc = "check" /\ hnd'[h].ctx = "skip"
         /\ \A g \in Handlers \ {h} : hnd'[g] = hnd[g]
BY DEF HandlerType, Take

\* schedule_finalize_if_terminal returns to a place that holds a slot only from one
\* that does.
LEMMA AfterSchedulePlace ==
  ASSUME HandlerType, NEW h \in Handlers
  PROVE  /\ AfterSchedule(h) \in {"idle", "relslot", "rellock"}
         /\ AfterSchedule(h) = "relslot" <=> hnd[h].ctx = "ok"
BY DEF HandlerType, Handler, AfterSchedule

\* What one handler's move does to the set of those that hold a slot, ...
LEMMA MoveSlots ==
  ASSUME NEW h \in Handlers, \A g \in Handlers \ {h} : hnd'[g] = hnd[g]
  PROVE  /\ (HoldsSlot(h)' => HoldsSlot(h)) => SlotHandlers' \subseteq SlotHandlers
         /\ ~HoldsSlot(h)' => SlotHandlers' \subseteq SlotHandlers \ {h}
         /\ HoldsSlot(h)' => SlotHandlers' = SlotHandlers \cup {h}
BY DEF SlotHandlers, HoldsSlot

\* ... and to the contexts.
LEMMA MoveContext ==
  ASSUME HandlerContext, NEW h \in Handlers, \A g \in Handlers \ {h} : hnd'[g] = hnd[g],
         hnd'[h].pc = "check" => hnd'[h].ctx = "skip",
         hnd'[h].pc \in {"mark_failed", "incr_failed"} => hnd'[h].ctx = "fail"
  PROVE  HandlerContext'
BY DEF HandlerContext

Quiet(h) == HandlerStep(h) /\ ~AcquireSlot(h) /\ ~ReleaseSlot(h)

\* A step that neither acquires nor releases the slot does not come to hold one.
LEMMA QuietPlace ==
  ASSUME HandlerType, HandlerContext, NEW h \in Handlers, Quiet(h)
  PROVE  /\ HoldsSlot(h)' => HoldsSlot(h)
         /\ \A g \in Handlers \ {h} : hnd'[g] = hnd[g]
         /\ hnd'[h].pc = "check" => hnd'[h].ctx = "skip"
         /\ hnd'[h].pc \in {"mark_failed", "incr_failed"} => hnd'[h].ctx = "fail"
<1>1. CASE Take(h)
  BY <1>1, TakePlace DEF HoldsSlot
<1>2. CASE CheckOutput(h)
  <2>1. /\ hnd[h].pc = "check" /\ hnd'[h].pc \in {"mark", "lock"}
        /\ hnd'[h].ctx = hnd[h].ctx /\ \A g \in Handlers \ {h} : hnd'[g] = hnd[g]
    BY <1>2, GotoPlace DEF CheckOutput
  <2>2. hnd'[h].ctx = "skip"
    BY <2>1 DEF HandlerContext
  <2> QED
    BY <2>1, <2>2 DEF HoldsSlot
<1>3. CASE \/ AcquireLock(h) \/ LockBusy(h) \/ ReadManifest(h) \/ RequeueAttempt(h)
           \/ ReleaseLock(h)
  <2>1. /\ hnd'[h].pc \in {"manifest", "idle", "slot", "except", "rellock"}
        /\ \A g \in Handlers \ {h} : hnd'[g] = hnd[g]
    BY <1>3, GotoPlace DEF AcquireLock, LockBusy, ReadManifest, RequeueAttempt, ReleaseLock
  <2> QED
    BY <2>1 DEF HoldsSlot
<1>4. CASE GiveUp(h)
  <2>1. /\ hnd'[h].pc = "mark_failed" /\ hnd'[h].ctx = "fail"
        /\ \A g \in Handlers \ {h} : hnd'[g] = hnd[g]
    BY <1>4, GotoAsPlace DEF GiveUp
  <2> QED
    BY <2>1 DEF HoldsSlot
<1>5. CASE MarkFailed(h) \/ IncrFailed(h)
  <2>1. /\ hnd[h].pc \in {"mark_failed", "incr_failed"}
        /\ hnd'[h].pc \in {"incr_failed", "sched"} /\ hnd'[h].ctx = hnd[h].ctx
        /\ \A g \in Handlers \ {h} : hnd'[g] = hnd[g]
    BY <1>5, GotoPlace DEF MarkFailed, IncrFailed
  <2>2. hnd'[h].ctx = "fail"
    BY <2>1 DEF HandlerContext
  <2> QED
    BY <2>1, <2>2 DEF HoldsSlot
<1>6. CASE TranslateReturns(h) \/ TranslateRaises(h) \/ FinishWrite(h)
  <2>1. /\ hnd[h].pc \in {"translate", "write"} /\ hnd'[h].pc \in {"write", "abort", "mark"}
        /\ \A g \in Handlers \ {h} : hnd'[g] = hnd[g]
    BY <1>6, GotoPlace DEF TranslateReturns, TranslateRaises, FinishWrite
  <2> QED
    BY <2>1 DEF HoldsSlot
<1>7. CASE \/ MarkCompleted(h) \/ IncrDone(h) \/ Schedule(h) \/ ClaimFinalize(h)
           \/ EnqueueFinalize(h)
  <2>1. /\ hnd[h].pc \in {"mark", "incr", "sched", "claim", "enqueue"}
        /\ hnd'[h].pc \in {"incr", "sched", "claim", "enqueue", AfterSchedule(h)}
        /\ hnd'[h].pc # "idle" => hnd'[h].ctx = hnd[h].ctx
        /\ \A g \in Handlers \ {h} : hnd'[g] = hnd[g]
    BY <1>7, GotoPlace DEF MarkCompleted, IncrDone, Schedule, ClaimFinalize, EnqueueFinalize
  <2>2. CASE hnd'[h].pc \in {"incr", "sched", "claim", "enqueue"}
    BY <2>1, <2>2 DEF HoldsSlot
  <2>3. CASE hnd'[h].pc = AfterSchedule(h)
    BY <2>1, <2>3, AfterSchedulePlace DEF HoldsSlot
  <2> QED
    BY <2>1, <2>2, <2>3
<1> QED
  BY <1>1, <1>2, <1>3, <1>4, <1>5, <1>6, <1>7 DEF Quiet, HandlerStep

LEMMA InlineSlotsRest ==
  UNCHANGED <<nBatches, wrk>> => InlineSlots' = InlineSlots
BY DEF InlineSlots, Batches

LEMMA HandlerStepSlots ==
  ASSUME ConstantsOK, HandlerType, SlotTypes, HandlerContext, SlotsAccounted,
         NEW h \in Handlers, HandlerStep(h)
  PROVE  SlotsAccounted' /\ HandlerContext'
<1>1. UNCHANGED <<nBatches, wrk>> /\ InlineSlots' = InlineSlots
  <2>1. UNCHANGED <<nBatches, wrk>>
    BY HandlerFrame DEF Take, frame, workerVars, dbVars
  <2> QED
    BY <2>1, InlineSlotsRest
<1>2. CASE AcquireSlot(h)
  <2>1. /\ hnd'[h].pc = "translate" /\ \A g \in Handlers \ {h} : hnd'[g] = hnd[g]
        /\ AcquireInflight
    BY <1>2, GotoAsPlace DEF AcquireSlot
  <2>2. SlotHandlers' = SlotHandlers \cup {h}
    BY <2>1, MoveSlots DEF HoldsSlot
  <2>3. SlotsAccounted'
    BY <1>1, <2>1, <2>2, SlotTaken
  <2> QED
    BY <2>1, <2>3, MoveContext
<1>3. CASE ReleaseSlot(h)
  <2>1. /\ hnd[h].pc \in {"relslot", "abort"} /\ hnd'[h].pc \in {"rellock", "except"}
        /\ \A g \in Handlers \ {h} : hnd'[g] = hnd[g]
    BY <1>3, GotoPlace DEF ReleaseSlot
  <2>2. SlotHandlers' \subseteq SlotHandlers \ {h} /\ {h} \in SUBSET SlotHandlers
    BY <2>1, MoveSlots DEF HoldsSlot, SlotHandlers
  <2>3. Cardinality({h}) = 1 /\ Cardinality({}) = 0
    BY FS_Singleton, FS_EmptySet
  <2>4. ReleaseInflight(1)
    BY <1>3 DEF ReleaseSlot
  <2>5. inflight' \in Nat /\ inflight' <= InflightCap /\ inflight - 1 <= inflight'
    BY <2>4, ReleaseFalls
  <2>6. inflight - (Cardinality({h}) + Cardinality({})) <= inflight'
    BY <2>3, <2>5
  <2>7. InlineSlots' \subseteq InlineSlots \ {} /\ {} \in SUBSET InlineSlots
    BY <1>1
  <2>8. SlotsAccounted'
    BY <1>1, <2>2, <2>5, <2>6, <2>7, SlotsReturned
  <2> QED
    BY <2>1, <2>8, MoveContext
<1>4. CASE Quiet(h)
  <2>1. UNCHANGED inflight
    BY <1>4 DEF Quiet, HandlerStep, Take, CheckOutput, AcquireLock, LockBusy, ReadManifest,
      TranslateReturns, TranslateRaises, FinishWrite, MarkCompleted, IncrDone, RequeueAttempt,
      GiveUp, MarkFailed, IncrFailed, ReleaseLock, Schedule, ClaimFinalize, EnqueueFinalize,
      locks
  <2>2. SlotHandlers' \subseteq SlotHandlers
    BY <1>4, QuietPlace, MoveSlots
  <2>3. SlotsAccounted'
    BY <1>1, <2>1, <2>2, SlotsKept
  <2>4. HandlerContext'
    BY <1>4, QuietPlace, MoveContext
  <2> QED
    BY <2>3, <2>4
<1> QED
  BY <1>2, <1>3, <1>4 DEF Quiet

\* The counter goes up, or stays, for nobody: an orphan.
LEMMA SlotsOrphaned ==
  ASSUME ConstantsOK, SlotTypes, UNCHANGED nBatches, SlotsAccounted, AcquireInflight,
         SlotHandlers' \subseteq SlotHandlers, InlineSlots' \subseteq InlineSlots
  PROVE  SlotsAccounted'
<1>1. {} \in SUBSET SlotHandlers /\ {} \in SUBSET InlineSlots
  OBVIOUS
<1>2. SlotHandlers' \subseteq SlotHandlers \ {} /\ InlineSlots' \subseteq InlineSlots \ {}
  OBVIOUS
<1>3. Cardinality({}) = 0
  BY FS_EmptySet
<1>4. /\ inflight' \in Nat /\ inflight' <= InflightCap
      /\ inflight - (Cardinality({}) + Cardinality({})) <= inflight'
  BY <1>3 DEF SlotTypes, SlotsAccounted, AcquireInflight, ConstantsOK
<1> QED
  BY <1>1, <1>2, <1>4, SlotsReturned

LEMMA FaultPlace ==
  ASSUME HandlerType, NEW h \in Handlers, WorkRaises(h) \/ ReplyLost(h) \/ Swallowed(h)
  PROVE  /\ HoldsSlot(h)' => HoldsSlot(h)
         /\ \A g \in Handlers \ {h} : hnd'[g] = hnd[g]
         /\ hnd'[h].pc \notin {"check", "mark_failed", "incr_failed"}
<1>1. CASE \E from \in {"manifest", "slot"} : Goto(h, from, "except")
  BY <1>1, GotoPlace DEF HoldsSlot
<1>2. CASE Goto(h, "write", "abort")
  BY <1>2, GotoPlace DEF HoldsSlot
<1>3. CASE \E from \in {"mark", "incr", "sched", "claim"} : Raises(h, from)
  <2>1. PICK from \in {"mark", "incr", "sched", "claim"} : Raises(h, from)
    BY <1>3
  <2>2. /\ hnd[h].pc = from /\ hnd[h].ctx \in {"skip", "ok"}
        /\ hnd'[h].pc = IF hnd[h].ctx = "skip" THEN "lock" ELSE "abort"
        /\ \A g \in Handlers \ {h} : hnd'[g] = hnd[g]
    BY <2>1, GotoPlace DEF Raises
  <2> QED
    BY <2>2 DEF HoldsSlot
<1>4. CASE Goto(h, "enqueue", AfterSchedule(h))
  BY <1>4, GotoPlace, AfterSchedulePlace DEF HoldsSlot
<1>5. CASE Goto(h, "relslot", "rellock") \/ Goto(h, "abort", "except") \/ Goto(h, "rellock", "idle")
  BY <1>5, GotoPlace DEF HoldsSlot
<1> QED
  BY <1>1, <1>2, <1>3, <1>4, <1>5 DEF WorkRaises, ReplyLost, Swallowed

LEMMA StopSlots ==
  ASSUME HandlerType, HandlerContext, NEW p \in Procs, Stop(p)
  PROVE  /\ SlotHandlers' \subseteq SlotHandlers \ {g \in InProc(p) : HoldsSlot(g)}
         /\ HandlerContext' /\ UNCHANGED <<nBatches, wrk>>
<1>1. \A g \in Handlers : hnd'[g] = IF g \in InProc(p) THEN IdleHandler ELSE hnd[g]
  BY DEF Stop
<1>2. SlotHandlers' \subseteq SlotHandlers \ {g \in InProc(p) : HoldsSlot(g)}
  BY <1>1 DEF SlotHandlers, HoldsSlot, IdleHandler
<1>3. HandlerContext'
  BY <1>1 DEF HandlerContext, IdleHandler
<1>4. UNCHANGED <<nBatches, wrk>>
  BY DEF Stop, frame, dbVars, workerVars
<1> QED
  BY <1>2, <1>3, <1>4

LEMMA WorkerFaultSlots ==
  ASSUME ConstantsOK, HandlerType, SlotTypes, HandlerContext, SlotsAccounted,
         ChunkWorkerFault
  PROVE  SlotsAccounted' /\ HandlerContext'
<1>1. ASSUME NEW h \in Handlers, WorkRaises(h) \/ ReplyLost(h) \/ Swallowed(h)
      PROVE  SlotsAccounted' /\ HandlerContext'
  <2>1. UNCHANGED <<nBatches, wrk>>
    BY <1>1 DEF WorkRaises, ReplyLost, Swallowed, frame, dbVars, workerVars
  <2>2. SlotHandlers' \subseteq SlotHandlers /\ HandlerContext'
    BY <1>1, FaultPlace, MoveSlots, MoveContext
  <2>3. InlineSlots' = InlineSlots
    BY <2>1, InlineSlotsRest
  <2>4. UNCHANGED inflight \/ AcquireInflight
    BY <1>1 DEF WorkRaises, ReplyLost, Swallowed, locks
  <2>5. CASE UNCHANGED inflight
    BY <2>1, <2>2, <2>3, <2>5, SlotsKept
  <2>6. CASE AcquireInflight
    BY <2>1, <2>2, <2>3, <2>6, SlotsOrphaned
  <2> QED
    BY <2>4, <2>5, <2>6
<1>2. ASSUME NEW h \in Handlers, HandlerEscapes(h) PROVE SlotsAccounted' /\ HandlerContext'
  <2> DEFINE p == ProcOf[h]
             T == {g \in InProc(p) : HoldsSlot(g)}
             At == {g \in InProc(p) \ {h} : hnd[g].pc = "slot"}
  <2>1. p \in Procs /\ Stop(p) /\ CancelInflight(Cardinality(T), Cardinality(At))
    BY <1>2 DEF ConstantsOK, HandlerEscapes
  <2>2. /\ SlotHandlers' \subseteq SlotHandlers \ T /\ HandlerContext'
        /\ UNCHANGED <<nBatches, wrk>>
    BY <2>1, StopSlots
  <2>3. T \in SUBSET SlotHandlers
    BY DEF SlotHandlers, InProc
  <2>4. IsFiniteSet(Handlers) /\ T \in SUBSET Handlers /\ At \in SUBSET Handlers
    BY DEF ConstantsOK, InProc
  <2>5. Cardinality(T) \in Nat /\ Cardinality(At) \in Nat
    BY <2>4, FS_Subset, FS_CardinalityType
  <2> HIDE DEF T, At
  <2>6. inflight' \in Nat /\ inflight' <= InflightCap /\ inflight - Cardinality(T) <= inflight'
    BY <2>1, <2>5, CancelFalls
  <2>7. Cardinality({}) = 0 /\ {} \in SUBSET InlineSlots
    BY FS_EmptySet
  <2>8. inflight - (Cardinality(T) + Cardinality({})) <= inflight'
    BY <2>5, <2>6, <2>7
  <2>9. InlineSlots' \subseteq InlineSlots \ {}
    BY <2>2, InlineSlotsRest
  <2>10. SlotsAccounted'
    BY <2>2, <2>3, <2>6, <2>7, <2>8, <2>9, SlotsReturned
  <2> QED
    BY <2>2, <2>10
<1>3. ASSUME NEW p \in Procs, ProcKilled(p) PROVE SlotsAccounted' /\ HandlerContext'
  <2>1. Stop(p) /\ UNCHANGED inflight
    BY <1>3 DEF ProcKilled
  <2>2. /\ SlotHandlers' \subseteq SlotHandlers /\ HandlerContext'
        /\ UNCHANGED <<nBatches, wrk>>
    BY <2>1, StopSlots
  <2> QED
    BY <2>1, <2>2, InlineSlotsRest, SlotsKept
<1>4. ASSUME NEW b \in Batches, ChunkLockExpires(b) PROVE SlotsAccounted' /\ HandlerContext'
  <2>1. UNCHANGED <<nBatches, inflight, hnd, wrk>>
    BY <1>4 DEF ChunkLockExpires, frame, dbVars, workerVars
  <2>2. SlotHandlers' \subseteq SlotHandlers /\ HandlerContext'
    BY <2>1 DEF SlotHandlers, HoldsSlot, HandlerContext
  <2> QED
    BY <2>1, <2>2, InlineSlotsRest, SlotsKept
<1> QED
  BY <1>1, <1>2, <1>3, <1>4 DEF ChunkWorkerFault

-----------------------------------------------------------------------------
(* The RQ workers *)

LEMMA HandlersKeepSlots ==
  UNCHANGED hnd => SlotHandlers' = SlotHandlers /\ (HandlerContext => HandlerContext')
BY DEF SlotHandlers, HoldsSlot, HandlerContext

\* A worker's batches may leave its inline slots, and only InlineAcquire adds one.
LEMMA LiveShrinks ==
  ASSUME NEW w \in Workers, \A v \in Workers \ {w} : wrk'[v] = wrk[v], UNCHANGED nBatches,
         wrk'[w].live \subseteq wrk[w].live
  PROVE  InlineSlots' \subseteq InlineSlots
<1>1. Batches' = Batches
  BY DEF Batches
<1> QED
  BY <1>1 DEF InlineSlots

LEMMA GoAsLive ==
  ASSUME PlaceType, NEW w \in Workers, NEW from, NEW to, NEW ctx, GoAs(w, from, to, ctx)
  PROVE  /\ wrk'[w].live \subseteq wrk[w].live
         /\ to = "p_except" => wrk'[w].live = {}
         /\ \A v \in Workers \ {w} : wrk'[v] = wrk[v]
BY DEF PlaceType, GoAs, Worker, IdleWorker

LEMMA LoadLive ==
  ASSUME PlaceType, NEW w \in Workers, NEW from, NEW to, Load(w, from, to)
  PROVE  /\ wrk'[w].live \subseteq wrk[w].live
         /\ \A v \in Workers \ {w} : wrk'[v] = wrk[v]
BY DEF PlaceType, Load, Worker, IdleWorker

LEMMA NextInlineLive ==
  ASSUME PlaceType, NEW w \in Workers, NEW from, NextInline(w, from)
  PROVE  /\ wrk'[w].live \subseteq wrk[w].live
         /\ \A v \in Workers \ {w} : wrk'[v] = wrk[v]
BY DEF PlaceType, NextInline, Worker

\* A worker that neither takes nor gives back a slot.
LEMMA QuietWorkerSlots ==
  ASSUME ConstantsOK, SlotTypes, HandlerContext, SlotsAccounted, NEW w \in Workers,
         \A v \in Workers \ {w} : wrk'[v] = wrk[v], wrk'[w].live \subseteq wrk[w].live,
         UNCHANGED <<nBatches, inflight, hnd>>
  PROVE  SlotsAccounted' /\ HandlerContext'
<1>1. InlineSlots' \subseteq InlineSlots
  BY LiveShrinks
<1>2. SlotHandlers' \subseteq SlotHandlers /\ HandlerContext'
  BY HandlersKeepSlots
<1> QED
  BY <1>1, <1>2, SlotsKept

\* The gather raises: the slots of all the batches under way come back.
LEMMA InlineCancelled ==
  ASSUME ConstantsOK, PlaceType, SlotTypes, HandlerContext, SlotsAccounted, NEW w \in Workers,
         Go(w, "i_translate", "p_except"), UNCHANGED <<nBatches, hnd>>,
         CancelInflight(Cardinality(wrk[w].live), Cardinality(wrk[w].todo))
  PROVE  SlotsAccounted' /\ HandlerContext'
<1> DEFINE U == {w} \X wrk[w].live
<1>1. wrk'[w].live = {} /\ \A v \in Workers \ {w} : wrk'[v] = wrk[v]
  BY GoAsLive DEF Go
<1>2. wrk[w].live \subseteq Batches /\ wrk[w].todo \subseteq Batches /\ Batches' = Batches
  BY DEF PlaceType, Worker, Batches
<1>3. IsFiniteSet(Batches)
  <2>1. 0 \in Int /\ nBatches - 1 \in Int
    BY DEF SlotTypes
  <2> QED
    BY <2>1, FS_Interval DEF Batches
<1>4. /\ IsFiniteSet(wrk[w].live) /\ Cardinality(wrk[w].live) \in Nat
      /\ Cardinality(wrk[w].todo) \in Nat
  BY <1>2, <1>3, FS_Subset, FS_CardinalityType
<1>5. Cardinality(U) = Cardinality(wrk[w].live)
  <2>1. IsFiniteSet({w}) /\ Cardinality({w}) = 1
    BY FS_Singleton
  <2>2. Cardinality(U) = 1 * Cardinality(wrk[w].live)
    BY <1>4, <2>1, FS_Product
  <2> QED
    BY <1>4, <2>2
<1>6. U \in SUBSET InlineSlots
  BY <1>2, InSlots
<1>7. InlineSlots' \subseteq InlineSlots \ U
  <2>1. InlineSlots' \subseteq InlineSlots
    BY <1>1, LiveShrinks
  <2>2. ASSUME NEW x \in InlineSlots', x \in U PROVE FALSE
    <3>1. x[1] = w /\ x[2] \in wrk'[x[1]].live
      BY <2>2 DEF InlineSlots
    <3> QED
      BY <1>1, <3>1
  <2> QED
    BY <2>1, <2>2
<1> HIDE DEF U
<1>8. /\ inflight' \in Nat /\ inflight' <= InflightCap
      /\ inflight - Cardinality(wrk[w].live) <= inflight'
  BY <1>4, CancelFalls
<1>9. Cardinality({}) = 0 /\ {} \in SUBSET SlotHandlers
  BY FS_EmptySet
<1>10. inflight - (Cardinality({}) + Cardinality(U)) <= inflight'
  BY <1>4, <1>5, <1>8, <1>9
<1>11. SlotHandlers' \subseteq SlotHandlers \ {} /\ HandlerContext'
  BY HandlersKeepSlots
<1>12. SlotsAccounted'
  BY <1>6, <1>7, <1>8, <1>9, <1>10, <1>11, SlotsReturned
<1> QED
  BY <1>11, <1>12

LEMMA InlineStepSlots ==
  ASSUME ConstantsOK, PlaceType, SlotTypes, HandlerContext, SlotsAccounted,
         NEW w \in Workers, InlineStep(w)
  PROVE  SlotsAccounted' /\ HandlerContext'
<1>1. UNCHANGED <<nBatches, hnd>> /\ Batches' = Batches
  BY InlineFrame DEF dbVars, handlerVars, Batches
<1>2. SlotHandlers' = SlotHandlers /\ HandlerContext'
  BY <1>1, HandlersKeepSlots
<1>3. ASSUME NEW b \in Batches, InlineAcquire(w, b) PROVE SlotsAccounted' /\ HandlerContext'
  <2>1. /\ \A v \in Workers \ {w} : wrk'[v] = wrk[v]
        /\ wrk'[w].live = wrk[w].live \cup {b} /\ AcquireInflight
    BY <1>3 DEF InlineAcquire, PlaceType, Worker
  <2>2. InlineSlots' = InlineSlots \cup {<<w, b>>}
    BY <1>1, <2>1 DEF InlineSlots
  <2> QED
    BY <1>1, <1>2, <2>1, <2>2, SlotTaken
<1>4. ASSUME NEW b \in Batches, InlineDone(w, b) PROVE SlotsAccounted' /\ HandlerContext'
  <2>1. /\ \A v \in Workers \ {w} : wrk'[v] = wrk[v]
        /\ wrk'[w].live = wrk[w].live \ {b} /\ b \in wrk[w].live /\ ReleaseInflight(1)
    BY <1>4 DEF InlineDone, PlaceType, Worker
  <2>2. {<<w, b>>} \in SUBSET InlineSlots
    BY <2>1, InSlots
  <2>3. InlineSlots' \subseteq InlineSlots \ {<<w, b>>}
    BY <1>1, <2>1 DEF InlineSlots
  <2>4. Cardinality({<<w, b>>}) = 1 /\ Cardinality({}) = 0
    BY FS_Singleton, FS_EmptySet
  <2>5. inflight' \in Nat /\ inflight' <= InflightCap /\ inflight - 1 <= inflight'
    BY <2>1, ReleaseFalls
  <2>6. inflight - (Cardinality({}) + Cardinality({<<w, b>>})) <= inflight'
    BY <2>4, <2>5
  <2>7. SlotHandlers' \subseteq SlotHandlers \ {} /\ {} \in SUBSET SlotHandlers
    BY <1>2
  <2>8. SlotsAccounted'
    BY <1>1, <2>2, <2>3, <2>5, <2>6, <2>7, SlotsReturned
  <2> QED
    BY <1>2, <2>8
<1>5. CASE InlineFails(w)
  BY <1>1, <1>5, InlineCancelled DEF InlineFails
<1>6. CASE \/ StartInline(w) \/ InlineGathered(w) \/ InlineWrite(w) \/ InlineMark(w)
           \/ InlineIncr(w) \/ InlineSchedule(w)
  <2>1. UNCHANGED inflight
    BY <1>6 DEF StartInline, InlineGathered, InlineWrite, InlineMark, InlineIncr,
      InlineSchedule, redis, locks
  <2>2. CASE InlineWrite(w) \/ InlineSchedule(w) \/ InlineMark(w) \/ InlineIncr(w)
    BY <1>1, <2>1, <2>2, GoAsLive, NextInlineLive, QuietWorkerSlots
    DEF InlineWrite, InlineSchedule, InlineMark, InlineIncr, Go
  <2>3. CASE StartInline(w) \/ InlineGathered(w)
    <3>1. /\ \A v \in Workers \ {w} : wrk'[v] = wrk[v]
          /\ wrk'[w].live \subseteq wrk[w].live
      BY <2>3 DEF StartInline, InlineGathered, PlaceType, Worker
    <3> QED
      BY <1>1, <2>1, <3>1, QuietWorkerSlots
  <2> QED
    BY <1>6, <2>2, <2>3
<1> QED
  BY <1>3, <1>4, <1>5, <1>6 DEF InlineStep

LEMMA OtherJobSlots ==
  ASSUME ConstantsOK, PlaceType, SlotTypes, HandlerContext, SlotsAccounted,
         NEW w \in Workers,
         PrepareStep(w) \/ FinalizeStep(w) \/ TakeJob(w) \/ JobReturns(w)
  PROVE  SlotsAccounted' /\ HandlerContext'
<1>1. UNCHANGED <<nBatches, inflight, hnd>>
  <2>1. CASE PrepareStep(w)
    BY <2>1, PrepareFrame DEF handlerVars
  <2>2. CASE FinalizeStep(w) \/ TakeJob(w) \/ JobReturns(w)
    BY <2>2 DEF FinalizeStep, FinalizeLoad, FinalizeLock, FinalizeFails, FinalizeTooEarly,
      FinalizeReady, Merge, Charge, FinalizeExcept, ReleaseFinalize, TakeJob, JobReturns,
      job, dbVars, redis, locks, env, handlerVars
  <2> QED
    BY <2>1, <2>2
<1>2. /\ \A v \in Workers \ {w} : wrk'[v] = wrk[v]
      /\ wrk'[w].live \subseteq wrk[w].live
  <2>1. CASE PrepareLoad(w) \/ FinalizeLoad(w)
    BY <2>1, LoadLive DEF PrepareLoad, FinalizeLoad
  <2>2. CASE PrepareStep(w) /\ ~PrepareLoad(w)
    BY <2>2, GoAsLive
    DEF PrepareStep, PrepareMark, Parse, SkipPrepared, RepairQueue, BuildManifest, SetTotals,
        PushMessages, ClaimEmpty, EnqueueEmpty, ReadAgain, ReadAgainRaises, PrepareExcept,
        Returned, Finished, AfterClaim, Go
  <2>3. CASE (FinalizeStep(w) \/ TakeJob(w) \/ JobReturns(w)) /\ ~FinalizeLoad(w)
    BY <2>3, GoAsLive
    DEF FinalizeStep, FinalizeLock, FinalizeFails, FinalizeTooEarly, FinalizeReady, Merge,
        Charge, FinalizeExcept, ReleaseFinalize, TakeJob, JobReturns, Go
  <2> QED
    BY <2>1, <2>2, <2>3
<1> QED
  BY <1>1, <1>2, QuietWorkerSlots

LEMMA RqFaultSlots ==
  ASSUME ConstantsOK, PlaceType, SlotTypes, HandlerContext, SlotsAccounted, RqTasksFault
  PROVE  SlotsAccounted' /\ HandlerContext'
<1>1. UNCHANGED <<nBatches, hnd>>
  BY DEF RqTasksFault, ParseRaises, PrepareRaises, InlineRaises, RepairRaises, PushReplyLost,
    ClaimReplyLost, EnqueueReplyLost, FinalizeRaises, FinalizeEscapes, ReleaseRaises,
    RetryThreadRaises, HorseDies, FinLockExpires, job, dbVars, env, handlerVars
<1>2. ASSUME NEW w \in Workers, InlineRaises(w) PROVE SlotsAccounted' /\ HandlerContext'
  BY <1>1, <1>2, InlineCancelled DEF InlineRaises
<1>3. ASSUME NEW w \in Workers,
             \/ ParseRaises(w) \/ PrepareRaises(w) \/ RepairRaises(w)
             \/ PushReplyLost(w) \/ ClaimReplyLost(w) \/ EnqueueReplyLost(w)
             \/ FinalizeRaises(w) \/ FinalizeEscapes(w)
      PROVE  SlotsAccounted' /\ HandlerContext'
  <2>1. /\ \A v \in Workers \ {w} : wrk'[v] = wrk[v]
        /\ wrk'[w].live \subseteq wrk[w].live
    BY <1>3, GoAsLive
    DEF ParseRaises, PrepareRaises, RepairRaises, PushReplyLost, ClaimReplyLost,
        EnqueueReplyLost, FinalizeRaises, FinalizeEscapes, Go
  <2>2. UNCHANGED inflight
    BY <1>3
    DEF ParseRaises, PrepareRaises, RepairRaises, PushReplyLost, ClaimReplyLost,
        EnqueueReplyLost, FinalizeRaises, FinalizeEscapes, redis, locks
  <2> QED
    BY <1>1, <2>1, <2>2, QuietWorkerSlots
<1>4. ASSUME NEW w \in Workers, ReleaseRaises(w) \/ HorseDies(w)
      PROVE  SlotsAccounted' /\ HandlerContext'
  <2>1. /\ \A v \in Workers \ {w} : wrk'[v] = wrk[v]
        /\ wrk'[w].live \subseteq wrk[w].live
    <3>1. CASE Go(w, "f_release", "exit")
      BY <3>1, GoAsLive DEF Go
    <3>2. CASE \E b \in wrk[w].live : wrk' = [wrk EXCEPT ![w].live = @ \ {b}]
      BY <3>2 DEF PlaceType, Worker
    <3>3. CASE HorseDies(w)
      BY <3>3 DEF HorseDies, PlaceType, IdleWorker
    <3> QED
      BY <1>4, <3>1, <3>2, <3>3 DEF ReleaseRaises
  <2>2. UNCHANGED inflight
    BY <1>4 DEF ReleaseRaises, HorseDies, redis, locks
  <2> QED
    BY <1>1, <2>1, <2>2, QuietWorkerSlots
<1>5. ASSUME (\E w \in Workers : RetryThreadRaises(w)) \/ FinLockExpires
      PROVE  SlotsAccounted' /\ HandlerContext'
  <2>1. UNCHANGED <<wrk, inflight>>
    BY <1>5 DEF RetryThreadRaises, FinLockExpires, workerVars, redis, locks
  <2> QED
    BY <1>1, <2>1, HandlersKeepSlots, InlineSlotsRest, SlotsKept
<1> QED
  BY <1>2, <1>3, <1>4, <1>5 DEF RqTasksFault

-----------------------------------------------------------------------------
(* The theorem *)

LEMMA OthersKeepSlots ==
  ASSUME ConstantsOK, SlotTypes, HandlerContext, SlotsAccounted,
         \/ \E p \in Procs : Pop(p)
         \/ \E w \in Workers : RetryThreadRuns(w)
         \/ Resubmit \/ Cleanup \/ UNCHANGED vars
  PROVE  SlotsAccounted' /\ HandlerContext'
<1>1. UNCHANGED <<nBatches, inflight, hnd, wrk>>
  BY DEF Pop, RetryThreadRuns, Resubmit, Cleanup, vars, frame, job, dbVars, handlerVars,
    workerVars, env, locks
<1> QED
  BY <1>1, HandlersKeepSlots, InlineSlotsRest, SlotsKept

LEMMA NextSlots ==
  ASSUME ConstantsOK, TypeOK, HandlerContext, SlotsAccounted, [Next]_vars
  PROVE  SlotsAccounted' /\ HandlerContext'
<1>1. HandlerType /\ PlaceType
  BY DEF TypeOK, WorkerType, PlaceType
<1>2. SlotTypes
  BY BatchesFinite DEF TypeOK, LockType, SlotTypes
<1> QED
  BY <1>1, <1>2, HandlerStepSlots, OtherJobSlots, InlineStepSlots, WorkerFaultSlots,
    RqFaultSlots, OthersKeepSlots
  DEF Next, System, WorkerStep

LEMMA InitSlots == ASSUME ConstantsOK, Init PROVE SlotsAccounted /\ HandlerContext
<1>1. SlotHandlers = {} /\ InlineSlots = {} /\ HandlerContext
  BY DEF Init, IdleHandler, IdleWorker, SlotHandlers, HoldsSlot, InlineSlots, HandlerContext
<1>2. Cardinality({}) = 0
  BY FS_EmptySet
<1>3. inflight = 0 /\ InflightCap \in Nat
  BY DEF Init, ConstantsOK
<1> QED
  BY <1>1, <1>2, <1>3 DEF SlotsAccounted

\* However many processes and inline translations compete, fail and die: the cap
\* on calls of the API is kept, and nobody calls it without a counted slot.
THEOREM CapIsKept == Spec => []SlotsAccounted
<1>1. Init => SlotsAccounted /\ HandlerContext
  BY InitSlots, ConstantsOK
<1>2. TypeOK /\ SlotsAccounted /\ HandlerContext /\ [Next]_vars
        => SlotsAccounted' /\ HandlerContext'
  BY NextSlots, ConstantsOK
<1> QED
  BY <1>1, <1>2, TypeCorrect, PTL DEF Spec

-----------------------------------------------------------------------------
(* The lock of a batch, as long as no lock expires under its holder *)

\* Only the way from a batch that is given up to the release of its lock runs in
\* the context of the last failure.
FailContext ==
  \A h \in Handlers : hnd[h].ctx = "fail" =>
    hnd[h].pc \in {"mark_failed", "incr_failed", "sched", "claim", "enqueue", "rellock"}

\* Whoever is past the lock of a batch holds it, and nobody else does.
LocksHeld ==
  /\ \A h \in Handlers : HoldsLock(h) => Batch(h) \in chunkLock
  /\ BatchExclusive

\* Where a handler goes on, with the same message, and the context that goes with it.
LEMMA GotoAsMessage ==
  ASSUME HandlerType, FailContext, NEW h \in Handlers, NEW from, NEW to, NEW ctx,
         GotoAs(h, from, to, ctx),
         ctx = "fail" => to \in {"idle", "mark_failed", "incr_failed", "sched", "claim",
                                 "enqueue", "rellock"}
  PROVE  /\ to # "idle" => Batch(h)' = Batch(h)
         /\ FailContext'
<1>1. /\ hnd'[h].pc = to
      /\ hnd'[h] = IF to = "idle" THEN IdleHandler
                   ELSE [hnd[h] EXCEPT !.pc = to, !.ctx = ctx]
      /\ \A g \in Handlers \ {h} : hnd'[g] = hnd[g]
  BY DEF HandlerType, GotoAs, Handler, IdleHandler
<1>2. to # "idle" => hnd'[h].ctx = ctx /\ hnd'[h].msg = hnd[h].msg
  BY <1>1 DEF HandlerType, Handler
<1>3. to = "idle" => hnd'[h].ctx = "skip"
  BY <1>1 DEF IdleHandler
<1>4. Batch(h)' = hnd'[h].msg.batch
  BY DEF Batch
<1> QED
  BY <1>1, <1>2, <1>3, <1>4 DEF FailContext, Batch

StillHolds(h) == HoldsLock(h)' => HoldsLock(h) /\ Batch(h)' = Batch(h)

\* A handler that does not come to hold a lock cannot break the exclusion, ...
LEMMA ExclusionKept ==
  ASSUME LocksHeld, chunkLock' = chunkLock, NEW h \in Handlers,
         \A g \in Handlers \ {h} : hnd'[g] = hnd[g], StillHolds(h)
  PROVE  LocksHeld'
<1>1. \A g \in Handlers \ {h} : HoldsLock(g)' = HoldsLock(g) /\ Batch(g)' = Batch(g)
  BY DEF HoldsLock, HoldsSlot, Batch
<1>2. \A g \in Handlers : HoldsLock(g)' => HoldsLock(g) /\ Batch(g)' = Batch(g)
  BY <1>1 DEF StillHolds
<1>3. \A g \in Handlers : HoldsLock(g)' => Batch(g)' \in chunkLock'
  BY <1>2 DEF LocksHeld
<1>4. BatchExclusive'
  BY <1>2 DEF LocksHeld, BatchExclusive
<1>5. LocksHeld'
  BY <1>3, <1>4 DEF LocksHeld
<1> QED
  BY <1>5

\* ... nor one that takes a free lock, ...
LEMMA LockTaken ==
  ASSUME LocksHeld, NEW h \in Handlers, \A g \in Handlers \ {h} : hnd'[g] = hnd[g],
         Batch(h) \notin chunkLock, chunkLock' = chunkLock \cup {Batch(h)},
         Batch(h)' = Batch(h)
  PROVE  LocksHeld'
<1>1. \A g \in Handlers \ {h} : HoldsLock(g)' = HoldsLock(g) /\ Batch(g)' = Batch(g)
  BY DEF HoldsLock, HoldsSlot, Batch
<1>2. \A g \in Handlers \ {h} : HoldsLock(g) => Batch(g) \in chunkLock /\ Batch(g) # Batch(h)
  BY DEF LocksHeld
<1> QED
  BY <1>1, <1>2 DEF LocksHeld, BatchExclusive

\* ... and a holder that gives its lock back takes nobody else's.
LEMMA LockReleased ==
  ASSUME LocksHeld, NEW h \in Handlers, \A g \in Handlers \ {h} : hnd'[g] = hnd[g],
         HoldsLock(h), ~HoldsLock(h)', chunkLock' = chunkLock \ {Batch(h)}
  PROVE  LocksHeld'
<1>1. \A g \in Handlers \ {h} : HoldsLock(g)' = HoldsLock(g) /\ Batch(g)' = Batch(g)
  BY DEF HoldsLock, HoldsSlot, Batch
<1>2. \A g \in Handlers \ {h} : HoldsLock(g) => Batch(g) # Batch(h)
  BY DEF LocksHeld, BatchExclusive
<1> QED
  BY <1>1, <1>2 DEF LocksHeld, BatchExclusive

LocklessStep(h) == HandlerStep(h) /\ ~AcquireLock(h) /\ ~ReleaseLock(h)

\* The steps that leave the locks alone.
LEMMA LocklessPlace ==
  ASSUME HandlerType, HandlerContext, FailContext, NEW h \in Handlers, LocklessStep(h)
  PROVE  /\ StillHolds(h)
         /\ \A g \in Handlers \ {h} : hnd'[g] = hnd[g]
         /\ FailContext' /\ UNCHANGED chunkLock
<1>1. UNCHANGED chunkLock
  BY DEF LocklessStep, HandlerStep, Take, CheckOutput, LockBusy, ReadManifest, AcquireSlot,
    TranslateReturns, TranslateRaises, FinishWrite, MarkCompleted, IncrDone, ReleaseSlot,
    RequeueAttempt, GiveUp, MarkFailed, IncrFailed, Schedule, ClaimFinalize, EnqueueFinalize,
    locks
<1>2. CASE Take(h)
  <2>1. ~HoldsLock(h)'
    BY <1>2, TakePlace DEF HoldsLock, HoldsSlot
  <2> QED
    BY <1>1, <1>2, <2>1, TakePlace DEF FailContext, StillHolds
<1>3. CASE CheckOutput(h)
  <2>1. PICK to \in {"mark", "lock"} : GotoAs(h, "check", to, hnd[h].ctx)
    BY <1>3 DEF CheckOutput, Goto
  <2>2. hnd[h].pc = "check" /\ hnd[h].ctx = "skip"
    BY <2>1, GotoAsPlace DEF HandlerContext
  <2>3. /\ hnd'[h].pc = to /\ hnd'[h].ctx = "skip" /\ FailContext'
        /\ \A g \in Handlers \ {h} : hnd'[g] = hnd[g]
    BY <2>1, <2>2, GotoAsPlace, GotoAsMessage
  <2> QED
    BY <1>1, <2>3 DEF HoldsLock, HoldsSlot, StillHolds
<1>4. CASE LockBusy(h)
  <2>1. /\ hnd'[h].pc = "idle" /\ FailContext'
        /\ \A g \in Handlers \ {h} : hnd'[g] = hnd[g]
    BY <1>4, GotoAsPlace, GotoAsMessage DEF LockBusy, Goto
  <2> QED
    BY <1>1, <2>1 DEF HoldsLock, HoldsSlot, StillHolds
<1>5. CASE \/ ReadManifest(h) \/ AcquireSlot(h) \/ TranslateReturns(h) \/ TranslateRaises(h)
           \/ RequeueAttempt(h) \/ GiveUp(h) \/ ReleaseSlot(h) \/ FinishWrite(h)
  <2>1. PICK from \in {"manifest", "slot", "translate", "write", "except", "relslot", "abort"},
             to \in {"slot", "except", "translate", "write", "abort", "rellock", "mark_failed",
                     "mark"},
             ctx \in {"skip", "ok", "fail"} :
          /\ GotoAs(h, from, to, ctx)
          /\ ctx = "fail" => hnd[h].ctx = "fail" \/ to = "mark_failed"
    BY <1>5 DEF ReadManifest, AcquireSlot, TranslateReturns, TranslateRaises, RequeueAttempt,
      GiveUp, ReleaseSlot, FinishWrite, Goto, HandlerType, Handler
  <2>2. hnd[h].pc = from /\ \A g \in Handlers \ {h} : hnd'[g] = hnd[g]
    BY <2>1, GotoAsPlace
  <2>3. hnd[h].ctx # "fail"
    BY <2>2 DEF FailContext
  <2>4. HoldsLock(h)
    BY <2>2 DEF HoldsLock, HoldsSlot
  <2>5. Batch(h)' = Batch(h) /\ FailContext'
    BY <2>1, <2>3, GotoAsMessage
  <2> QED
    BY <1>1, <2>2, <2>4, <2>5 DEF StillHolds
<1>6. CASE \/ MarkCompleted(h) \/ IncrDone(h) \/ MarkFailed(h) \/ IncrFailed(h) \/ Schedule(h)
           \/ ClaimFinalize(h) \/ EnqueueFinalize(h)
  <2>1. PICK from \in {"mark", "incr", "mark_failed", "incr_failed", "sched", "claim", "enqueue"},
             to \in {"sched", "incr", "incr_failed", "claim", "enqueue", AfterSchedule(h)} :
          /\ GotoAs(h, from, to, hnd[h].ctx)
          /\ to = "incr" => from = "mark"
          /\ to = "incr_failed" => from = "mark_failed"
          /\ from \in {"mark", "incr", "mark_failed", "incr_failed"}
               => to \in {"sched", "incr", "incr_failed"}
    <3>1. CASE MarkCompleted(h)
      BY <3>1 DEF MarkCompleted, Goto
    <3>2. CASE IncrDone(h)
      BY <3>2 DEF IncrDone, Goto
    <3>3. CASE MarkFailed(h)
      BY <3>3 DEF MarkFailed, Goto
    <3>4. CASE IncrFailed(h)
      BY <3>4 DEF IncrFailed, Goto
    <3>5. CASE Schedule(h)
      <4>1. \E to \in {"claim", AfterSchedule(h)} : GotoAs(h, "sched", to, hnd[h].ctx)
        BY <3>5 DEF Schedule, Goto
      <4> QED
        BY <4>1, AfterSchedulePlace
    <3>6. CASE ClaimFinalize(h) \/ EnqueueFinalize(h)
      <4>1. \E from \in {"claim", "enqueue"}, to \in {"enqueue", AfterSchedule(h)} :
               GotoAs(h, from, to, hnd[h].ctx)
        BY <3>6 DEF ClaimFinalize, EnqueueFinalize, Goto
      <4> QED
        BY <4>1, AfterSchedulePlace
    <3> QED
      BY <1>6, <3>1, <3>2, <3>3, <3>4, <3>5, <3>6
  <2>2. /\ hnd[h].pc = from /\ hnd'[h].pc = to /\ \A g \in Handlers \ {h} : hnd'[g] = hnd[g]
        /\ to # "idle" => hnd'[h].ctx = hnd[h].ctx
    BY <2>1, GotoAsPlace
  <2>3. /\ AfterSchedule(h) \in {"idle", "relslot", "rellock"}
        /\ AfterSchedule(h) = "relslot" <=> hnd[h].ctx = "ok"
        /\ AfterSchedule(h) = "rellock" <=> hnd[h].ctx = "fail"
    BY DEF HandlerType, Handler, AfterSchedule
  <2>4. /\ hnd[h].ctx = "fail" => to \in {"incr_failed", "sched", "claim", "enqueue", "rellock"}
        /\ from \in {"mark", "incr"} => hnd[h].ctx # "fail"
        /\ from \in {"mark_failed", "incr_failed"} => hnd[h].ctx = "fail"
    BY <2>1, <2>2, <2>3 DEF FailContext, HandlerContext
  <2>5. (to # "idle" => Batch(h)' = Batch(h)) /\ FailContext'
    BY <2>1, <2>4, GotoAsMessage
  <2>6. ASSUME HoldsLock(h)' PROVE HoldsLock(h) /\ to # "idle"
    <3>1. to # "idle"
      BY <2>2, <2>6 DEF HoldsLock, HoldsSlot
    <3>2. hnd[h].ctx # "skip"
      <4>1. SUFFICES ASSUME hnd[h].ctx = "skip" PROVE FALSE
        OBVIOUS
      <4>2. to \in {"sched", "incr", "incr_failed", "claim", "enqueue"}
        BY <2>1, <2>3, <3>1, <4>1
      <4>3. hnd'[h].pc = to /\ hnd'[h].ctx = "skip" /\ to # "incr_failed"
        BY <2>1, <2>2, <2>4, <3>1, <4>1
      <4> QED
        BY <2>6, <4>2, <4>3 DEF HoldsLock, HoldsSlot
    <3>3. CASE hnd[h].ctx = "ok"
      <4>1. from \notin {"mark_failed", "incr_failed"}
        BY <2>4, <3>3
      <4>2. hnd[h].pc \in {"mark", "incr", "sched", "claim", "enqueue"}
        BY <2>1, <2>2, <4>1
      <4>3. HoldsSlot(h)
        BY <3>3, <4>2 DEF HoldsSlot
      <4> QED
        BY <3>1, <4>3 DEF HoldsLock
    <3>4. CASE hnd[h].ctx = "fail"
      BY <2>2, <2>4, <3>4 DEF HoldsLock, HoldsSlot
    <3> QED
      BY <3>1, <3>2, <3>3, <3>4 DEF HandlerType, Handler
  <2> QED
    BY <1>1, <2>2, <2>5, <2>6 DEF StillHolds
<1> QED
  BY <1>2, <1>3, <1>4, <1>5, <1>6 DEF LocklessStep, HandlerStep

LEMMA HandlerStepLocks ==
  ASSUME HandlerType, HandlerContext, FailContext, LocksHeld, NEW h \in Handlers,
         HandlerStep(h)
  PROVE  LocksHeld' /\ FailContext'
<1>1. CASE AcquireLock(h)
  <2>1. GotoAs(h, "lock", "manifest", hnd[h].ctx) /\ hnd[h].pc = "lock"
    BY <1>1 DEF AcquireLock, Goto, GotoAs
  <2>2. hnd[h].ctx # "fail"
    BY <2>1 DEF FailContext
  <2>3. /\ Batch(h)' = Batch(h) /\ FailContext'
        /\ \A g \in Handlers \ {h} : hnd'[g] = hnd[g]
    BY <2>1, <2>2, GotoAsMessage, GotoAsPlace
  <2> QED
    BY <1>1, <2>3, LockTaken DEF AcquireLock
<1>2. CASE ReleaseLock(h)
  <2>1. GotoAs(h, "rellock", "idle", hnd[h].ctx) /\ hnd[h].pc = "rellock"
    BY <1>2 DEF ReleaseLock, Goto, GotoAs
  <2>2. /\ hnd'[h].pc = "idle" /\ FailContext'
        /\ \A g \in Handlers \ {h} : hnd'[g] = hnd[g]
    BY <2>1, GotoAsMessage, GotoAsPlace
  <2>3. HoldsLock(h) /\ ~HoldsLock(h)'
    BY <2>1, <2>2 DEF HoldsLock, HoldsSlot
  <2> QED
    BY <1>2, <2>2, <2>3, LockReleased DEF ReleaseLock
<1>3. CASE LocklessStep(h)
  <2>1. /\ StillHolds(h)
        /\ \A g \in Handlers \ {h} : hnd'[g] = hnd[g]
        /\ FailContext' /\ UNCHANGED chunkLock
    BY <1>3, LocklessPlace
  <2> QED
    BY <2>1, ExclusionKept
<1> QED
  BY <1>1, <1>2, <1>3 DEF LocklessStep

\* A fault of one handler takes no lock and frees none.
LEMMA FaultLocks ==
  ASSUME HandlerType, FailContext, LocksHeld, NEW h \in Handlers,
         WorkRaises(h) \/ ReplyLost(h) \/ Swallowed(h)
  PROVE  LocksHeld' /\ FailContext'
<1>1. UNCHANGED chunkLock
  BY DEF WorkRaises, ReplyLost, Swallowed, locks
<1>2. ASSUME NEW from \in {"manifest", "slot", "write", "relslot", "abort"},
             NEW to \in {"except", "abort", "rellock"}, Goto(h, from, to)
      PROVE  LocksHeld' /\ FailContext'
  <2>1. GotoAs(h, from, to, hnd[h].ctx) /\ hnd[h].pc = from
    BY <1>2, GotoAsPlace DEF Goto
  <2>2. hnd[h].ctx # "fail" /\ HoldsLock(h)
    BY <2>1 DEF FailContext, HoldsLock, HoldsSlot
  <2>3. /\ Batch(h)' = Batch(h) /\ FailContext'
        /\ \A g \in Handlers \ {h} : hnd'[g] = hnd[g]
    BY <2>1, <2>2, GotoAsMessage, GotoAsPlace
  <2> QED
    BY <1>1, <2>2, <2>3, ExclusionKept DEF StillHolds
<1>3. ASSUME NEW from \in {"mark", "incr", "sched", "claim"}, Raises(h, from)
      PROVE  LocksHeld' /\ FailContext'
  <2>1. PICK to \in {"lock", "abort"} :
          /\ GotoAs(h, from, to, hnd[h].ctx) /\ hnd[h].ctx \in {"skip", "ok"}
          /\ to = "abort" <=> hnd[h].ctx = "ok"
    BY <1>3 DEF Raises, Goto
  <2>2. hnd[h].pc = from /\ hnd'[h].pc = to /\ \A g \in Handlers \ {h} : hnd'[g] = hnd[g]
    BY <2>1, GotoAsPlace
  <2>3. Batch(h)' = Batch(h) /\ FailContext'
    BY <2>1, GotoAsMessage
  <2>4. HoldsLock(h)' => HoldsLock(h)
    BY <2>1, <2>2 DEF HoldsLock, HoldsSlot
  <2> QED
    BY <1>1, <2>2, <2>3, <2>4, ExclusionKept DEF StillHolds
<1>4. ASSUME Goto(h, "enqueue", AfterSchedule(h)) PROVE LocksHeld' /\ FailContext'
  <2>1. /\ AfterSchedule(h) \in {"idle", "relslot", "rellock"}
        /\ AfterSchedule(h) = "relslot" <=> hnd[h].ctx = "ok"
        /\ AfterSchedule(h) = "rellock" <=> hnd[h].ctx = "fail"
    BY DEF HandlerType, Handler, AfterSchedule
  <2>2. PICK to \in {"idle", "relslot", "rellock"} :
          to = AfterSchedule(h) /\ GotoAs(h, "enqueue", to, hnd[h].ctx)
    BY <1>4, <2>1 DEF Goto
  <2>3. /\ hnd[h].pc = "enqueue" /\ hnd'[h].pc = to
        /\ \A g \in Handlers \ {h} : hnd'[g] = hnd[g]
    BY <2>2, GotoAsPlace
  <2>4. (to # "idle" => Batch(h)' = Batch(h)) /\ FailContext'
    BY <2>1, <2>2, GotoAsMessage
  <2>5. HoldsLock(h)' => HoldsLock(h) /\ to # "idle"
    BY <2>1, <2>2, <2>3 DEF HoldsLock, HoldsSlot
  <2> QED
    BY <1>1, <2>3, <2>4, <2>5, ExclusionKept DEF StillHolds
<1>5. ASSUME Goto(h, "rellock", "idle") PROVE LocksHeld' /\ FailContext'
  <2>1. GotoAs(h, "rellock", "idle", hnd[h].ctx)
    BY <1>5 DEF Goto
  <2>2. /\ hnd'[h].pc = "idle" /\ FailContext'
        /\ \A g \in Handlers \ {h} : hnd'[g] = hnd[g]
    BY <2>1, GotoAsMessage, GotoAsPlace
  <2>3. StillHolds(h)
    BY <2>2 DEF StillHolds, HoldsLock, HoldsSlot
  <2> QED
    BY <1>1, <2>2, <2>3, ExclusionKept
<1> QED
  BY <1>2, <1>3, <1>4, <1>5 DEF WorkRaises, ReplyLost, Swallowed

\* A process that ends: its handlers hold nothing any more, and of the locks only
\* those of its own handlers may go.
LEMMA StopLocks ==
  ASSUME HandlerType, FailContext, LocksHeld, NEW p \in Procs, Stop(p),
         \A b \in chunkLock \ chunkLock' : \E g \in InProc(p) : HoldsLock(g) /\ Batch(g) = b
  PROVE  LocksHeld' /\ FailContext'
<1>1. \A g \in Handlers : hnd'[g] = IF g \in InProc(p) THEN IdleHandler ELSE hnd[g]
  BY DEF Stop
<1>2. \A g \in Handlers : HoldsLock(g)' => g \notin InProc(p) /\ HoldsLock(g) /\ Batch(g)' = Batch(g)
  BY <1>1 DEF HoldsLock, HoldsSlot, Batch, IdleHandler
<1>3. FailContext'
  BY <1>1 DEF FailContext, IdleHandler
<1>4. BatchExclusive'
  BY <1>2 DEF LocksHeld, BatchExclusive
<1>5. ASSUME NEW g \in Handlers, HoldsLock(g)' PROVE Batch(g)' \in chunkLock'
  <2>1. g \notin InProc(p) /\ HoldsLock(g) /\ Batch(g)' = Batch(g) /\ Batch(g) \in chunkLock
    BY <1>2, <1>5 DEF LocksHeld
  <2>2. \A f \in InProc(p) : HoldsLock(f) => Batch(f) # Batch(g)
    BY <2>1 DEF LocksHeld, BatchExclusive, InProc
  <2> QED
    BY <2>1, <2>2
<1> QED
  BY <1>3, <1>4, <1>5 DEF LocksHeld

LEMMA WorkerFaultLocks ==
  ASSUME ConstantsOK, HandlerType, FailContext, LocksHeld, "ttl" \notin FaultKinds,
         ChunkWorkerFault
  PROVE  LocksHeld' /\ FailContext'
<1>1. ASSUME NEW h \in Handlers, HandlerEscapes(h) PROVE LocksHeld' /\ FailContext'
  <2>1. ProcOf[h] \in Procs /\ Stop(ProcOf[h])
    BY <1>1 DEF ConstantsOK, HandlerEscapes
  <2>2. \A b \in chunkLock \ chunkLock' :
           \E g \in InProc(ProcOf[h]) : HoldsLock(g) /\ Batch(g) = b
    BY <1>1 DEF HandlerEscapes
  <2> QED
    BY <2>1, <2>2, StopLocks
<1>2. ASSUME NEW p \in Procs, ProcKilled(p) PROVE LocksHeld' /\ FailContext'
  BY <1>2, StopLocks DEF ProcKilled
<1>3. ASSUME NEW b \in Batches, ChunkLockExpires(b) PROVE LocksHeld' /\ FailContext'
  <2>1. /\ UNCHANGED hnd /\ chunkLock' = chunkLock \ {b}
        /\ \A h \in Handlers : HoldsLock(h) => Batch(h) # b
    BY <1>3 DEF ChunkLockExpires, Fault
  <2>2. \A h \in Handlers : HoldsLock(h)' = HoldsLock(h) /\ Batch(h)' = Batch(h)
    BY <2>1 DEF HoldsLock, HoldsSlot, Batch
  <2>3. LocksHeld'
    BY <2>1, <2>2 DEF LocksHeld, BatchExclusive
  <2> QED
    BY <2>1, <2>3 DEF FailContext
<1> QED
  BY <1>1, <1>2, <1>3, FaultLocks DEF ChunkWorkerFault

\* Nobody but a chunk worker touches its handlers or the locks.
LEMMA OthersKeepLocks ==
  ASSUME FailContext, LocksHeld, UNCHANGED <<hnd, chunkLock>>
  PROVE  LocksHeld' /\ FailContext'
BY DEF LocksHeld, BatchExclusive, HoldsLock, HoldsSlot, Batch, FailContext

LEMMA OthersFrame ==
  ASSUME \/ \E p \in Procs : Pop(p)
         \/ \E w \in Workers : WorkerStep(w) \/ RetryThreadRuns(w)
         \/ RqTasksFault \/ Resubmit \/ Cleanup \/ UNCHANGED vars
  PROVE  UNCHANGED <<hnd, chunkLock>>
<1>1. ASSUME NEW w \in Workers, PrepareStep(w) PROVE UNCHANGED <<hnd, chunkLock>>
  BY <1>1 DEF PrepareStep, PrepareLoad, PrepareMark, Parse, SkipPrepared, RepairQueue,
    BuildManifest, SetTotals, PushMessages, ClaimEmpty, EnqueueEmpty, ReadAgain,
    ReadAgainRaises, PrepareExcept, Returned, Finished, AfterClaim, redis,
    env, locks, handlerVars
<1>2. ASSUME NEW w \in Workers, InlineStep(w) PROVE UNCHANGED <<hnd, chunkLock>>
  BY <1>2 DEF InlineStep, StartInline, InlineGathered, InlineFails, InlineWrite, InlineMark,
    InlineIncr, InlineSchedule, InlineAcquire, InlineDone, redis, env, locks, handlerVars
<1>3. ASSUME NEW w \in Workers, FinalizeStep(w) PROVE UNCHANGED <<hnd, chunkLock>>
  BY <1>3 DEF FinalizeStep, FinalizeLoad, FinalizeLock, FinalizeFails, FinalizeTooEarly,
    FinalizeReady, Merge, Charge, FinalizeExcept, ReleaseFinalize, redis, env, locks,
    handlerVars
<1>4. ASSUME NEW w \in Workers, TakeJob(w) \/ JobReturns(w) \/ RetryThreadRuns(w)
      PROVE  UNCHANGED <<hnd, chunkLock>>
  BY <1>4 DEF TakeJob, JobReturns, RetryThreadRuns, redis, env, locks, handlerVars
<1>5. ASSUME RqTasksFault PROVE UNCHANGED <<hnd, chunkLock>>
  BY <1>5 DEF RqTasksFault, ParseRaises, PrepareRaises, InlineRaises, RepairRaises,
    PushReplyLost, ClaimReplyLost, EnqueueReplyLost, FinalizeRaises, FinalizeEscapes,
    ReleaseRaises, RetryThreadRaises, HorseDies, FinLockExpires, redis, env, locks,
    handlerVars
<1>6. ASSUME (\E p \in Procs : Pop(p)) \/ Resubmit \/ Cleanup \/ UNCHANGED vars
      PROVE  UNCHANGED <<hnd, chunkLock>>
  BY <1>6 DEF Pop, Resubmit, Cleanup, vars, locks, handlerVars
<1> QED
  BY <1>1, <1>2, <1>3, <1>4, <1>5, <1>6 DEF WorkerStep

\* As long as no lock expires under its holder, whatever else happens (killed
\* processes, lost answers of Redis, swallowed releases): no two handlers work on one
\* batch, so no two write its output file.
THEOREM BatchMutex ==
  ASSUME "ttl" \notin FaultKinds
  PROVE  Spec => []BatchExclusive
<1>1. Init => HandlerContext /\ FailContext /\ LocksHeld
  BY DEF Init, HandlerContext, FailContext, LocksHeld, BatchExclusive, HoldsLock, HoldsSlot,
    IdleHandler
<1>2. /\ TypeOK /\ SlotsAccounted /\ HandlerContext /\ FailContext /\ LocksHeld /\ [Next]_vars
      => SlotsAccounted' /\ HandlerContext' /\ FailContext' /\ LocksHeld'
  <2> SUFFICES ASSUME TypeOK, SlotsAccounted, HandlerContext, FailContext, LocksHeld,
                      [Next]_vars
               PROVE  SlotsAccounted' /\ HandlerContext' /\ FailContext' /\ LocksHeld'
    OBVIOUS
  <2>1. HandlerType
    BY DEF TypeOK
  <2>2. SlotsAccounted' /\ HandlerContext'
    BY NextSlots, ConstantsOK
  <2>3. FailContext' /\ LocksHeld'
    BY <2>1, HandlerStepLocks, WorkerFaultLocks, OthersKeepLocks, OthersFrame, ConstantsOK
    DEF Next, System
  <2> QED
    BY <2>2, <2>3
<1>3. Init => SlotsAccounted
  BY InitSlots, ConstantsOK
<1>4. LocksHeld => BatchExclusive
  BY DEF LocksHeld
<1> QED
  BY <1>1, <1>2, <1>3, <1>4, TypeCorrect, PTL DEF Spec
=============================================================================
