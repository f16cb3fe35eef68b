----------------------------- MODULE Admission -----------------------------
(***************************************************************************)
(* app/services/async_job.py: POST /translate and POST /jobs store an      *)
(* upload, put it on an RQ list and count it against the day's quota; and  *)
(* process_document_job of app/workers/rq_tasks.py, which runs a job from  *)
(* beginning to end when the sharded pipeline is off.                      *)
(***************************************************************************)
EXTENDS JobStore

-----------------------------------------------------------------------------
(* create_and_enqueue_job_from_bytes *)

EnqueueTranslate(s) == \E r \in Asked("translate") : Begin(s, r, "u_check", NoJob)

\* _rough_payg_access_or_402
HasAccess(p) ==
  \/ ~scenario.checkout
  \/ /\ p.subscription_active /\ p.subscription_credits > 0
     /\ p.subscription_expiry = NoTime \/ p.subscription_expiry > 0
  \/ p.free_credits + p.referral_bonus_words > 0
  \/ p.credits_inr_balance >= 1

\* 400 without a quote, 402 without access, 4xx for a file that cannot be read.
UploadCheck(s) ==
  /\ At(s, "u_check")
  /\ IF /\ IF Of(s).deferred THEN Of(s).quote > 0 ELSE HasAccess(profiles[Of(s).user])
        /\ Of(s).doc.readable
     THEN Goto(s, "u_dup") ELSE Answer(s)
  /\ UNCHANGED <<tableVars, redisVars, procVars, horse, ghostVars, countVars>>

\* Only an upload stores a content_hash; rows of the dashboard are not found by it.
RowsOf(u, doc, statuses) ==
  {j \in JobIds : /\ jobs[j] # NoRow /\ jobs[j].path = "jobs"
                  /\ jobs[j].user = u /\ jobs[j].hash = doc /\ jobs[j].status \in statuses}

\* The same document again: the id of its live row is the answer.
UploadDuplicate(s) ==
  /\ At(s, "u_dup")
  /\ IF RowsOf(Of(s).user, Of(s).doc, Live) # {} THEN Answer(s) ELSE Goto(s, "u_capacity")
  /\ UNCHANGED <<tableVars, redisVars, procVars, horse, ghostVars, countVars>>

QueueDepth == MapThenSumSet(LAMBDA j : rqQueue[j], JobIds)

\* ensure_queue_capacity
UploadCapacity(s) ==
  /\ At(s, "u_capacity")
  /\ IF MaxQueueDepth > 0 /\ QueueDepth >= MaxQueueDepth
     THEN Answer(s) ELSE Goto(s, "u_find")
  /\ UNCHANGED <<tableVars, redisVars, procVars, horse, ghostVars, countVars>>

UploadFindFresh(s) ==
  /\ At(s, "u_find") /\ Unused # {}
  /\ api' = [api EXCEPT ![s].pc = "u_insert", ![s].job = FreshId]
  /\ UNCHANGED <<tableVars, redisVars, procVars, horse, ghostVars, countVars>>

\* The second session: a FAILED row of the document is used again.
UploadFind(s) ==
  LET failed == RowsOf(Of(s).user, Of(s).doc, {"failed"}) IN
  /\ At(s, "u_find")
  /\ failed # {} \/ Unused # {}
  /\ \E j \in (IF failed # {} THEN failed ELSE {FreshId}) :
       api' = [api EXCEPT ![s].pc = IF failed # {} THEN "u_reset" ELSE "u_insert", ![s].job = j]
  /\ UNCHANGED <<tableVars, redisVars, procVars, horse, ghostVars, countVars>>

NewRow(r) ==
  [status |-> IF r.deferred THEN "awaiting_payment" ELSE "pending", user |-> r.user, hash |-> r.doc,
   path |-> "jobs", output |-> "none", attempt |-> 0, quote |-> IF r.deferred THEN r.quote ELSE 0, cost |-> 0]

\* A deferred upload is answered here, whichever row it got.
Stored(s) == IF Of(s).deferred THEN Answer(s) ELSE Goto(s, "u_quota")

UploadInsert(s) ==
  /\ At(s, "u_insert")
  /\ jobs' = [jobs EXCEPT ![api[s].job] = NewRow(Of(s))]
  /\ Stored(s)
  /\ UNCHANGED <<profiles, previews, redisVars, procVars, horse, ghostVars, countVars>>

\* The failed row starts again and keeps its quote.
UploadReset(s) ==
  /\ At(s, "u_reset")
  /\ jobs' = [jobs EXCEPT ![api[s].job] = [@ EXCEPT !.status = "pending", !.output = "none",
                                                    !.attempt = 0, !.cost = 0]]
  /\ Stored(s)
  /\ UNCHANGED <<profiles, previews, redisVars, procVars, horse, ghostVars, countVars>>

\* reserve_quota_slot_for_profile, after the row is committed.
UploadQuota(s) ==
  /\ At(s, "u_quota")
  /\ Reserve(s, "u_enqueue", "u_refused")
  /\ UNCHANGED <<tableVars, rqQueue, snapshot, procVars, horse, ghostVars, countVars>>

UploadRefused(s) ==
  /\ At(s, "u_refused")
  /\ Release(s) /\ Answer(s)
  /\ UNCHANGED <<tableVars, rqQueue, snapshot, procVars, horse, ghostVars, countVars>>

\* enqueue_document_job
UploadEnqueue(s) ==
  /\ At(s, "u_enqueue")
  /\ rqQueue' = [rqQueue EXCEPT ![api[s].job] = @ + 1]
  /\ admitted' = [admitted EXCEPT ![Of(s).user] = @ + 1]
  /\ Answer(s)
  /\ UNCHANGED <<tableVars, quota, snapshot, procVars, horse, paid, charges, countVars>>

\* Redis fails before it has the job, or the connection breaks before the reply is read.
UploadEnqueueRaises(s) ==
  /\ At(s, "u_enqueue") /\ Fault
  /\ \/ UNCHANGED <<rqQueue, raced>>
     \/ rqQueue' = [rqQueue EXCEPT ![api[s].job] = @ + 1] /\ raced' = TRUE
  /\ Goto(s, "u_release")
  /\ UNCHANGED <<tableVars, quota, snapshot, procVars, horse, ghostVars, served, crashed, lost, scenario>>

UploadKeepsSlot(s) ==
  /\ At(s, "u_release")
  /\ Goto(s, "u_fail")
  /\ UNCHANGED <<tableVars, redisVars, procVars, horse, ghostVars, countVars>>

\* The slot is given back ...
UploadRelease(s) ==
  /\ At(s, "u_release")
  /\ Release(s) /\ Goto(s, "u_fail")
  /\ UNCHANGED <<tableVars, rqQueue, snapshot, procVars, horse, ghostVars, countVars>>

\* ... and the row fails, so that the document may be sent again.
UploadFail(s) ==
  /\ At(s, "u_fail")
  /\ jobs' = [jobs EXCEPT ![api[s].job].status = "failed"]
  /\ Answer(s)
  /\ UNCHANGED <<profiles, previews, redisVars, procVars, horse, ghostVars, countVars>>

-----------------------------------------------------------------------------
(* process_document_job *)

HAt(h, pc) == horse[h].pc = pc
HGoto(h, pc) == horse' = [horse EXCEPT ![h].pc = pc]
HDone(h) == horse' = [horse EXCEPT ![h] = IdleHorse]

RqTake(h) == \E j \in JobIds :
  /\ HAt(h, "idle") /\ \A first \in Horses : HAt(first, "idle") => h <= first
  /\ rqQueue[j] > 0
  /\ rqQueue' = [rqQueue EXCEPT ![j] = @ - 1]
  /\ horse' = [horse EXCEPT ![h] = [pc |-> "load", job |-> j]]
  /\ UNCHANGED <<tableVars, quota, snapshot, procVars, api, ghostVars, countVars>>

\* A job that waits for its payment or is complete is left alone.
ProcessLoad(h) ==
  LET row == jobs[horse[h].job] IN
  /\ HAt(h, "load")
  /\ IF \/ row.status = "awaiting_payment"
        \/ row.status = "completed" /\ row.output # "none"
     THEN HDone(h) ELSE HGoto(h, "mark")
  /\ UNCHANGED <<tableVars, redisVars, procVars, api, ghostVars, countVars>>

ProcessMark(h) ==
  /\ HAt(h, "mark")
  /\ jobs' = [jobs EXCEPT ![horse[h].job].status = "processing"]
  /\ HGoto(h, "run")
  /\ UNCHANGED <<profiles, previews, redisVars, procVars, api, ghostVars, countVars>>

\* run_pipeline and the export.
ProcessRun(h) ==
  /\ HAt(h, "run")
  /\ HGoto(h, "commit")
  /\ UNCHANGED <<tableVars, redisVars, procVars, api, ghostVars, countVars>>

ProcessRaises(h) ==
  /\ HAt(h, "run")
  /\ HGoto(h, "except")
  /\ UNCHANGED <<tableVars, redisVars, procVars, api, ghostVars, countVars>>

\* One commit for the finished row and the charge.
CommitUnless(h, refused) ==
  LET j == horse[h].job IN
  /\ HAt(h, "commit")
  /\ IF refused THEN HGoto(h, "except") /\ UNCHANGED <<jobs, profiles, charges>>
     ELSE /\ jobs' = [jobs EXCEPT ![j] = [@ EXCEPT !.status = "completed", !.output = "full",
                             !.cost = Bill(jobs[j].user, jobs[j].hash.words).amount_to_pay]]
          /\ ChargeWords(jobs[j].user, j, jobs[j].hash.words)
          /\ HDone(h)
  /\ UNCHANGED <<previews, redisVars, procVars, api, paid, admitted, countVars>>

\* Under checkout a job that the wallet does not cover is an error.
ProcessCommit(h) ==
  LET row == jobs[horse[h].job] IN
  CommitUnless(h, /\ scenario.checkout
                  /\ Bill(row.user, row.hash.words).amount_to_pay > profiles[row.user].credits_inr_balance)

\* _translation_attempt_retry_or_fail; the daemon thread of a retry may not get to run
\* before the horse is gone.
RetryOrFail(h, attempts) ==
  LET j == horse[h].job IN
  /\ HAt(h, "except")
  /\ IF jobs[j].attempt + 1 < attempts
     THEN /\ jobs' = [jobs EXCEPT ![j].status = "pending", ![j].attempt = @ + 1]
          /\ \/ rqQueue' = [rqQueue EXCEPT ![j] = @ + 1] /\ UNCHANGED faults
             \/ Fault /\ UNCHANGED rqQueue
     ELSE /\ jobs' = [jobs EXCEPT ![j].status = "failed"]
          /\ UNCHANGED <<rqQueue, faults>>
  /\ HDone(h)
  /\ UNCHANGED <<profiles, previews, quota, snapshot, procVars, api, ghostVars, noFault>>

ProcessExceptOnceMore(h) == RetryOrFail(h, MaxAttempts + 1)
ProcessExcept(h) == RetryOrFail(h, MaxAttempts)

HorseDies(h) ==
  /\ ~HAt(h, "idle") /\ Fault
  /\ HDone(h)
  /\ UNCHANGED <<tableVars, redisVars, procVars, api, ghostVars, noFault>>

Process(h) ==
  \/ RqTake(h) \/ ProcessLoad(h) \/ ProcessMark(h) \/ ProcessRun(h) \/ ProcessRaises(h)
  \/ ProcessCommit(h) \/ ProcessExcept(h) \/ HorseDies(h)

Admit(s) ==
  \/ UploadCheck(s) \/ UploadDuplicate(s) \/ UploadCapacity(s) \/ UploadFind(s)
  \/ UploadInsert(s) \/ UploadReset(s) \/ UploadQuota(s) \/ UploadRefused(s)
  \/ UploadEnqueue(s) \/ UploadEnqueueRaises(s) \/ UploadRelease(s) \/ UploadFail(s)

=============================================================================
