--------------------------- MODULE PaymentCapture ---------------------------
(***************************************************************************)
(* app/services/profile_inr_credit.py and app/services/payment_capture.py: *)
(* a captured Razorpay payment credits the wallet and activates the job it *)
(* was made for.  The client's verify-captured-payment (billing.py) and    *)
(* the payment.captured webhook (razorpay_webhook.py) call the same code.  *)
(***************************************************************************)
EXTENDS AccountSession

CONSTANTS FreeDailyJobs, PaidDailyJobs      \* free_tier_daily_jobs, paid_tier_daily_jobs

-----------------------------------------------------------------------------
(* Orders and the two ways a captured payment is reported *)

\* create-payg-translation-order: only while the job awaits payment.
CreatePaygOrder(p) ==
  /\ p.kind = "payg" /\ p.user = JobOwner /\ p.id \notin orders
  /\ jobStatus = "awaiting_payment"
  /\ orders' = orders \cup {p.id}
  /\ UNCHANGED <<tables, jobVars, lockVars, now, confirmed, worker, countVars>>

\* verify-captured-payment: Razorpay confirms the signature, the capture and the account.
VerifyCapturedPayment(w) == \E r \in Asked("capture") :
  r.id \in orders /\ Begin(w, r, "c_lookup", PaymentOf(r.id).user)

\* payment.captured.  The order's notes say what the payment is for; when Razorpay does
\* not hand them out, the delivery is acknowledged and nothing happens.
WebhookPaymentCaptured(w) == \E r \in Asked("delivery") :
  r.id \in orders /\ \E pc \in {"c_lookup", "done"} : Begin(w, r, pc, PaymentOf(r.id).user)

Acknowledge(w) ==
  /\ At(w, "done") /\ Finish(w)
  /\ UNCHANGED <<tables, jobVars, outsideVars, countVars>>

-----------------------------------------------------------------------------
(* credit_inr_from_razorpay *)

CreditUnchecked(w) ==
  /\ At(w, "c_lookup")
  /\ Goto(w, "c_load")
  /\ UNCHANGED <<tables, jobVars, lockVars, outsideVars, countVars>>

ActivateFirst(w) ==
  /\ At(w, "c_lookup")
  /\ Step(w, Fresh(w, "a_load"))
  /\ UNCHANGED <<tables, jobVars, lockVars, outsideVars, countVars>>

\* select(PaymentTransaction) by external_id; the column has no UNIQUE constraint.
CreditLookup(w) ==
  /\ At(w, "c_lookup")
  /\ Step(w, IF transactions[worker[w].req.id] > 0 THEN Fresh(w, "a_load")
             ELSE [worker[w] EXCEPT !.pc = "c_load"])
  /\ UNCHANGED <<tables, jobVars, lockVars, outsideVars, countVars>>

\* session.get(Profile), the new balance and the new row.
CreditLoad(w) ==
  LET u == worker[w].user
      p == PaymentOf(worker[w].req.id)
      row == [profiles[u] EXCEPT !.credits_inr_balance = @ + p.amount]
  IN  /\ At(w, "c_load")
      /\ Step(w, [worker[w] EXCEPT !.pc = "c_commit", !.rows = {p.id},
                                   !.prof = Put(Load(@, u, profiles[u]), u, row)])
      /\ UNCHANGED <<tables, jobVars, lockVars, outsideVars, countVars>>

\* One commit for both; then try_referrer_payout_after_referee_event.
CreditCommit(w) ==
  /\ At(w, "c_commit")
  /\ Commit(w, worker[w]) /\ Step(w, Fresh(w, "r_attr"))
  /\ UNCHANGED <<jobVars, outsideVars, countVars>>

-----------------------------------------------------------------------------
(* try_activate_payg_job_after_payment *)

ActivateAgain(w) ==
  LET u == worker[w].user
  IN  /\ At(w, "a_load")
      /\ IF u # JobOwner THEN Finish(w)
         ELSE /\ Step(w, [worker[w] EXCEPT !.pc = "a_commit", !.prof = Load(@, u, profiles[u])])
              /\ UNCHANGED lockVars
      /\ UNCHANGED <<tables, jobVars, outsideVars, countVars>>

\* The job and the plan are read and the plan ...
ActivateLoad(w) ==
  LET u == worker[w].user
  IN  /\ At(w, "a_load")
      /\ IF u # JobOwner \/ jobStatus # "awaiting_payment" THEN Finish(w)
         ELSE /\ Step(w, [worker[w] EXCEPT !.pc = "a_commit", !.prof = Load(@, u, profiles[u])])
              /\ UNCHANGED lockVars
      /\ UNCHANGED <<tables, jobVars, outsideVars, countVars>>

\* ... and commits PENDING, whatever the row says by now.
ActivateCommit(w) ==
  /\ At(w, "a_commit")
  /\ jobStatus' = "pending"
  /\ Goto(w, "a_quota")
  /\ UNCHANGED <<tables, enqueued, quota, threads, lockVars, outsideVars, countVars>>

DailyLimit(plan) == IF plan \in PaidPlans THEN PaidDailyJobs ELSE FreeDailyJobs

\* reserve_quota_slot_for_profile: INCR, and DECR and a 429 above the limit.
ActivateQuota(w) ==
  LET plan == worker[w].prof[worker[w].user].new.plan
  IN  /\ At(w, "a_quota")
      /\ quota' = quota + 1
      /\ Goto(w, IF quota' > DailyLimit(plan) THEN "a_undo" ELSE "a_spawn")
      /\ UNCHANGED <<tables, jobStatus, enqueued, threads, lockVars, outsideVars, countVars>>

ActivateRefused(w) ==
  /\ At(w, "a_undo")
  /\ quota' = quota - 1
  /\ Finish(w)
  /\ UNCHANGED <<tables, jobStatus, enqueued, threads, outsideVars, countVars>>

\* _enqueue_job_async
ActivateSpawn(w) ==
  /\ At(w, "a_spawn")
  /\ threads' = threads + 1
  /\ Finish(w)
  /\ UNCHANGED <<tables, jobStatus, enqueued, quota, outsideVars, countVars>>

\* The daemon thread enqueues; an error of Redis is logged and forgotten.
ThreadEnqueues ==
  /\ threads > 0
  /\ threads' = threads - 1
  /\ enqueued' = enqueued + 1
  /\ UNCHANGED <<tables, jobStatus, quota, lockVars, outsideVars, worker, countVars>>

ThreadFails ==
  /\ threads > 0 /\ faults < scenario.faults
  /\ threads' = threads - 1
  /\ faults' = faults + 1
  /\ UNCHANGED <<tables, jobStatus, enqueued, quota, lockVars, outsideVars, worker, charged, served, raced, scenario>>
=============================================================================
