-------------------------------- MODULE Jobs --------------------------------
(***************************************************************************)
(* The two ways to a translation, side by side over the same table, quota  *)
(* and wallet: uploads that go to the RQ workers (Admission) and jobs of   *)
(* the dashboard that a daemon thread translates (Milestone); and the      *)
(* payment that lets a waiting job of either kind go on.                   *)
(***************************************************************************)
EXTENDS Admission, Milestone

-----------------------------------------------------------------------------
(* A payment for a job; PaymentCapture has the capture itself, step by step *)

\* Razorpay has an order for a job that awaited payment, and may report it again.
Pay(s) == \E r \in Asked("pay") : \E j \in JobIds :
  /\ jobs[j] # NoRow /\ jobs[j].user = r.user
  /\ jobs[j].status = "awaiting_payment" \/ paid[j]
  /\ Begin(s, r, "credit", j)

PayCredit(s) ==
  LET j == api[s].job
      u == api[s].req.user
  IN  /\ At(s, "credit")
      /\ profiles' = IF paid[j] THEN profiles
                     ELSE [profiles EXCEPT ![u].credits_inr_balance = @ + jobs[j].quote]
      /\ paid' = [paid EXCEPT ![j] = TRUE]
      /\ Goto(s, "activate")
      /\ UNCHANGED <<jobs, previews, redisVars, procVars, horse, charges, admitted, countVars>>

\* try_activate_payg_job_after_payment
PayLoad(s) ==
  /\ At(s, "activate")
  /\ IF jobs[api[s].job].status = "awaiting_payment" THEN Goto(s, "pending") ELSE Answer(s)
  /\ UNCHANGED <<tableVars, redisVars, procVars, horse, ghostVars, countVars>>

PayCommit(s) ==
  /\ At(s, "pending")
  /\ jobs' = [jobs EXCEPT ![api[s].job] = [@ EXCEPT !.status = "pending", !.attempt = 0]]
  /\ Goto(s, "pay_quota")
  /\ UNCHANGED <<profiles, previews, redisVars, procVars, horse, ghostVars, countVars>>

PayQuota(s) ==
  /\ At(s, "pay_quota")
  /\ Reserve(s, "dispatch", "pay_refused")
  /\ UNCHANGED <<tableVars, rqQueue, snapshot, procVars, horse, ghostVars, countVars>>

PayRefused(s) ==
  /\ At(s, "pay_refused")
  /\ Release(s) /\ Answer(s)
  /\ UNCHANGED <<tableVars, rqQueue, snapshot, procVars, horse, ghostVars, countVars>>

\* By the path of its file a job belongs to the dashboard or to the RQ workers.
PayDispatch(s) ==
  /\ At(s, "dispatch")
  /\ admitted' = [admitted EXCEPT ![api[s].req.user] = @ + 1]
  /\ IF jobs[api[s].job].path = "milestone" THEN Goto(s, "restore") /\ UNCHANGED threads
     ELSE Spawn(s, "enqueue") /\ Answer(s)
  /\ UNCHANGED <<tableVars, redisVars, memory, horse, paid, charges, countVars>>

\* activate_milestone_after_payg_payment
ActivateMilestone(s, spawn) ==
  LET st == memory[api[s].proc][api[s].job] IN
  /\ At(s, "pay")
  /\ IF st = NoState \/ st.status # "awaiting_payment" THEN Answer(s) /\ UNCHANGED memory
     ELSE /\ memory' = [memory EXCEPT ![api[s].proc][api[s].job].status = "queued"]
          /\ api' = [api EXCEPT ![s].pc = "publish", ![s].spawn = spawn]
  /\ UNCHANGED <<tableVars, redisVars, threads, horse, ghostVars, countVars>>

PayMilestoneNoThread(s) == ActivateMilestone(s, "none")
PayMilestone(s) == ActivateMilestone(s, "full")

\* _bg_enqueue_job; an error of Redis is logged and forgotten.
EnqueueThread(t) ==
  LET j == threads[t].job IN
  /\ TAt(t, "enqueue")
  /\ \/ rqQueue' = [rqQueue EXCEPT ![j] = @ + 1] /\ UNCHANGED faults
     \/ Fault /\ UNCHANGED rqQueue
  /\ threads' = [threads EXCEPT ![t] = IdleThread]
  /\ UNCHANGED <<tableVars, quota, snapshot, memory, api, horse, ghostVars, noFault>>

-----------------------------------------------------------------------------
(* Specification *)

NewProfile(words) ==
  [plan |-> "free", credits_inr_balance |-> 0, free_credits |-> words, referral_bonus_words |-> 0,
   subscription_active |-> FALSE, subscription_credits |-> 0, subscription_started_at |-> NoTime,
   subscription_period_start |-> NoTime, subscription_contract_end |-> NoTime,
   subscription_expiry |-> NoTime, pending_subscription_kind |-> None]

Init ==
  /\ scenario \in Scenarios
  /\ jobs = [j \in JobIds |-> NoRow]
  /\ profiles = [u \in Users |-> NewProfile(scenario.free)]
  /\ previews = [u \in Users |-> 0]
  /\ rqQueue = [j \in JobIds |-> 0]
  /\ quota = [u \in Users |-> 0]
  /\ snapshot = [j \in JobIds |-> NoState]
  /\ memory = [p \in scenario.procs |-> [j \in JobIds |-> NoState]]
  /\ threads = [t \in Threads |-> IdleThread]
  /\ api = [s \in Slots |-> IdleSlot]
  /\ horse = [h \in Horses |-> IdleHorse]
  /\ paid = [j \in JobIds |-> FALSE]
  /\ charges = [j \in JobIds |-> 0]
  /\ admitted = [u \in Users |-> 0]
  /\ served = 0 /\ faults = 0 /\ raced = FALSE /\ crashed = FALSE /\ lost = {}

Accept(s) == EnqueueTranslate(s) \/ Upload(s) \/ AskMilestone(s) \/ Pay(s)

Serve(s) ==
  \/ Admit(s) \/ Dashboard(s)
  \/ PayCredit(s) \/ PayLoad(s) \/ PayCommit(s) \/ PayQuota(s) \/ PayRefused(s)
  \/ PayDispatch(s) \/ PayMilestone(s)

Next ==
  \/ \E s \in Slots : Accept(s) \/ Serve(s)
  \/ \E t \in Threads : Translate(t) \/ EnqueueThread(t)
  \/ \E h \in Horses : Process(h)
  \/ \E p \in scenario.procs : Crash(p)
  \/ \E j \in JobIds : SnapshotExpires(j)

\* While a request, a thread or an RQ worker can go on, one of them does.  Each can take
\* but so many steps, as requests and faults are bounded: none is left behind for ever.
Fairness == WF_vars(\/ \E s \in Slots : Serve(s)
                    \/ \E t \in Threads : Translate(t) \/ EnqueueThread(t)
                    \/ \E h \in Horses : Process(h))

Spec == Init /\ [][Next]_vars /\ Fairness

-----------------------------------------------------------------------------
(* Properties *)

Statuses == {"pending", "awaiting_payment", "processing", "completed", "failed", "preview_ready"}

\* Every column, key and counter has its type.
TypeOK ==
  /\ \A j \in JobIds : jobs[j] # NoRow =>
       /\ jobs[j].status \in Statuses /\ jobs[j].user \in Users /\ jobs[j].hash \in Documents
       /\ jobs[j].output \in {"none", "preview", "full"} /\ jobs[j].attempt \in 0 .. MaxAttempts - 1
       /\ {jobs[j].quote, jobs[j].cost} \subseteq Nat
  /\ \A p \in scenario.procs : \A j \in JobIds : memory[p][j] # NoState =>
       memory[p][j].status \in Statuses \cup {"pending_estimate", "estimated", "queued"}
  /\ \A j \in JobIds : rqQueue[j] \in Nat /\ charges[j] \in Nat
  /\ \A u \in Users : {previews[u], quota[u], admitted[u]} \subseteq Nat
  /\ \A u \in Users : profiles[u].credits_inr_balance \in Int /\ profiles[u].free_credits \in Nat

Holding(u) == {s \in Slots : /\ api[s].pc \in {"u_enqueue", "u_refused", "u_release", "dispatch", "pay_refused"}
                             /\ api[s].req.user = u}

\* The day's quota holds though each request counts itself before it looks at the limit,
\* and the counter is the jobs let in and the requests on their way; a process that dies
\* may only leave it too high.
QuotaHolds == \A u \in Users :
  /\ admitted[u] <= scenario.limit
  /\ quota[u] >= admitted[u] + Cardinality(Holding(u))
  /\ ~crashed => quota[u] = admitted[u] + Cardinality(Holding(u))

\* While no two requests overlapped: a document sent again, after a failure, a crash or a
\* payment, never makes a second row.
OneRowPerDocument == ~raced => \A u \in Users : \A d \in Documents :
  Cardinality(RowsOf(u, d, Statuses)) <= 1

\* One process, no two requests overlapped, and none failed to save its copy to Redis.
Orderly == ~raced /\ "snapshot" \notin lost /\ Cardinality(scenario.procs) = 1

\* While requests are orderly: a job is charged at most once, whatever is retried, sent
\* again, paid again or interrupted, and though the copies of a thread are lost.
ChargedOnce == Orderly => \A j \in JobIds : charges[j] <= 1

\* While no two requests overlapped: a document whose upload waits for a payment is not
\* translated before that, neither for this row nor by sending the file again.
DeferredIsPaid == ~raced => \A j \in JobIds :
  (jobs[j] # NoRow /\ jobs[j].path = "jobs" /\ jobs[j].quote > 0 /\ ~paid[j]) =>
    RowsOf(jobs[j].user, jobs[j].hash, {"processing", "completed"}) = {}

\* Where a job's status, or the list overlaid with the memory of a process, says that a
\* translation is complete, that process serves the whole document, not the preview of it
\* and not a 404: always where it has the job in its memory, and while no two requests
\* overlapped also where the process that made it died and only the row is left.
ShownIsServed == \A p \in scenario.procs : \A u \in Users : \A j \in ListedTo(p, u) :
  (StatusShown(p, j) = "completed" /\ (~raced \/ memory[p][j] # NoState)) => DocxServed(p, j) = "full"

\* While requests are orderly: what the history of completed jobs lists is served whole.  It
\* shows the rows without the memory, so a copy of the preview in memory must be gone.
HistoryIsServed == Orderly => \A p \in scenario.procs : \A u \in Users : \A j \in History(u) :
  DocxServed(p, j) = "full"

SignedIn == \A r \in scenario.requests : r.user # Nobody


AtRest(j) == /\ \A s \in Slots : api[s].job # j
             /\ \A t \in Threads : threads[t].job # j

\* A payment that the day's quota refused leaves the row pending while the job still waits.
RefusedByQuota(j, st) == /\ paid[j] /\ jobs[j].status = "pending" /\ st.status = "awaiting_payment"
                         /\ quota[jobs[j].user] >= scenario.limit

\* While nothing failed outside, no two requests overlapped and one process serves them:
\* once a job of the dashboard is at rest, its memory, its snapshot and its row agree,
\* but for the row of a paid job that the quota refused.
CopiesAgree == (~raced /\ faults = 0 /\ Cardinality(scenario.procs) = 1) =>
  \A p \in scenario.procs : \A j \in JobIds : (memory[p][j] # NoState /\ AtRest(j)) =>
    /\ snapshot[j].status = memory[p][j].status
    /\ jobs[j] # NoRow => /\ jobs[j].status = DbStatus(memory[p][j].status) \/ RefusedByQuota(j, memory[p][j])
                          /\ jobs[j].status = "completed" => jobs[j].cost = memory[p][j].cost

\* One process, nothing fails outside and the quota is not used up.
Calm == scenario.faults = 0 /\ Cardinality(scenario.procs) = 1 /\ scenario.limit >= scenario.most

\* A job that waits for its payment when that is captured is translated, or fails, in the end.
PaidJobEnds == \A j \in JobIds :
  (Calm /\ paid[j] /\ jobs[j].status = "awaiting_payment") ~> (raced \/ jobs[j].status \in {"completed", "failed"})
=============================================================================
