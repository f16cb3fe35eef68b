----------------------------- MODULE Milestone -----------------------------
(***************************************************************************)
(* app/api/routes/legacy_compat.py: the dashboard's jobs.  A process keeps *)
(* them in its memory, copies them to Redis so that another process can    *)
(* pick them up, writes a row of table jobs once a translation starts, and *)
(* runs the translation in a daemon thread of its own.                     *)
(***************************************************************************)
EXTENDS JobStore

\* The job of a request as its process has it.
Mine(s) == memory[api[s].proc][api[s].job]
Remember(s, st) == memory' = [memory EXCEPT ![api[s].proc][api[s].job] = st]

\* _MilestoneState(...): with a word count it is estimated, else a draft.
NewState(doc, user, status, cost) ==
  [status |-> status, doc |-> doc, user |-> user, cost |-> cost, docx |-> "none", bill |-> FALSE]

\* preview_eligibility: a short document cannot be read for free.
PreviewEligible(doc) == doc.pages > PreviewPages

\* _milestone_ui_status_to_db_job_status
DbStatus(status) ==
  IF status \in {"completed", "preview_ready", "failed", "processing", "awaiting_payment"}
  THEN status ELSE "pending"

\* _billing_for_profile_word_count, or _empty_billing_dict without a profile.
AmountToPay(u, words) == IF u = Nobody THEN EstimatePaygInr(words) ELSE Bill(u, words).amount_to_pay

-----------------------------------------------------------------------------
(* Upload and estimate *)

\* POST /upload counts the words at once, POST /api/jobs leaves that to /estimate.
Upload(s) == \E r \in Asked("upload") : Unused # {} /\ Begin(s, r, "upload", FreshId)

StoreUpload(s) ==
  /\ At(s, "upload")
  /\ IF ~Of(s).draft /\ ~Of(s).doc.readable
     THEN Answer(s) /\ UNCHANGED memory
     ELSE /\ Remember(s, IF Of(s).draft THEN NewState(Of(s).doc, Of(s).user, "pending_estimate", 0)
                         ELSE NewState(Of(s).doc, Of(s).user, "estimated",
                                       AmountToPay(Of(s).user, Of(s).doc.words)))
          /\ Goto(s, "publish")
  /\ UNCHANGED <<tableVars, redisVars, threads, horse, ghostVars, countVars>>

Known(j) == \/ jobs[j] # NoRow /\ jobs[j].path = "milestone"
            \/ snapshot[j] # NoState \/ \E p \in DOMAIN memory : memory[p][j] # NoState

\* A request about a job that exists: estimate, start, confirm, preview or poll.
AskMilestone(s) == \E r \in scenario.requests : \E j \in JobIds :
  /\ r.op \in {"estimate", "start", "confirm", "preview", "poll"}
  /\ Known(j) /\ Begin(s, r, "restore", j)

\* _legacy_maybe_restore_milestone_from_redis: only a process that does not have the job
\* asks Redis.  The copy is as old as the last publish.
Restore(s) ==
  /\ At(s, "restore")
  /\ IF Mine(s) = NoState THEN Remember(s, snapshot[api[s].job]) ELSE UNCHANGED memory
  /\ Goto(s, Of(s).op)
  /\ UNCHANGED <<tableVars, redisVars, threads, horse, ghostVars, countVars>>

\* The status is looked at, the words are counted without the lock ...
EstimateCheck(s) ==
  /\ At(s, "estimate")
  /\ IF Mine(s) = NoState THEN Answer(s)
     ELSE IF Mine(s).status # "pending_estimate" THEN Goto(s, "publish")
     ELSE IF Mine(s).doc.readable THEN Goto(s, "counted") ELSE Answer(s)
  /\ UNCHANGED <<tableVars, redisVars, procVars, horse, ghostVars, countVars>>

\* ... and the estimate is stored if nobody else did.
EstimateStore(s) ==
  /\ At(s, "counted")
  /\ IF Mine(s).status = "pending_estimate"
     THEN Remember(s, [Mine(s) EXCEPT !.status = "estimated", !.cost = EstimatePaygInr(Mine(s).doc.words)])
     ELSE UNCHANGED memory
  /\ Goto(s, "publish")
  /\ UNCHANGED <<tableVars, redisVars, threads, horse, ghostVars, countVars>>

-----------------------------------------------------------------------------
(* Start, confirm and preview *)

Signed(s, st) == [st EXCEPT !.user = IF Of(s).user = Nobody THEN @ ELSE Of(s).user]

\* What starts a translation writes the row if somebody is signed in, and then publishes.
Commits(s, spawn) ==
  api' = [api EXCEPT ![s].pc = IF Of(s).user = Nobody THEN "publish" ELSE "sync", ![s].spawn = spawn]

\* /start looks at the status and sets it under one lock.
Start(s) ==
  /\ At(s, "start")
  /\ IF Mine(s) = NoState \/ Mine(s).status # "estimated" THEN Answer(s) /\ UNCHANGED memory
     ELSE Remember(s, [Signed(s, Mine(s)) EXCEPT !.status = "queued"]) /\ Commits(s, "full")
  /\ UNCHANGED <<tableVars, redisVars, threads, horse, ghostVars, countVars>>

ConfirmAnyway(s) ==
  /\ At(s, "confirm")
  /\ IF Mine(s) = NoState THEN Answer(s) /\ UNCHANGED memory
     ELSE Remember(s, [Signed(s, Mine(s)) EXCEPT !.docx = "none"]) /\ Goto(s, "bill")
  /\ UNCHANGED <<tableVars, redisVars, threads, horse, ghostVars, countVars>>

\* /job/confirm looks at the status under a first lock ...
ConfirmCheck(s) ==
  /\ At(s, "confirm")
  /\ IF Mine(s) = NoState \/ Mine(s).status \notin {"estimated", "preview_ready"}
     THEN Answer(s) /\ UNCHANGED memory
     ELSE /\ Remember(s, [Signed(s, Mine(s)) EXCEPT
                            !.docx = IF Mine(s).status = "preview_ready" THEN "none" ELSE @])
          /\ Goto(s, "bill")
  /\ UNCHANGED <<tableVars, redisVars, threads, horse, ghostVars, countVars>>

\* ... asks what the words cost; only a signed-in user can check out ...
ConfirmBill(s) ==
  LET checkout == scenario.checkout /\ AmountToPay(Of(s).user, Mine(s).doc.words) > 0 IN
  /\ At(s, "bill")
  /\ IF checkout /\ Of(s).user = Nobody THEN Answer(s)
     ELSE Goto(s, IF checkout THEN "await" ELSE "queue")
  /\ UNCHANGED <<tableVars, redisVars, procVars, horse, ghostVars, countVars>>

\* ... and sets the status under a second one, whatever it is by then.
ConfirmAwait(s) ==
  /\ At(s, "await")
  /\ Remember(s, [Mine(s) EXCEPT !.status = "awaiting_payment"])
  /\ Commits(s, "none")
  /\ UNCHANGED <<tableVars, redisVars, threads, horse, ghostVars, countVars>>

ConfirmQueue(s) ==
  /\ At(s, "queue")
  /\ Remember(s, [Mine(s) EXCEPT !.status = "queued"])
  /\ Commits(s, "full")
  /\ UNCHANGED <<tableVars, redisVars, threads, horse, ghostVars, countVars>>

PreviewCheck(s) ==
  /\ At(s, "preview")
  /\ IF \/ Of(s).user = Nobody \/ Mine(s) = NoState
        \/ Mine(s).status # "estimated" \/ ~PreviewEligible(Mine(s).doc)
     THEN Answer(s) /\ UNCHANGED memory
     ELSE Remember(s, Signed(s, Mine(s))) /\ Goto(s, "p_quota")
  /\ UNCHANGED <<tableVars, redisVars, threads, horse, ghostVars, countVars>>

\* _consume_preview_quota
PreviewQuota(s) ==
  LET u == Of(s).user IN
  /\ At(s, "p_quota")
  /\ IF previews[u] >= PreviewStarts THEN Answer(s) /\ UNCHANGED previews
     ELSE previews' = [previews EXCEPT ![u] = @ + 1] /\ Goto(s, "p_queue")
  /\ UNCHANGED <<jobs, profiles, redisVars, procVars, horse, ghostVars, countVars>>

PreviewQueue(s) ==
  /\ At(s, "p_queue")
  /\ Remember(s, [Mine(s) EXCEPT !.status = "queued"])
  /\ Commits(s, "preview")
  /\ UNCHANGED <<tableVars, redisVars, threads, horse, ghostVars, countVars>>

\* A poll only restores.
Poll(s) ==
  /\ At(s, "poll")
  /\ Answer(s)
  /\ UNCHANGED <<tableVars, redisVars, procVars, horse, ghostVars, countVars>>

-----------------------------------------------------------------------------
(* _legacy_sync_milestone_to_db_on_commit and _legacy_publish_milestone *)

SyncRead(s) ==
  /\ At(s, "sync")
  /\ api' = [api EXCEPT ![s].pc = "write", ![s].copy = Mine(s)]
  /\ UNCHANGED <<tableVars, redisVars, procVars, horse, ghostVars, countVars>>


\* A new row, or the columns of the one there is.
SyncedRow(row, st, u) ==
  [status |-> DbStatus(st.status), user |-> IF row = NoRow THEN u ELSE row.user, hash |-> st.doc,
   path |-> "milestone", output |-> IF row = NoRow THEN "none" ELSE row.output, attempt |-> 0,
   quote |-> IF st.status = "awaiting_payment" THEN st.cost ELSE 0, cost |-> st.cost]

\* An error of the database is logged, and the request goes on without the row.
SyncWrite(s) ==
  /\ At(s, "write")
  /\ \/ /\ jobs' = [jobs EXCEPT ![api[s].job] = SyncedRow(@, api[s].copy, Of(s).user)]
        /\ UNCHANGED <<faults, lost>>
     \/ Fault /\ lost' = lost \cup {"row"} /\ UNCHANGED jobs
  /\ Goto(s, "publish")
  /\ UNCHANGED <<profiles, previews, redisVars, procVars, horse, ghostVars, served, raced, crashed, scenario>>

PublishRead(s) ==
  /\ At(s, "publish")
  /\ api' = [api EXCEPT ![s].pc = "set", ![s].copy = Mine(s)]
  /\ UNCHANGED <<tableVars, redisVars, procVars, horse, ghostVars, countVars>>

\* An error of Redis is logged, and the request goes on: the older copy, if any, stays.
PublishSet(s) ==
  /\ At(s, "set")
  /\ \/ snapshot' = [snapshot EXCEPT ![api[s].job] = api[s].copy] /\ UNCHANGED <<faults, lost>>
     \/ Fault /\ lost' = lost \cup {"snapshot"} /\ UNCHANGED snapshot
  /\ IF api[s].spawn = "none" THEN Answer(s) ELSE Goto(s, "spawn")
  /\ UNCHANGED <<tableVars, rqQueue, quota, procVars, horse, ghostVars, served, raced, crashed, scenario>>

SpawnThread(s) ==
  /\ At(s, "spawn")
  /\ Spawn(s, api[s].spawn) /\ Answer(s)
  /\ UNCHANGED <<tableVars, redisVars, memory, horse, ghostVars, countVars>>

-----------------------------------------------------------------------------
(* _run_milestone_job and _run_milestone_preview_job *)

TAt(t, pc) == threads[t].pc = pc
JobOf(t) == threads[t].job
\* ... and as a thread finds it in the memory of its process.
Held(t) == memory[threads[t].proc][JobOf(t)]
Becomes(t, st) == memory' = [memory EXCEPT ![threads[t].proc][JobOf(t)] = st]
TGoto(t, pc) == threads' = [threads EXCEPT ![t].pc = pc]
Publishes(t, after) == threads' = [threads EXCEPT ![t].pc = "publish", ![t].after = after]

ThreadBegin(t) ==
  /\ TAt(t, "begin")
  /\ Becomes(t, [Held(t) EXCEPT !.status = "processing"])
  /\ Publishes(t, "row_processing")
  /\ UNCHANGED <<tableVars, redisVars, api, horse, ghostVars, countVars>>

ThreadPublishRead(t) ==
  /\ TAt(t, "publish")
  /\ threads' = [threads EXCEPT ![t].pc = "set", ![t].copy = Held(t)]
  /\ UNCHANGED <<tableVars, redisVars, memory, api, horse, ghostVars, countVars>>

Ends(t, pc) == threads' = [threads EXCEPT ![t] = IF pc = "end" THEN IdleThread
                                                       ELSE [@ EXCEPT !.pc = pc, !.copy = NoState]]

ThreadPublishSet(t) ==
  /\ TAt(t, "set")
  /\ snapshot' = [snapshot EXCEPT ![JobOf(t)] = threads[t].copy]
  /\ Ends(t, threads[t].after)
  /\ UNCHANGED <<tableVars, rqQueue, quota, memory, api, horse, ghostVars, countVars>>

\* Redis fails; the error is only logged.
ThreadPublishFails(t) ==
  /\ TAt(t, "set") /\ Fault
  /\ Ends(t, threads[t].after)
  /\ UNCHANGED <<tableVars, redisVars, memory, api, horse, ghostVars, noFault>>

\* _legacy_update_job_row: without a row, one is made if the memory knows whose it is.
UpdateRow(t, status, output, cost) ==
  LET j == JobOf(t)
      row == IF jobs[j] # NoRow THEN jobs[j]
             ELSE [SyncedRow(NoRow, Held(t), Held(t).user) EXCEPT !.quote = 0]
  IN  jobs' = IF jobs[j] = NoRow /\ Held(t).user = Nobody THEN jobs
              ELSE [jobs EXCEPT ![j] = [row EXCEPT !.status = status,
                                                   !.output = IF output = "none" THEN @ ELSE output,
                                                   !.cost = cost]]

RowCost(t) == IF jobs[JobOf(t)] # NoRow THEN jobs[JobOf(t)].cost ELSE Held(t).cost

ThreadRowProcessing(t) ==
  /\ TAt(t, "row_processing")
  /\ UpdateRow(t, "processing", "none", RowCost(t))
  /\ TGoto(t, "run")
  /\ UNCHANGED <<profiles, previews, redisVars, memory, api, horse, ghostVars, countVars>>

\* run_pipeline and the PDF; a PDF that cannot be made is left out.
ThreadRun(t) ==
  /\ TAt(t, "run")
  /\ Becomes(t, IF threads[t].kind = "full" THEN [Held(t) EXCEPT !.status = "completed", !.docx = "full"]
                ELSE [Held(t) EXCEPT !.status = "preview_ready", !.docx = "preview"])
  /\ Publishes(t, IF threads[t].kind = "full" THEN "settle" ELSE "row_preview")
  /\ UNCHANGED <<tableVars, redisVars, api, horse, ghostVars, countVars>>

\* No key is configured, the pipeline raises or a preview has no text.
ThreadRaises(t) ==
  /\ TAt(t, "run")
  /\ Becomes(t, [Held(t) EXCEPT !.status = "failed"])
  /\ TGoto(t, "row_failed")
  /\ UNCHANGED <<tableVars, redisVars, api, horse, ghostVars, countVars>>

ThreadRowFailedUnpublished(t) ==
  /\ TAt(t, "row_failed")
  /\ UpdateRow(t, "failed", "none", RowCost(t))
  /\ threads' = [threads EXCEPT ![t] = IdleThread]
  /\ UNCHANGED <<profiles, previews, redisVars, memory, api, horse, ghostVars, countVars>>

ThreadRowFailed(t) ==
  /\ TAt(t, "row_failed")
  /\ UpdateRow(t, "failed", "none", RowCost(t))
  /\ Publishes(t, "end")
  /\ UNCHANGED <<profiles, previews, redisVars, memory, api, horse, ghostVars, countVars>>

ThreadRowPreviewAsCompleted(t) ==
  /\ TAt(t, "row_preview")
  /\ UpdateRow(t, "completed", "preview", RowCost(t))
  /\ Publishes(t, "end")
  /\ UNCHANGED <<profiles, previews, redisVars, memory, api, horse, ghostVars, countVars>>

ThreadRowPreview(t) ==
  /\ TAt(t, "row_preview")
  /\ UpdateRow(t, "preview_ready", "preview", RowCost(t))
  /\ Publishes(t, "end")
  /\ UNCHANGED <<profiles, previews, redisVars, memory, api, horse, ghostVars, countVars>>

\* _legacy_settle_milestone_billing: the charge ...
ThreadSettle(t) ==
  /\ TAt(t, "settle")
  /\ IF Held(t).user = Nobody
     THEN UNCHANGED <<profiles, charges>> /\ TGoto(t, "row_completed")
     ELSE /\ ChargeWords(Held(t).user, JobOf(t), Held(t).doc.words)
          /\ threads' = [threads EXCEPT ![t].pc = "bill",
                                        ![t].cost = Bill(Held(t).user, Held(t).doc.words).amount_to_pay]
  /\ UNCHANGED <<jobs, previews, redisVars, memory, api, horse, paid, admitted, countVars>>

\* ... whose errors are only logged ...
ThreadSettleFails(t) ==
  /\ TAt(t, "settle") /\ Fault
  /\ TGoto(t, "row_completed")
  /\ UNCHANGED <<tableVars, redisVars, memory, api, horse, ghostVars, noFault>>

\* ... and its breakdown.
ThreadBill(t) ==
  /\ TAt(t, "bill")
  /\ Becomes(t, [Held(t) EXCEPT !.bill = TRUE, !.cost = threads[t].cost])
  /\ TGoto(t, "row_completed")
  /\ UNCHANGED <<tableVars, redisVars, api, horse, ghostVars, countVars>>

\* The status alone: the output comes with the next update.
ThreadRowCompletedEarly(t) ==
  /\ TAt(t, "row_completed")
  /\ UpdateRow(t, "completed", "none", Held(t).cost)
  /\ Publishes(t, "end")
  /\ UNCHANGED <<profiles, previews, redisVars, memory, api, horse, ghostVars, countVars>>

ThreadRowCompleted(t) ==
  /\ TAt(t, "row_completed")
  /\ UpdateRow(t, "completed", "full", Held(t).cost)
  /\ Publishes(t, "end")
  /\ UNCHANGED <<profiles, previews, redisVars, memory, api, horse, ghostVars, countVars>>

\* The database fails; the error is only logged.
ThreadRowFails(t) ==
  /\ threads[t].pc \in {"row_processing", "row_completed", "row_failed", "row_preview"} /\ Fault
  /\ IF TAt(t, "row_processing") THEN TGoto(t, "run") ELSE Publishes(t, "end")
  /\ UNCHANGED <<tableVars, redisVars, memory, api, horse, ghostVars, noFault>>

\* The key's two days are over.
SnapshotExpires(j) ==
  /\ snapshot[j] # NoState /\ Fault
  /\ snapshot' = [snapshot EXCEPT ![j] = NoState]
  /\ UNCHANGED <<tableVars, rqQueue, quota, procVars, api, horse, ghostVars, noFault>>

Dashboard(s) ==
  \/ StoreUpload(s) \/ Restore(s) \/ EstimateCheck(s) \/ EstimateStore(s)
  \/ Start(s) \/ ConfirmCheck(s) \/ ConfirmBill(s) \/ ConfirmAwait(s) \/ ConfirmQueue(s)
  \/ PreviewCheck(s) \/ PreviewQuota(s) \/ PreviewQueue(s) \/ Poll(s)
  \/ SyncRead(s) \/ SyncWrite(s) \/ PublishRead(s) \/ PublishSet(s) \/ SpawnThread(s)

Translate(t) ==
  \/ ThreadBegin(t) \/ ThreadPublishRead(t) \/ ThreadPublishSet(t) \/ ThreadPublishFails(t)
  \/ ThreadRowProcessing(t) \/ ThreadRun(t) \/ ThreadRaises(t) \/ ThreadRowFailed(t)
  \/ ThreadRowPreview(t) \/ ThreadSettle(t) \/ ThreadSettleFails(t) \/ ThreadBill(t)
  \/ ThreadRowCompleted(t) \/ ThreadRowFails(t)

-----------------------------------------------------------------------------
(* What the owner of a job is told: legacy_job_status, legacy_list_jobs, translated.docx *)

\* ... by its status, and by the list that is overlaid with the memory.
StatusShown(p, j) ==
  IF memory[p][j] # NoState THEN memory[p][j].status ELSE jobs[j].status

DocxServed(p, j) ==
  IF memory[p][j] # NoState /\ memory[p][j].docx # "none" THEN memory[p][j].docx
  ELSE IF jobs[j] # NoRow /\ jobs[j].status \in {"completed", "preview_ready"} THEN jobs[j].output
  ELSE "none"

\* GET /api/jobs without completed_only: the rows of the user, and over them the memory
\* of the process; a job nobody has signed in for is on everybody's list.
ListedTo(p, u) ==
  {j \in JobIds : IF memory[p][j] # NoState THEN memory[p][j].user \in {u, Nobody}
                  ELSE jobs[j] # NoRow /\ jobs[j].user = u}

\* GET /api/jobs?completed_only=true, of any process: the rows alone.  A row completed once
\* that is something else by now is listed with that status, and is left out here.
History(u) == {j \in JobIds : jobs[j] # NoRow /\ jobs[j].user = u /\ jobs[j].status = "completed"}
=============================================================================
