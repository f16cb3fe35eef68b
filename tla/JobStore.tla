------------------------------ MODULE JobStore ------------------------------
(***************************************************************************)
(* What the upload endpoints, the dashboard endpoints, the RQ workers and  *)
(* the payment side share: table jobs, the columns of profiles a job is    *)
(* charged to, the Redis keys, and the memory of each API process.  A slot *)
(* is a thread of an API process that serves one request; a row or a Redis *)
(* key is read and written in steps of its own wherever the code keeps a   *)
(* copy in between.                                                        *)
(***************************************************************************)
EXTENDS WordCredits, FiniteSets, FiniteSetsExt

CONSTANTS
  Slots, Threads, Horses,  \* API threads, daemon threads, RQ work horses; like
  JobIds,                  \* the ids, sets of naturals: the least that is free is taken
  Users,
  Documents,               \* [words, pages, readable]
  Scenarios,               \* [requests, most, overlap, faults, procs, checkout, limit, free]
  MaxAttempts,             \* translation_max_processing_attempts
  MaxQueueDepth,           \* rq_max_queue_depth
  PreviewPages,            \* translation_preview_max_pages
  PreviewStarts            \* translation_preview_max_starts_per_day

ASSUME StoreConstants == /\ UNION {Slots, Threads, Horses, JobIds} \subseteq Nat \ {0}
                         /\ {MaxAttempts, PreviewPages, PreviewStarts} \subseteq Nat \ {0}
                         /\ MaxQueueDepth \in Nat
                         /\ IsFiniteSet(Slots)

Nobody == "nobody"

\* What is asked of the API; only the dashboard serves somebody who is not signed in.
RequestOK(r) ==
  /\ r.op \in {"translate", "upload", "estimate", "start", "confirm", "preview", "poll", "pay"}
  /\ r.user \in Users \cup (IF r.op \in {"translate", "pay"} THEN {} ELSE {Nobody})
  /\ r.op \in {"translate", "upload"} => r.doc \in Documents
  /\ r.op = "translate" => r.deferred \in BOOLEAN /\ r.quote \in Nat

ASSUME ScenariosOK == /\ \A d \in Documents : d.words \in Nat
                      /\ \A sc \in Scenarios : /\ {sc.limit, sc.free} \subseteq Nat
                                               /\ IsFiniteSet(sc.procs)
                                               /\ \A r \in sc.requests : RequestOK(r)

VARIABLES
  jobs,        \* table jobs
  profiles,    \* table profiles
  previews,    \* profiles.preview_quota_count, of today
  rqQueue,     \* how many times a job stands on the RQ lists
  quota,       \* quota:profile:<id>:<day>
  snapshot,    \* translator:job:<id>:milestone_state
  memory,      \* _milestone_jobs of each process
  threads,     \* daemon threads of the processes
  api,         \* requests being served
  horse,       \* what each RQ worker runs
  paid,        \* jobs a payment was captured for
  charges,     \* how often a job was charged
  admitted,    \* how many jobs a user got onto the lists with a slot of the quota
  served, faults,          \* requests begun, faults so far
  raced,       \* requests overlapped, or an enqueue was reported failed that was not
  crashed,     \* an API process has died
  lost,        \* what a request could not save: a "snapshot" in Redis, a "row" in the database
  scenario

tableVars == <<jobs, profiles, previews>>
redisVars == <<rqQueue, quota, snapshot>>
procVars  == <<memory, threads>>
ghostVars == <<paid, charges, admitted>>
countVars == <<served, faults, raced, crashed, lost, scenario>>
vars == <<tableVars, redisVars, procVars, api, horse, ghostVars, countVars>>

NoJob == 0

NoRow   == [status |-> "absent"]
NoState == [status |-> "absent"]

\* A copy is what was read under the lock and is written after it; after says what follows.
IdleSlot   == [pc |-> "idle", req |-> [op |-> "none"], proc |-> "none", job |-> NoJob,
               copy |-> NoState, spawn |-> "none"]
IdleThread == [pc |-> "idle", proc |-> "none", job |-> NoJob, copy |-> NoState,
               kind |-> "none", after |-> "none", cost |-> 0]
IdleHorse  == [pc |-> "idle", job |-> NoJob]

LiveUnlessUnpaid == {"pending", "processing", "completed"}

\* async_job.py: a row with one of these is the answer to the same document again.
Live == {"pending", "awaiting_payment", "processing", "completed"}

-----------------------------------------------------------------------------
(* Requests *)

At(s, pc) == api[s].pc = pc
Of(s) == api[s].req
Goto(s, pc) == api' = [api EXCEPT ![s].pc = pc]
Answer(s) == api' = [api EXCEPT ![s] = IdleSlot]

Busy == {s \in Slots : ~At(s, "idle")}
Asked(op) == {r \in scenario.requests : r.op = op}

\* A process takes up request r about job j.  Slots are alike: the first idle one is taken.
\* A request about a job in translation overlaps with its thread, unless it only looks.
Begin(s, r, pc, j) ==
  /\ At(s, "idle") /\ \A first \in Slots : At(first, "idle") => s <= first
  /\ served < scenario.most /\ Cardinality(Busy) < scenario.overlap
  /\ \E p \in scenario.procs :
       api' = [api EXCEPT ![s] = [IdleSlot EXCEPT !.pc = pc, !.req = r, !.proc = p, !.job = j]]
  /\ served' = served + 1
  /\ raced' = (\/ raced \/ Busy # {}
              \/ /\ r.op # "poll" /\ j # NoJob
                 /\ \E t \in Threads : threads[t].job = j)
  /\ UNCHANGED <<tableVars, redisVars, procVars, horse, ghostVars, faults, crashed, lost, scenario>>

\* Something outside fails; a scenario says how often.
Fault == faults < scenario.faults /\ faults' = faults + 1
noFault == <<served, raced, crashed, lost, scenario>>

\* An API process ends: its requests, its daemon threads and its memory are gone.
Crash(p) ==
  /\ Fault
  /\ \/ \E j \in JobIds : memory[p][j] # NoState
     \/ \E s \in Slots : api[s].proc = p
  /\ crashed' = TRUE
  /\ memory' = [memory EXCEPT ![p] = [j \in JobIds |-> NoState]]
  /\ api' = [s \in Slots |-> IF api[s].proc = p THEN IdleSlot ELSE api[s]]
  /\ threads' = [t \in Threads |-> IF threads[t].proc = p THEN IdleThread ELSE threads[t]]
  /\ UNCHANGED <<tableVars, redisVars, horse, ghostVars, served, raced, lost, scenario>>

\* uuid.uuid4(): what a charge or a payment still tells of is not given out again.
Unused == {j \in JobIds : /\ jobs[j] = NoRow /\ snapshot[j] = NoState /\ charges[j] = 0 /\ ~paid[j]
                          /\ \A p \in DOMAIN memory : memory[p][j] = NoState
                          /\ \A s \in Slots : api[s].job # j}
FreshId == CHOOSE j \in Unused : \A k \in Unused : j <= k

\* The daemon thread of request s starts.
Spawn(s, kind) ==
  LET idle == {t \in Threads : threads[t] = IdleThread}
      t == CHOOSE t \in idle : \A k \in idle : t <= k
  IN  /\ idle # {}
      /\ threads' = [threads EXCEPT ![t] = [IdleThread EXCEPT !.pc = IF kind = "enqueue" THEN kind ELSE "begin",
                                 !.proc = api[s].proc,
                                 !.job = api[s].job, !.kind = kind]]

-----------------------------------------------------------------------------
(* app/deps/quota.py *)

\* Redis answers INCR with the new value; a 429 above the limit gives the slot back
\* with a DECR of its own.
Reserve(s, granted, refused) ==
  LET u == api[s].req.user IN
  /\ quota' = [quota EXCEPT ![u] = @ + 1]
  /\ Goto(s, IF quota'[u] > scenario.limit THEN refused ELSE granted)

Release(s) == quota' = [quota EXCEPT ![api[s].req.user] = @ - 1]

-----------------------------------------------------------------------------
(* app/services/word_credits.py *)

Bill(u, words) == ComputeCharge(RefreshExpiry(profiles[u], 0), words, 0)

\* compute_word_charge, apply_word_charge and add_usage_row in one transaction.
ChargeWords(u, j, words) ==
  LET p == RefreshExpiry(profiles[u], 0)
  IN  /\ profiles' = [profiles EXCEPT ![u] = ApplyCharge(p, Bill(u, words))]
      /\ charges' = [charges EXCEPT ![j] = @ + 1]
=============================================================================
