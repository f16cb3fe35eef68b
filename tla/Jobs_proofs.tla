----------------------------- MODULE Jobs_proofs -----------------------------
(***************************************************************************)
(* Jobs for every number of users, documents, processes, threads, workers, *)
(* overlapping requests and faults.  The invariant says of each request,   *)
(* thread and work horse what it can rely on where it stands: that its row *)
(* exists, that its process has the job in memory, that somebody is signed *)
(* in.  Rows are never deleted, and a process forgets its jobs only with   *)
(* the requests and threads it runs.                                       *)
(***************************************************************************)
EXTENDS Jobs, FiniteSetTheorems, TLAPS

-----------------------------------------------------------------------------
(* Rows, states and requests *)

Outputs == {"none", "preview", "full"}
Times   == Nat \cup {NoTime}

Row == [status : Statuses, user : Users, hash : Documents, path : {"jobs", "milestone"},
        output : Outputs, attempt : 0 .. MaxAttempts - 1, quote : Nat, cost : Nat]
Profile == [plan : Plans, credits_inr_balance : Int, free_credits : Nat, referral_bonus_words : Nat,
            subscription_active : BOOLEAN, subscription_credits : Nat, subscription_started_at : Times,
            subscription_period_start : Times, subscription_contract_end : Times,
            subscription_expiry : Times, pending_subscription_kind : PaidPlans \cup {None}]

MemoryStatuses == Statuses \cup {"pending_estimate", "estimated", "queued"}
AnyState == [status : MemoryStatuses, doc : Documents, user : Users \cup {Nobody}, cost : Nat,
             docx : Outputs, bill : BOOLEAN]

\* A memory that calls a translation complete has the document.
State == {st \in AnyState : st.status = "completed" => st.docx = "full"}

Ops   == {"estimate", "start", "confirm", "preview", "poll"}
Signs == {"start", "confirm", "preview"}

UploadPlaces == {"u_check", "u_dup", "u_capacity", "u_find"}
RowPlaces    == {"u_reset", "u_quota", "u_refused", "u_enqueue", "u_release", "u_fail"}
PayPlaces    == {"credit", "activate", "pending", "pay_quota", "pay_refused", "dispatch"}
DeepPlaces   == {"counted", "bill", "await", "queue", "p_quota", "p_queue", "sync", "write",
                 "publish", "set", "spawn"}
Places == {"idle", "u_insert", "upload", "restore", "pay"} \cup Ops
          \cup UploadPlaces \cup RowPlaces \cup PayPlaces \cup DeepPlaces

NoRequest == [op |-> "none"]
Kinds == {"none", "full", "preview"}
Slot == [pc : Places, req : scenario.requests \cup {NoRequest}, proc : scenario.procs \cup {"none"},
         job : JobIds \cup {NoJob}, copy : State \cup {NoState}, spawn : Kinds]

\* The kinds of request that get to a place.
Serves(pc, op) ==
  /\ pc \in UploadPlaces \cup RowPlaces \cup {"u_insert"} => op = "translate"
  /\ pc = "upload" => op = "upload"
  /\ pc \in PayPlaces \cup {"pay"} => op = "pay"
  /\ pc = "restore" => op \in Ops \cup {"pay"}
  /\ pc \in Ops => op = pc
  /\ pc = "counted" => op = "estimate"
  /\ pc \in {"bill", "await", "queue"} => op = "confirm"
  /\ pc \in {"p_quota", "p_queue"} => op = "preview"
  /\ pc \in {"sync", "write"} => op \in Signs
  /\ pc \in {"publish", "set", "spawn"} => op # "translate"

\* What a request r relies on.
Serving(r) ==
  /\ r.pc # "idle" /\ r.req \in scenario.requests /\ r.proc \in scenario.procs
  /\ Serves(r.pc, r.req.op)
  /\ r.pc \notin UploadPlaces => r.job \in JobIds
  /\ r.pc \in RowPlaces \cup PayPlaces => jobs[r.job] # NoRow
  /\ r.pc \in DeepPlaces => memory[r.proc][r.job] # NoState
  /\ r.pc \in {"write", "set"} => r.copy # NoState
  /\ r.pc \in {"sync", "write", "p_quota", "p_queue"} => r.req.user \in Users
  /\ r.pc = "spawn" => r.spawn # "none"
RequestFits(r) == r \in Slot /\ (r = IdleSlot \/ Serving(r))

ThreadPlaces == {"begin", "publish", "set", "row_processing", "run", "row_failed", "row_preview",
                 "settle", "bill", "row_completed"}
Thread == [pc : ThreadPlaces \cup {"idle", "enqueue"}, proc : scenario.procs \cup {"none"},
           job : JobIds \cup {NoJob}, copy : State \cup {NoState}, kind : Kinds \cup {"enqueue"},
           after : {"none", "row_processing", "settle", "row_preview", "end"}, cost : Nat]

\* What a daemon thread r relies on.
Translating(r) ==
  /\ r.pc \in ThreadPlaces /\ r.proc \in scenario.procs /\ r.job \in JobIds
  /\ memory[r.proc][r.job] # NoState
  /\ r.pc \in {"publish", "set"} => r.after # "none"
  /\ r.pc = "set" => r.copy # NoState
ThreadFits(r) ==
  /\ r \in Thread
  /\ \/ r = IdleThread
     \/ r.pc = "enqueue" /\ r.job \in JobIds /\ jobs[r.job] # NoRow
     \/ Translating(r)

HorsePlaces == {"load", "mark", "run", "commit", "except"}
HorseFits(r) ==
  /\ r \in [pc : HorsePlaces \cup {"idle"}, job : JobIds \cup {NoJob}]
  /\ r = IdleHorse \/ (r.pc # "idle" /\ r.job \in JobIds /\ jobs[r.job] # NoRow)

TablesOK == /\ jobs \in [JobIds -> Row \cup {NoRow}]
            /\ profiles \in [Users -> Profile]
            /\ previews \in [Users -> Nat]
RedisOK  == /\ rqQueue \in [JobIds -> Nat] /\ \A j \in JobIds : rqQueue[j] > 0 => jobs[j] # NoRow
            /\ quota \in [Users -> Int]
            /\ snapshot \in [JobIds -> State \cup {NoState}]
MemoryOK == memory \in [scenario.procs -> [JobIds -> State \cup {NoState}]]
GhostsOK == /\ charges \in [JobIds -> Nat] /\ admitted \in [Users -> Nat]
            /\ scenario \in Scenarios
DataOK   == TablesOK /\ RedisOK /\ MemoryOK /\ GhostsOK

SlotsOK   == api \in [Slots -> Slot] /\ \A s \in Slots : RequestFits(api[s])
ThreadsOK == threads \in [Threads -> Thread] /\ \A t \in Threads : ThreadFits(threads[t])
HorsesOK  == /\ horse = [h \in Horses |-> horse[h]] /\ \A h \in Horses : HorseFits(horse[h])

Shape == DataOK /\ SlotsOK /\ ThreadsOK /\ HorsesOK

-----------------------------------------------------------------------------
(* The quota *)

HoldPlaces  == {"u_enqueue", "u_refused", "u_release", "dispatch", "pay_refused"}
GrantPlaces == {"u_enqueue", "dispatch"}
Granted(u)  == {s \in Slots : api[s].pc \in GrantPlaces /\ api[s].req.user = u}

\* Who may still get a job onto the lists has been counted below the limit.
QuotaInv == \A u \in Users :
  /\ admitted[u] + Cardinality(Granted(u)) <= scenario.limit
  /\ quota[u] >= admitted[u] + Cardinality(Holding(u))
  /\ ~crashed => quota[u] = admitted[u] + Cardinality(Holding(u))

-----------------------------------------------------------------------------
(* One request at a time *)

\* What is asked about a job in order to change it.
Asking == {"estimate", "start", "confirm", "preview", "pay"}

\* While requests do not overlap there is one of them, and no thread has its job.
Alone ==
  /\ \A s1, s2 \in Busy : s1 = s2
  /\ \A s \in Busy : api[s].req.op \in Asking => \A t \in Threads : threads[t].job # api[s].job

\* What is written to a row was queued, or awaits payment.
Syncs == \A s \in Slots :
  /\ At(s, "sync") => Mine(s).status \in {"queued", "awaiting_payment"}
  /\ At(s, "write") => api[s].copy.status \in {"queued", "awaiting_payment"}

RowsServed == \A j \in JobIds : jobs[j].status = "completed" => jobs[j].output = "full"

Solo == ~raced => Alone /\ Syncs /\ RowsServed

-----------------------------------------------------------------------------
(* Uploads and the dashboard *)

\* Where requests of the dashboard stand.
DashPlaces == {"upload", "restore", "pay"} \cup Ops \cup DeepPlaces

\* The row of an upload, and a job that the dashboard keeps nothing of.
IsUpload(row) == row # NoRow /\ row.path = "jobs"
Uploaded(j) == IsUpload(jobs[j])
Blank(j)    == snapshot[j] = NoState /\ \A p \in scenario.procs : memory[p][j] = NoState

\* What the job of a request r is, by its row: it is new where a row is about to be made.
KindFits(r, row, new) ==
  /\ r.pc \in DashPlaces => ~IsUpload(row)
  /\ r.pc = "u_insert" => new
  /\ r.pc \in RowPlaces => IsUpload(row) /\ row.user = r.req.user /\ row.hash = r.req.doc
IsNew(j)  == jobs[j] = NoRow /\ Blank(j) /\ charges[j] = 0 /\ ~paid[j]
KindOf(r) == KindFits(r, jobs[r.job], IsNew(r.job))

PaidType == paid \in [JobIds -> BOOLEAN]

\* Uploads and jobs of the dashboard have nothing in common.
KindsApart ==
  /\ PaidType
  /\ \A j \in JobIds : Uploaded(j) => Blank(j) /\ jobs[j].status # "preview_ready"
  /\ \A s \in Slots : KindOf(api[s])
  /\ \A s, k \in Slots : At(s, "u_insert") /\ k # s => api[k].job # api[s].job
  /\ \A j \in JobIds : rqQueue[j] > 0 => Uploaded(j)
  /\ \A h \in Horses : horse[h].pc # "idle" => Uploaded(horse[h].job)
  /\ \A t \in Threads : threads[t].pc = "enqueue" => Uploaded(threads[t].job)

-----------------------------------------------------------------------------
(* One run of an upload at a time *)

\* Who may still get job j run: a place on the lists, a work horse, a thread, a request.
HolderKinds == {"queue", "horse", "thread", "slot"}
SlotHolds   == {"u_quota", "u_enqueue", "pay_quota", "dispatch"}
Has(kind, n, j) ==
  \/ kind = "queue" /\ n \in 1 .. rqQueue[j]
  \/ kind = "horse" /\ n \in Horses /\ horse[n].pc # "idle" /\ horse[n].job = j
  \/ kind = "thread" /\ n \in Threads /\ threads[n].pc = "enqueue" /\ threads[n].job = j
  \/ kind = "slot" /\ n \in Slots /\ api[n].pc \in SlotHolds /\ api[n].job = j
Nth(j) == (1 .. rqQueue[j]) \cup Horses \cup Threads \cup Slots

Unheld(j)    == \A a \in HolderKinds : \A m \in Nth(j) : ~Has(a, m, j)
OneHolder(j) == \A a, b \in HolderKinds : \A m, n \in Nth(j) : Has(a, m, j) /\ Has(b, n, j) => a = b /\ m = n

\* A job that still gets to run was not run to its end, was paid for, and was not charged.
JobStands(j) ==
  /\ OneHolder(j)
  /\ Unheld(j) \/ jobs[j].status \in {"pending", "processing"}
  /\ Uploaded(j) => /\ jobs[j].quote > 0 /\ ~paid[j] => jobs[j].status = "awaiting_payment"
                    /\ charges[j] = 0 \/ (charges[j] = 1 /\ jobs[j].status = "completed")

\* The row of an upload of document d by user u.
Sent(j, u, d) == Uploaded(j) /\ jobs[j].user = u /\ jobs[j].hash = d

\* What a request knows of the row it goes on with, or of those it did not find.
SlotStands(r) ==
  /\ r.pc = "u_reset" => jobs[r.job].status = "failed"
  /\ r.pc = "pending" => jobs[r.job].status = "awaiting_payment"
  /\ r.pc \in {"u_quota", "u_enqueue", "u_release", "u_fail"} => jobs[r.job].status = "pending"
  /\ r.pc \in {"u_release", "u_fail"} => Unheld(r.job)
  /\ r.pc \in {"u_capacity", "u_find"} => \A j \in JobIds : Sent(j, r.req.user, r.req.doc) => jobs[j].status = "failed"
  /\ r.pc = "u_insert" => \A j \in JobIds : ~Sent(j, r.req.user, r.req.doc)
  /\ r.pc \in PayPlaces \ {"credit"} => paid[r.job]

OneRow == \A j, k \in JobIds : Uploaded(k) /\ Sent(j, jobs[k].user, jobs[k].hash) => j = k

Standing == /\ \A j \in JobIds : JobStands(j)
            /\ \A s \in Slots : SlotStands(api[s])
            /\ OneRow

OneAtATime == ~raced => Standing

-----------------------------------------------------------------------------
(* One charge of a job of the dashboard *)

\* From what a translation can be started, and where a request stands that is about to.
Startable == {"pending_estimate", "estimated", "preview_ready", "awaiting_payment"}
Before    == {"counted", "bill", "await", "queue", "p_quota", "p_queue", "sync", "write", "spawn"}

SlotCalm(r)   == r.pc \notin Before /\ r.copy.status \notin Startable /\ r.spawn = "none"
ThreadCalm(r) == r.kind # "preview" /\ r.copy.status \notin Startable

\* Nothing is left of job j that a translation could be started from.
Started(j) ==
  /\ \A p \in scenario.procs : memory[p][j].status \notin Startable
  /\ snapshot[j].status \notin Startable
  /\ \A s \in Slots : api[s].job = j => SlotCalm(api[s])
  /\ \A t \in Threads : threads[t].job = j => ThreadCalm(threads[t])

JobOnce(j) == charges[j] # 0 /\ ~Uploaded(j) => charges[j] = 1 /\ Started(j)

\* Where a thread stands that has not charged its job.
Unsettled(r) == \/ r.pc \in {"begin", "row_processing", "run", "settle"}
                \/ r.pc \in {"publish", "set"} /\ r.after \in {"row_processing", "settle"}

ThreadOnce(r) ==
  /\ r.pc \in ThreadPlaces <=> r.kind \in {"full", "preview"}
  /\ "settle" \in {r.pc, r.after} => r.kind = "full"
  /\ r.kind = "full" => Started(r.job)
  /\ r.kind = "full" /\ Unsettled(r) => charges[r.job] = 0

\* A request that has queued its job and is to start the thread.
Queues(r) == /\ memory[r.proc][r.job].status = "queued"
             /\ r.pc = "set" => r.copy.status = "queued"
             /\ r.pc = "spawn" => snapshot[r.job].status \notin Startable

SlotOnce(r) ==
  /\ r.spawn # "none" => r.req.op \in Asking
  /\ r.spawn = "full" => r.pc \in {"sync", "write", "publish", "set", "spawn"} /\ Queues(r)
  /\ r.pc = "upload" => charges[r.job] = 0 /\ \A p \in scenario.procs : memory[p][r.job] = NoState
  /\ r.req.op = "translate" => r.copy = NoState

OneThread == \A t, d \in Threads : threads[t].job = threads[d].job /\ threads[t].job # NoJob => t = d

DashCharges == /\ \A j \in JobIds : JobOnce(j)
               /\ \A s \in Slots : SlotOnce(api[s])
               /\ \A t \in Threads : ThreadOnce(threads[t])
               /\ OneThread

Once == Orderly => DashCharges

-----------------------------------------------------------------------------
(* Bills *)

\* What a number of words costs is a number of rupees, never negative.
LEMMA EstimateIsNat == \A k \in Nat : EstimatePaygInr(k) \in Nat
<1>1. Per100k \in Nat \ {0}
  BY CreditConstants
<1> SUFFICES ASSUME NEW k \in Nat PROVE RoundHalfEven(99 * k, Per100k) \in Nat
  BY DEF EstimatePaygInr
<1> DEFINE n == 99 * k
           q == n \div Per100k
<1>2. n \in Nat
  OBVIOUS
<1> HIDE DEF n
<1>3. q \in Nat
  BY <1>1, <1>2
<1> QED
  BY <1>3 DEF RoundHalfEven, n

\* The end of a subscription leaves a row of the table.
LEMMA PlanAfterType ==
  ASSUME NEW p \in Profile
  PROVE  PlanAfterSubscriptionEnds(p) \in Profile
BY DEF PlanAfterSubscriptionEnds, Profile, Plans

\* So does the refresh of the expiry and of the yearly bucket.
LEMMA RefreshExpiryType ==
  ASSUME NEW p \in Profile
  PROVE  RefreshExpiry(p, 0) \in Profile
<1> DEFINE q == RefreshYearlyBucket(p, 0)
<1>1. q \in Profile
  <2> DEFINE start == Or(p.subscription_period_start, p.subscription_started_at)
             months == IF 0 >= start THEN (0 - start) \div Month ELSE 0
  <2>1. start \in Times
    BY DEF Or, Profile
  <2>2. months \in Nat /\ (start # NoTime => start + months * Month \in Times)
    <3>1. Month \in Nat \ {0}
      BY CreditConstants
    <3>2. 0 >= start => 0 - start \in Nat
      BY <2>1 DEF Times, NoTime
    <3> HIDE DEF start
    <3>3. months \in Nat
      BY <3>1, <3>2
    <3> HIDE DEF months
    <3>4. months * Month \in Nat
      BY <3>1, <3>3
    <3> QED
      BY <2>1, <3>3, <3>4 DEF Times, NoTime
  <2>3. PoolWords \in Nat
    BY CreditConstants
  <2> HIDE DEF start, months
  <2>4. \/ q = p
        \/ start = NoTime /\ q = [p EXCEPT !.subscription_period_start = 0]
        \/ start # NoTime /\ q = [p EXCEPT !.subscription_period_start = start + months * Month,
                     !.subscription_credits = IF months > 0 THEN PoolWords ELSE @]
    BY DEF RefreshYearlyBucket, start, months
  <2>5. 0 \in Times
    BY DEF Times
  <2> QED
    BY <2>2, <2>3, <2>4, <2>5 DEF Profile
<1> HIDE DEF q
<1> DEFINE r == [q EXCEPT !.subscription_active = FALSE, !.subscription_credits = 0]
<1>2. r \in Profile
  BY <1>1 DEF Profile
<1>3. RefreshExpiry(p, 0) = IF q.subscription_active /\ (q.subscription_expiry = NoTime \/ q.subscription_expiry < 0)
                            THEN PlanAfterSubscriptionEnds(r) ELSE q
  BY DEF RefreshExpiry, q
<1> HIDE DEF r
<1> QED
  BY <1>1, <1>2, <1>3, PlanAfterType

\* The parts of a charge are numbers, none of them negative.
LEMMA ComputeChargeType ==
  ASSUME NEW p \in Profile, NEW n \in Nat
  PROVE  LET b == ComputeCharge(p, n, 0)
         IN  b.free_used \in Nat /\ b.subscription_used \in Nat /\ b.amount_to_pay \in Nat
<1> DEFINE fromFree  == Least(n, p.free_credits)
           fromBonus == Least(n - fromFree, p.referral_bonus_words)
           usable == /\ p.subscription_active /\ p.subscription_credits > 0
                     /\ p.subscription_expiry = NoTime \/ p.subscription_expiry >= 0
           sub  == IF usable THEN Least(n - (fromFree + fromBonus), p.subscription_credits) ELSE 0
           payg == n - (fromFree + fromBonus) - sub
<1>1. p.free_credits \in Nat /\ p.referral_bonus_words \in Nat /\ p.subscription_credits \in Nat
  BY DEF Profile
<1>2. fromFree \in Nat /\ fromBonus \in Nat /\ n - (fromFree + fromBonus) \in Nat
  BY <1>1 DEF Least
<1> HIDE DEF fromFree, fromBonus, usable
<1>3. sub \in Nat /\ payg \in Nat
  BY <1>1, <1>2 DEF Least
<1> HIDE DEF sub
<1>4. EstimatePaygInr(payg) \in Nat
  BY <1>3, EstimateIsNat
<1>5. ComputeCharge(p, n, 0) = [free_used |-> fromFree + fromBonus, subscription_used |-> sub, payg_words |-> payg,
                                amount_to_pay |-> IF payg > 0 THEN EstimatePaygInr(payg) ELSE 0]
  BY DEF ComputeCharge, fromFree, fromBonus, usable, sub
<1> QED
  BY <1>2, <1>3, <1>4, <1>5

\* A charge leaves no word pool below zero.
LEMMA ApplyChargeType ==
  ASSUME NEW p \in Profile, NEW b, b.free_used \in Nat, b.subscription_used \in Nat, b.amount_to_pay \in Nat
  PROVE  ApplyCharge(p, b) \in Profile
<1> DEFINE fromFree  == Least(b.free_used, p.free_credits)
           fromBonus == Least(b.free_used - fromFree, p.referral_bonus_words)
           sub == IF p.subscription_active THEN Latest(0, p.subscription_credits - b.subscription_used)
                  ELSE p.subscription_credits
           q == [p EXCEPT !.free_credits = @ - fromFree,
                          !.referral_bonus_words = @ - fromBonus,
                          !.subscription_credits = sub,
                          !.credits_inr_balance = @ - b.amount_to_pay]
<1>1. ApplyCharge(p, b) = SyncPlanAfterFreePool(q)
  BY DEF ApplyCharge
<1>2. /\ p.free_credits - fromFree \in Nat
      /\ p.referral_bonus_words - fromBonus \in Nat
      /\ sub \in Nat
      /\ p.credits_inr_balance - b.amount_to_pay \in Int
  BY DEF Profile, Least, Latest
<1> HIDE DEF fromFree, fromBonus, sub
<1>3. q \in Profile
  BY <1>2 DEF Profile
<1> HIDE DEF q
<1> QED
  BY <1>1, <1>3 DEF SyncPlanAfterFreePool, Profile, Plans

\* What a user is told a translation costs, and what it costs.
LEMMA BillType ==
  ASSUME TablesOK, NEW u \in Users, NEW n \in Nat
  PROVE  /\ Bill(u, n).amount_to_pay \in Nat
         /\ ApplyCharge(RefreshExpiry(profiles[u], 0), Bill(u, n)) \in Profile
<1>1. RefreshExpiry(profiles[u], 0) \in Profile
  BY RefreshExpiryType DEF TablesOK
<1>2. PICK p \in Profile : p = RefreshExpiry(profiles[u], 0)
  BY <1>1
<1>3. PICK b : b = ComputeCharge(p, n, 0)
  OBVIOUS
<1>4. b.free_used \in Nat /\ b.subscription_used \in Nat /\ b.amount_to_pay \in Nat
  BY <1>3, ComputeChargeType
<1>5. ApplyCharge(p, b) \in Profile
  BY <1>4, ApplyChargeType
<1> QED
  BY <1>2, <1>3, <1>4, <1>5 DEF Bill

LEMMA AmountType ==
  ASSUME TablesOK, NEW u \in Users \cup {Nobody}, NEW n \in Nat
  PROVE  AmountToPay(u, n) \in Nat
BY BillType, EstimateIsNat DEF AmountToPay

LEMMA RequestType ==
  ASSUME GhostsOK, NEW r \in scenario.requests
  PROVE  RequestOK(r)
BY ScenariosOK DEF GhostsOK

LEMMA WordsType ==
  ASSUME NEW d \in Documents
  PROVE  d.words \in Nat
BY ScenariosOK

-----------------------------------------------------------------------------
(* What a step leaves alone *)

\* Rows are not deleted, and no process forgets a job.
Stays == /\ \A j \in JobIds : jobs[j] # NoRow => jobs'[j] # NoRow
         /\ \A p \in scenario.procs : \A j \in JobIds : memory[p][j] # NoState => memory'[p][j] # NoState
         /\ scenario' = scenario

dataVars == <<tableVars, redisVars, memory, charges, admitted, scenario>>

LEMMA DataSame ==
  ASSUME DataOK, UNCHANGED dataVars
  PROVE  DataOK' /\ Stays
BY DEF DataOK, TablesOK, RedisOK, MemoryOK, GhostsOK, Stays, dataVars, tableVars, redisVars, State, AnyState

LEMMA RequestStays ==
  ASSUME Stays, NEW r, RequestFits(r)
  PROVE  RequestFits(r)'
<1>1. r \in Slot'
  BY DEF RequestFits, Slot, Stays, State, AnyState
<1>2. Serving(r) => Serving(r)'
  <2> SUFFICES ASSUME Serving(r) PROVE Serving(r)'
    OBVIOUS
  <2>1. /\ r.pc # "idle" /\ r.req \in scenario'.requests /\ r.proc \in scenario'.procs
        /\ Serves(r.pc, r.req.op)
        /\ r.pc \notin UploadPlaces => r.job \in JobIds
    BY DEF Serving, Stays
  <2>2. r.pc \in RowPlaces \cup PayPlaces => jobs'[r.job] # NoRow
    <3> HAVE r.pc \in RowPlaces \cup PayPlaces
    <3>1. r.job \in JobIds /\ jobs[r.job] # NoRow
      BY <2>1 DEF Serving, RowPlaces, PayPlaces, UploadPlaces
    <3> QED
      BY <3>1 DEF Stays
  <2>3. r.pc \in DeepPlaces => memory'[r.proc][r.job] # NoState
    <3> HAVE r.pc \in DeepPlaces
    <3>1. r.job \in JobIds /\ r.proc \in scenario.procs /\ memory[r.proc][r.job] # NoState
      BY <2>1 DEF Serving, DeepPlaces, UploadPlaces
    <3> QED
      BY <3>1 DEF Stays
  <2> QED
    BY <2>1, <2>2, <2>3 DEF Serving
<1> QED
  BY <1>1, <1>2 DEF RequestFits

LEMMA ThreadStays ==
  ASSUME Stays, NEW r, ThreadFits(r)
  PROVE  ThreadFits(r)'
<1>1. r \in Thread'
  BY DEF ThreadFits, Thread, Stays, State, AnyState
<1>2. Translating(r) => Translating(r)'
  BY DEF Translating, Stays
<1> QED
  BY <1>1, <1>2 DEF ThreadFits, Stays

LEMMA HorseStays ==
  ASSUME Stays, NEW r, HorseFits(r)
  PROVE  HorseFits(r)'
BY DEF HorseFits, Stays

LEMMA SlotsSame ==
  ASSUME SlotsOK, Stays, UNCHANGED api
  PROVE  SlotsOK'
<1>1. \A s \in Slots : RequestFits(api[s])'
  <2> TAKE s \in Slots
  <2>1. PICK r : r = api[s]
    OBVIOUS
  <2> QED
    BY <2>1, RequestStays DEF SlotsOK
<1>2. api' \in [Slots -> Slot']
  BY <1>1 DEF SlotsOK, RequestFits
<1> QED
  BY <1>1, <1>2 DEF SlotsOK

LEMMA SlotStep ==
  ASSUME SlotsOK, Stays, NEW s \in Slots, NEW r, RequestFits(r)', api' = [api EXCEPT ![s] = r]
  PROVE  SlotsOK'
<1>1. \A k \in Slots : RequestFits(api[k])'
  <2> TAKE k \in Slots
  <2>1. CASE k = s
    BY <2>1 DEF SlotsOK
  <2>2. CASE k # s
    <3>1. PICK q : q = api[k]
      OBVIOUS
    <3>2. api'[k] = q
      BY <2>2, <3>1 DEF SlotsOK
    <3> QED
      BY <3>1, <3>2, RequestStays DEF SlotsOK
  <2> QED
    BY <2>1, <2>2
<1>2. api' \in [Slots -> Slot']
  BY <1>1 DEF SlotsOK, RequestFits
<1> QED
  BY <1>1, <1>2 DEF SlotsOK

LEMMA ThreadsSame ==
  ASSUME ThreadsOK, Stays, UNCHANGED threads
  PROVE  ThreadsOK'
<1>1. \A t \in Threads : ThreadFits(threads[t])'
  <2> TAKE t \in Threads
  <2>1. PICK r : r = threads[t]
    OBVIOUS
  <2> QED
    BY <2>1, ThreadStays DEF ThreadsOK
<1>2. threads' \in [Threads -> Thread']
  BY <1>1 DEF ThreadsOK, ThreadFits
<1> QED
  BY <1>1, <1>2 DEF ThreadsOK

LEMMA ThreadStep ==
  ASSUME ThreadsOK, Stays, NEW t \in Threads, NEW r, ThreadFits(r)', threads' = [threads EXCEPT ![t] = r]
  PROVE  ThreadsOK'
<1>1. \A k \in Threads : ThreadFits(threads[k])'
  <2> TAKE k \in Threads
  <2>1. CASE k = t
    BY <2>1 DEF ThreadsOK
  <2>2. CASE k # t
    <3>1. PICK q : q = threads[k]
      OBVIOUS
    <3>2. threads'[k] = q
      BY <2>2, <3>1 DEF ThreadsOK
    <3> QED
      BY <3>1, <3>2, ThreadStays DEF ThreadsOK
  <2> QED
    BY <2>1, <2>2
<1>2. threads' \in [Threads -> Thread']
  BY <1>1 DEF ThreadsOK, ThreadFits
<1> QED
  BY <1>1, <1>2 DEF ThreadsOK

LEMMA HorsesSame ==
  ASSUME HorsesOK, Stays, UNCHANGED horse
  PROVE  HorsesOK'
<1>1. \A h \in Horses : HorseFits(horse[h])'
  <2> TAKE h \in Horses
  <2>1. PICK r : r = horse[h]
    OBVIOUS
  <2> QED
    BY <2>1, HorseStays DEF HorsesOK
<1> QED
  BY <1>1 DEF HorsesOK

LEMMA HorseStep ==
  ASSUME HorsesOK, Stays, NEW h \in Horses, NEW r, HorseFits(r)', horse' = [horse EXCEPT ![h] = r]
  PROVE  HorsesOK'
<1>1. \A k \in Horses : HorseFits(horse[k])'
  <2> TAKE k \in Horses
  <2>1. CASE k = h
    BY <2>1 DEF HorsesOK
  <2>2. CASE k # h
    <3>1. PICK q : q = horse[k]
      OBVIOUS
    <3>2. horse'[k] = q
      BY <2>2, <3>1 DEF HorsesOK
    <3> QED
      BY <3>1, <3>2, HorseStays DEF HorsesOK
  <2> QED
    BY <2>1, <2>2
<1> QED
  BY <1>1 DEF HorsesOK

\* A step of a request, a thread or a work horse over good data.
LEMMA SlotMoves ==
  ASSUME Shape, DataOK', Stays, NEW s \in Slots, NEW r, RequestFits(r)',
         api' = [api EXCEPT ![s] = r], UNCHANGED <<threads, horse>>
  PROVE  Shape'
BY SlotStep, ThreadsSame, HorsesSame DEF Shape

LEMMA ThreadMoves ==
  ASSUME Shape, DataOK', Stays, NEW t \in Threads, NEW r, ThreadFits(r)',
         threads' = [threads EXCEPT ![t] = r], UNCHANGED <<api, horse>>
  PROVE  Shape'
BY SlotsSame, ThreadStep, HorsesSame DEF Shape

LEMMA HorseMoves ==
  ASSUME Shape, DataOK', Stays, NEW h \in Horses, NEW r, HorseFits(r)',
         horse' = [horse EXCEPT ![h] = r], UNCHANGED <<api, threads>>
  PROVE  Shape'
BY SlotsSame, ThreadsSame, HorseStep DEF Shape

LEMMA QuietMove ==
  ASSUME Shape, UNCHANGED <<dataVars, threads, horse>>, NEW s \in Slots, NEW r, RequestFits(r),
         api' = [api EXCEPT ![s] = r]
  PROVE  Shape'
BY DataSame, RequestStays, SlotMoves DEF Shape

-----------------------------------------------------------------------------
(* What a step writes *)

LEMMA Distinct ==
  /\ NoRow \notin Row /\ NoState \notin AnyState /\ NoState \notin State
BY DEF NoRow, NoState, Row, AnyState, State, Statuses, MemoryStatuses

LEMMA RowWritten ==
  ASSUME DataOK, NEW j \in JobIds, NEW row \in Row, jobs' = [jobs EXCEPT ![j] = row],
         UNCHANGED <<profiles, previews, redisVars, memory, charges, admitted, scenario>>
  PROVE  DataOK' /\ Stays /\ jobs'[j] = row /\ row # NoRow
<1>1. row # NoRow
  BY Distinct
<1>2. TablesOK'
  BY DEF DataOK, TablesOK
<1>3. \A k \in JobIds : jobs[k] # NoRow => jobs'[k] # NoRow
  BY <1>1 DEF DataOK, TablesOK
<1>4. RedisOK' /\ MemoryOK' /\ GhostsOK' /\ Stays
  BY <1>3 DEF DataOK, RedisOK, MemoryOK, GhostsOK, Stays, redisVars, State, AnyState
<1> QED
  BY <1>1, <1>2, <1>4 DEF DataOK, TablesOK

\* A process p has job j as st from now on.
Keeps(p, j, st) == memory' = [memory EXCEPT ![p][j] = st]

LEMMA Remembered ==
  ASSUME DataOK, NEW p \in scenario.procs, NEW j \in JobIds, NEW st \in State \cup {NoState},
         memory[p][j] # NoState => st # NoState,
         Keeps(p, j, st),
         UNCHANGED <<tableVars, redisVars, charges, admitted, scenario>>
  PROVE  DataOK' /\ Stays /\ memory'[p][j] = st
<1>1. TablesOK' /\ RedisOK' /\ GhostsOK'
  BY DEF DataOK, TablesOK, RedisOK, GhostsOK, redisVars, tableVars, State, AnyState
<1>2. memory'[p][j] = st
  BY DEF DataOK, MemoryOK, Keeps
<1>3. memory' \in [scenario.procs -> [JobIds -> State \cup {NoState}]]
  BY DEF DataOK, MemoryOK, Keeps
<1>4. \A q \in scenario.procs : \A k \in JobIds : memory[q][k] # NoState => memory'[q][k] # NoState
  <2> TAKE q \in scenario.procs
  <2> TAKE k \in JobIds
  <2>1. CASE q = p /\ k = j
    BY <1>2, <2>1
  <2>2. CASE ~(q = p /\ k = j)
    BY <2>2 DEF DataOK, MemoryOK, Keeps
  <2> QED
    BY <2>1, <2>2
<1>5. MemoryOK' /\ Stays
  BY <1>3, <1>4 DEF MemoryOK, Stays, tableVars, State, AnyState
<1> QED
  BY <1>1, <1>2, <1>5 DEF DataOK

\* A state with another status, the complete one excepted.
LEMMA StatusSet ==
  ASSUME NEW st \in State, NEW status \in MemoryStatuses \ {"completed"}
  PROVE  [st EXCEPT !.status = status] \in State
BY DEF State, AnyState

\* Who has signed in owns the state.
LEMMA SignedType ==
  ASSUME NEW s, NEW st \in State, Of(s).user \in Users \cup {Nobody}
  PROVE  Signed(s, st) \in State /\ Signed(s, st).status = st.status
BY DEF Signed, State, AnyState

\* A request that is served, and what it asked.
LEMMA Served ==
  ASSUME Shape, NEW s \in Slots, ~At(s, "idle")
  PROVE  api[s] \in Slot /\ Serving(api[s]) /\ RequestOK(api[s].req) /\ RequestFits(api[s])
BY RequestType DEF Shape, SlotsOK, RequestFits, At, IdleSlot, DataOK, Serving

LEMMA IdleFits == RequestFits(IdleSlot) /\ ThreadFits(IdleThread) /\ HorseFits(IdleHorse)
BY DEF RequestFits, IdleSlot, Slot, Places, Kinds, NoRequest, ThreadFits, IdleThread, Thread, HorseFits, IdleHorse

-----------------------------------------------------------------------------
(* Init and the requests that begin *)

LEMMA ShapeInit == Init => Shape
<1> SUFFICES ASSUME Init PROVE Shape
  OBVIOUS
<1>1. scenario \in Scenarios /\ scenario.free \in Nat
  BY ScenariosOK DEF Init
<1>2. NewProfile(scenario.free) \in Profile
  BY <1>1 DEF NewProfile, Profile, Plans, Times
<1>3. TablesOK /\ RedisOK /\ MemoryOK /\ GhostsOK
  BY <1>1, <1>2 DEF Init, TablesOK, RedisOK, MemoryOK, GhostsOK
<1>4. SlotsOK /\ ThreadsOK /\ HorsesOK
  <2>1. IdleSlot \in Slot /\ IdleThread \in Thread
    BY IdleFits DEF RequestFits, ThreadFits
  <2> QED
    BY <2>1, IdleFits DEF Init, SlotsOK, ThreadsOK, HorsesOK
<1> QED
  BY <1>3, <1>4 DEF Shape, DataOK

\* A request that begins where its kind begins.
LEMMA BeginShape ==
  ASSUME Shape, NEW s \in Slots, NEW r \in scenario.requests, NEW pc \in Places \ {"idle"}, NEW j \in JobIds \cup {NoJob},
         Begin(s, r, pc, j), Serves(pc, r.op), pc \notin DeepPlaces,
         pc \notin UploadPlaces => j \in JobIds,
         pc \in RowPlaces \cup PayPlaces => jobs[j] # NoRow
  PROVE  Shape'
<1>1. PICK p \in scenario.procs :
        api' = [api EXCEPT ![s] = [IdleSlot EXCEPT !.pc = pc, !.req = r, !.proc = p, !.job = j]]
  BY DEF Begin
<1>2. PICK q : q = [IdleSlot EXCEPT !.pc = pc, !.req = r, !.proc = p, !.job = j]
  OBVIOUS
<1>3. /\ q.pc = pc /\ q.req = r /\ q.proc = p /\ q.job = j /\ q \in Slot
  BY <1>2 DEF IdleSlot, Slot, Kinds
<1>4. pc \notin {"write", "set", "sync", "p_quota", "p_queue", "spawn"}
  BY DEF DeepPlaces
<1>5. RequestFits(q)
  BY <1>3, <1>4 DEF RequestFits, Serving
<1>6. UNCHANGED <<dataVars, threads, horse>>
  BY DEF Begin, dataVars, tableVars, redisVars, procVars, ghostVars
<1> QED
  BY <1>1, <1>2, <1>5, <1>6, QuietMove

\* A set of naturals has a least element.
LEMMA LeastExists ==
  ASSUME NEW U \in SUBSET Nat, U # {}
  PROVE  \E j \in U : \A k \in U : j <= k
<1>0. \A k \in U : k \in Nat
  OBVIOUS
<1>1. PICK i \in U : TRUE
  OBVIOUS
<1> DEFINE Upto(j) == {k \in U : k <= j}
           Sets == {Upto(j) : j \in Upto(i)}
<1>2. IsFiniteSet(Upto(i))
  <2>1. \A k \in Upto(i) : k \in 0 .. i
    BY <1>0, <1>1
  <2>2. IsFiniteSet(0 .. i)
    BY <1>1, FS_Interval
  <2> QED
    BY <2>1, <2>2, FS_Subset
<1>3. Sets \subseteq FiniteSubsetsOf(Upto(i)) /\ Sets # {}
  <2>1. \A j \in Upto(i) : \A k \in Upto(j) : k \in Upto(i)
    BY <1>0, <1>1
  <2>2. i \in Upto(i)
    BY <1>1
  <2>3. Sets # {} /\ \A t \in Sets : t \in SUBSET Upto(i)
    <3> HIDE DEF Upto
    <3> QED
      BY <2>1, <2>2
  <2> HIDE DEF Upto, Sets
  <2> QED
    BY <1>2, <2>3, FS_FiniteSubsetsOfFinite
<1>4. PICK t \in Sets : \A u \in Sets : <<u, t>> \notin StrictSubsetOrdering(Upto(i))
  <2> HIDE DEF Upto, Sets
  <2> QED
    BY <1>2, <1>3, WFMin, FS_StrictSubsetOrderingWellFounded
<1>5. PICK j \in Upto(i) : t = Upto(j)
  <2>1. t \in Sets
    BY <1>4
  <2>2. \E j \in Upto(i) : t = Upto(j)
    <3> HIDE DEF Upto
    <3> QED
      BY <2>1
  <2> QED
    BY <2>2
<1>6. ASSUME NEW k \in U, k < j PROVE FALSE
  <2>0. i \in Nat /\ j \in U /\ j \in Nat /\ k \in Nat /\ j <= i
    BY <1>0, <1>1, <1>5, <1>6
  <2>a. k \in Upto(i)
    BY <2>0, <1>6
  <2>b. j \in Upto(j) /\ j \notin Upto(k)
    BY <2>0, <1>6
  <2>c. Upto(k) \in Sets
    <3> HIDE DEF Upto
    <3> QED
      BY <2>a
  <2>1. k \in Upto(i) /\ Upto(k) \in Sets /\ j \in Upto(j) /\ j \notin Upto(k)
    <3> HIDE DEF Upto, Sets
    <3> QED
      BY <2>a, <2>b, <2>c
  <2>2. /\ \A m \in Upto(k) : m \in Upto(j) /\ m \in Upto(i)
        /\ \A m \in Upto(j) : m \in Upto(i)
    BY <1>0, <1>1, <1>5, <1>6
  <2> HIDE DEF Upto, Sets
  <2> QED
    BY <1>4, <1>5, <2>1, <2>2 DEF StrictSubsetOrdering
<1> QED
  BY <1>5, <1>6

LEMMA FreshIdType ==
  ASSUME Unused # {}
  PROVE  FreshId \in Unused /\ FreshId \in JobIds
<1>1. Unused \in SUBSET Nat /\ Unused \subseteq JobIds
  BY StoreConstants DEF Unused
<1>2. PICK U : U = Unused
  OBVIOUS
<1>3. \E j \in U : \A k \in U : j <= k
  BY <1>1, <1>2, LeastExists
<1> QED
  BY <1>1, <1>2, <1>3 DEF FreshId

LEMMA AcceptShape ==
  ASSUME Shape, NEW s \in Slots, Accept(s)
  PROVE  Shape'
<1>1. \A r \in scenario.requests : RequestOK(r)
  BY RequestType DEF Shape, DataOK
<1>2. CASE EnqueueTranslate(s)
  <2>1. PICK r \in scenario.requests : r.op = "translate" /\ Begin(s, r, "u_check", NoJob)
    BY <1>2 DEF EnqueueTranslate, Asked
  <2>2. Serves("u_check", r.op) /\ "u_check" \in Places \ {"idle"} /\ "u_check" \in UploadPlaces
    BY <2>1 DEF Serves, Places, UploadPlaces, RowPlaces, PayPlaces, Ops
  <2> QED
    BY <2>1, <2>2, BeginShape DEF DeepPlaces, RowPlaces, PayPlaces
<1>3. CASE Upload(s)
  <2>1. PICK r \in scenario.requests : r.op = "upload" /\ Unused # {} /\ Begin(s, r, "upload", FreshId)
    BY <1>3 DEF Upload, Asked
  <2>2. Serves("upload", r.op) /\ "upload" \in Places \ {"idle"}
    BY <2>1 DEF Serves, Places, UploadPlaces, RowPlaces, PayPlaces, Ops
  <2> QED
    BY <2>1, <2>2, FreshIdType, BeginShape DEF DeepPlaces, RowPlaces, PayPlaces
<1>4. CASE AskMilestone(s)
  <2>1. PICK r \in scenario.requests, j \in JobIds : r.op \in Ops /\ Begin(s, r, "restore", j)
    BY <1>4 DEF AskMilestone, Ops
  <2>2. Serves("restore", r.op) /\ "restore" \in Places \ {"idle"}
    BY <2>1 DEF Serves, Places, UploadPlaces, RowPlaces, PayPlaces, Ops
  <2> QED
    BY <2>1, <2>2, BeginShape DEF DeepPlaces, RowPlaces, PayPlaces
<1>5. CASE Pay(s)
  <2>1. PICK r \in scenario.requests, j \in JobIds : r.op = "pay" /\ jobs[j] # NoRow /\ Begin(s, r, "credit", j)
    BY <1>5 DEF Pay, Asked
  <2>2. Serves("credit", r.op) /\ "credit" \in Places \ {"idle"}
    BY <2>1 DEF Serves, Places, UploadPlaces, RowPlaces, PayPlaces, Ops
  <2> QED
    BY <2>1, <2>2, BeginShape DEF DeepPlaces, RowPlaces, PayPlaces
<1> QED
  BY <1>2, <1>3, <1>4, <1>5 DEF Accept

-----------------------------------------------------------------------------
(* Uploads *)

\* The places a request may go to from where it is, as records.
LEMMA GotoIs ==
  ASSUME Shape, NEW s \in Slots, NEW pc, Goto(s, pc), NEW r, r = api[s]
  PROVE  api' = [api EXCEPT ![s] = [r EXCEPT !.pc = pc]]
BY DEF Goto, Shape, SlotsOK

LEMMA AnswerIs ==
  ASSUME NEW s \in Slots, Answer(s)
  PROVE  api' = [api EXCEPT ![s] = IdleSlot]
BY DEF Answer

\* A request that changes nothing but where it stands.
LEMMA QuietGoto ==
  ASSUME Shape, NEW s \in Slots, ~At(s, "idle"), NEW pc \in Places \ {"idle"}, Goto(s, pc),
         UNCHANGED <<dataVars, threads, horse>>, Serving([api[s] EXCEPT !.pc = pc])
  PROVE  Shape'
<1>1. PICK r : r = api[s]
  OBVIOUS
<1>2. r \in Slot
  BY <1>1, Served
<1>3. [r EXCEPT !.pc = pc] \in Slot
  BY <1>2 DEF Slot
<1>4. PICK q : q = [r EXCEPT !.pc = pc]
  OBVIOUS
<1>5. RequestFits(q)
  BY <1>1, <1>3, <1>4 DEF RequestFits
<1> QED
  BY <1>1, <1>4, <1>5, GotoIs, QuietMove

LEMMA QuietAnswer ==
  ASSUME Shape, NEW s \in Slots, Answer(s), UNCHANGED <<dataVars, threads, horse>>
  PROVE  Shape'
BY AnswerIs, IdleFits, QuietMove

LEMMA UploadShape ==
  ASSUME Shape, NEW s \in Slots, UploadCheck(s) \/ UploadDuplicate(s) \/ UploadCapacity(s)
  PROVE  Shape'
<1>1. UNCHANGED <<dataVars, threads, horse>>
  BY DEF UploadCheck, UploadDuplicate, UploadCapacity, dataVars, tableVars, redisVars, procVars, ghostVars, countVars
<1>2. PICK pc \in UploadPlaces : ~At(s, "idle") /\ api[s].pc \in UploadPlaces /\ (Goto(s, pc) \/ Answer(s))
  BY DEF UploadCheck, UploadDuplicate, UploadCapacity, UploadPlaces, At
<1>3. PICK r : r = api[s]
  OBVIOUS
<1>4. r \in Slot /\ Serving(r)
  BY <1>2, <1>3, Served
<1>5. pc \in Places \ {"idle"}
  BY DEF Places, UploadPlaces
<1>6. Serving([r EXCEPT !.pc = pc])
  BY <1>2, <1>3, <1>4 DEF Slot, Serving, Serves, UploadPlaces, RowPlaces, PayPlaces, DeepPlaces, Ops
<1> QED
  BY <1>1, <1>2, <1>3, <1>5, <1>6, QuietGoto, QuietAnswer

LEMMA UploadFindShape ==
  ASSUME Shape, NEW s \in Slots, UploadFind(s)
  PROVE  Shape'
<1>1. UNCHANGED <<dataVars, threads, horse>>
  BY DEF UploadFind, dataVars, tableVars, redisVars, procVars, ghostVars, countVars
<1>2. PICK r : r = api[s]
  OBVIOUS
<1>3. r \in Slot /\ Serving(r) /\ r.pc = "u_find"
  BY <1>2, Served DEF UploadFind, At
<1> DEFINE failed == RowsOf(Of(s).user, Of(s).doc, {"failed"})
<1>4. \/ \E j \in failed : api' = [api EXCEPT ![s] = [r EXCEPT !.pc = "u_reset", !.job = j]]
      \/ Unused # {} /\ api' = [api EXCEPT ![s] = [r EXCEPT !.pc = "u_insert", !.job = FreshId]]
  BY <1>2, ZenonT(60) DEF UploadFind
<1>5. ASSUME NEW j \in failed, api' = [api EXCEPT ![s] = [r EXCEPT !.pc = "u_reset", !.job = j]]
      PROVE  Shape'
  <2>1. j \in JobIds /\ jobs[j] # NoRow
    BY DEF RowsOf
  <2>2. PICK q : q = [r EXCEPT !.pc = "u_reset", !.job = j]
    OBVIOUS
  <2>3. q \in Slot /\ Serving(q)
    BY <1>3, <2>1, <2>2 DEF Slot, Serving, Serves, Places, UploadPlaces, RowPlaces, PayPlaces, DeepPlaces, Ops
  <2> QED
    BY <1>1, <1>5, <2>2, <2>3, QuietMove DEF RequestFits
<1>6. ASSUME Unused # {}, api' = [api EXCEPT ![s] = [r EXCEPT !.pc = "u_insert", !.job = FreshId]]
      PROVE  Shape'
  <2>1. PICK j \in JobIds : j = FreshId
    BY <1>6, FreshIdType
  <2>2. PICK q : q = [r EXCEPT !.pc = "u_insert", !.job = j]
    OBVIOUS
  <2>3. q \in Slot /\ Serving(q)
    BY <1>3, <2>2 DEF Slot, Serving, Serves, Places, UploadPlaces, RowPlaces, PayPlaces, DeepPlaces, Ops
  <2> QED
    BY <1>1, <1>6, <2>1, <2>2, <2>3, QuietMove DEF RequestFits
<1> QED
  BY <1>4, <1>5, <1>6

\* A request writes its row and goes on, or is answered.
LEMMA RowMove ==
  ASSUME Shape, NEW s \in Slots, ~At(s, "idle"), api[s].job \in JobIds, NEW row \in Row, jobs' = [jobs EXCEPT ![api[s].job] = row],
         UNCHANGED <<profiles, previews, redisVars, memory, threads, horse, charges, admitted, scenario>>,
         NEW pc \in Places \ {"idle"}, Goto(s, pc) \/ Answer(s),
         Serves(pc, api[s].req.op), pc \in DeepPlaces => api[s].pc \in DeepPlaces,
         pc \notin {"write", "set", "sync", "p_quota", "p_queue", "spawn"}
  PROVE  Shape'
<1>1. PICK r : r = api[s]
  OBVIOUS
<1>2. r \in Slot /\ Serving(r)
  BY <1>1, Served
<1>3. DataOK' /\ Stays /\ jobs'[r.job] = row /\ row # NoRow
  BY <1>1, RowWritten DEF Shape
<1>4. PICK q : q = [r EXCEPT !.pc = pc]
  OBVIOUS
<1>5. q \in Slot /\ q.pc = pc /\ q.job = r.job /\ q.req = r.req /\ q.proc = r.proc
  BY <1>2, <1>4 DEF Slot
<1>6. pc \in DeepPlaces => memory'[q.proc][q.job] # NoState
  BY <1>1, <1>2, <1>3, <1>5 DEF Serving, Stays
<1>7. Serving(q)'
  BY <1>1, <1>2, <1>3, <1>5, <1>6 DEF Serving, Stays
<1>8. q \in Slot'
  BY <1>3, <1>5 DEF Slot, Stays, State, AnyState
<1>9. RequestFits(q)'
  BY <1>7, <1>8 DEF RequestFits
<1>10. RequestFits(IdleSlot)'
  BY <1>3, IdleFits, RequestStays
<1>11. CASE Goto(s, pc)
  BY <1>1, <1>3, <1>4, <1>9, <1>11, GotoIs, SlotMoves
<1>12. CASE Answer(s)
  BY <1>3, <1>10, <1>12, AnswerIs, SlotMoves
<1> QED
  BY <1>11, <1>12

LEMMA NoAttempt == 0 \in 0 .. MaxAttempts - 1
BY StoreConstants

LEMMA RedisWritten ==
  ASSUME DataOK, quota' \in [Users -> Int], rqQueue' \in [JobIds -> Nat],
         \A j \in JobIds : rqQueue'[j] > 0 => jobs[j] # NoRow,
         snapshot' \in [JobIds -> State \cup {NoState}], admitted' \in [Users -> Nat],
         UNCHANGED <<tableVars, memory, charges, scenario>>
  PROVE  DataOK' /\ Stays
BY DEF DataOK, TablesOK, RedisOK, MemoryOK, GhostsOK, Stays, tableVars, State, AnyState

\* A request over data it has written well, that still has its row where it needs one.
LEMMA RequestMove ==
  ASSUME Shape, DataOK', Stays, NEW s \in Slots, ~At(s, "idle"), NEW pc \in Places \ {"idle"},
         Goto(s, pc) \/ Answer(s), Serving([api[s] EXCEPT !.pc = pc]), UNCHANGED <<threads, horse>>
  PROVE  Shape'
<1>1. PICK r : r = api[s]
  OBVIOUS
<1>2. PICK q : q = [r EXCEPT !.pc = pc]
  OBVIOUS
<1>3. q \in Slot
  BY <1>1, <1>2, Served DEF Slot
<1>4. RequestFits(q)' /\ RequestFits(IdleSlot)'
  BY <1>1, <1>2, <1>3, IdleFits, RequestStays DEF RequestFits
<1> QED
  BY <1>1, <1>2, <1>4, GotoIs, AnswerIs, SlotMoves

LEMMA StoredShape ==
  ASSUME Shape, NEW s \in Slots, UploadInsert(s) \/ UploadReset(s) \/ UploadFail(s)
  PROVE  Shape'
<1>1. UNCHANGED <<profiles, previews, redisVars, memory, threads, horse, charges, admitted, scenario>>
  BY DEF UploadInsert, UploadReset, UploadFail, procVars, ghostVars, countVars
<1>2. PICK r : r = api[s]
  OBVIOUS
<1>3. /\ ~At(s, "idle") /\ r.pc \in {"u_insert", "u_reset", "u_fail"}
  BY <1>2 DEF UploadInsert, UploadReset, UploadFail, At
<1>4. r \in Slot /\ Serving(r) /\ RequestOK(r.req) /\ r.job \in JobIds /\ r.req.op = "translate"
  BY <1>2, <1>3, Served DEF Serving, Serves, UploadPlaces, RowPlaces
<1>5. r.pc # "u_insert" => jobs[r.job] \in Row
  BY <1>3, <1>4 DEF Shape, DataOK, TablesOK, Serving, RowPlaces
<1>6. \E row \in Row : jobs' = [jobs EXCEPT ![r.job] = row]
  <2>1. CASE UploadInsert(s)
    <3>1. NewRow(r.req) \in Row
      <4>1. r.req.user \in Users /\ r.req.doc \in Documents /\ r.req.deferred \in BOOLEAN /\ r.req.quote \in Nat
        BY <1>4 DEF RequestOK
      <4> QED
        BY <4>1, NoAttempt DEF NewRow, Row, Statuses, Outputs
    <3> QED
      BY <1>2, <2>1, <3>1 DEF UploadInsert, Of
  <2>2. CASE UploadReset(s)
    <3>1. jobs[r.job] \in Row
      BY <1>2, <1>5, <2>2 DEF UploadReset, At
    <3>2. PICK old \in Row : old = jobs[r.job]
      BY <3>1
    <3>3. [old EXCEPT !.status = "pending", !.output = "none", !.attempt = 0, !.cost = 0] \in Row
      BY NoAttempt DEF Row, Statuses, Outputs
    <3> QED
      BY <1>2, <2>2, <3>2, <3>3 DEF UploadReset
  <2>3. CASE UploadFail(s)
    <3>1. jobs[r.job] \in Row
      BY <1>2, <1>5, <2>3 DEF UploadFail, At
    <3>2. PICK old \in Row : old = jobs[r.job]
      BY <3>1
    <3>3. [old EXCEPT !.status = "failed"] \in Row
      BY DEF Row, Statuses
    <3> QED
      BY <1>2, <2>3, <3>2, <3>3 DEF UploadFail
  <2> QED
    BY <2>1, <2>2, <2>3
<1>7. Goto(s, "u_quota") \/ Answer(s)
  BY DEF UploadInsert, UploadReset, UploadFail, Stored
<1>8. "u_quota" \in Places \ {"idle"} /\ Serves("u_quota", r.req.op) /\ "u_quota" \notin DeepPlaces
  BY <1>4 DEF Places, Serves, UploadPlaces, RowPlaces, PayPlaces, DeepPlaces, Ops
<1> QED
  BY <1>1, <1>2, <1>3, <1>4, <1>6, <1>7, <1>8, RowMove

LEMMA ReserveShape ==
  ASSUME Shape, NEW s \in Slots,
         UploadQuota(s) \/ UploadRefused(s) \/ UploadRelease(s) \/ PayQuota(s) \/ PayRefused(s)
  PROVE  Shape'
<1>1. UNCHANGED <<tableVars, rqQueue, snapshot, memory, threads, horse, charges, admitted, scenario>>
  BY DEF UploadQuota, UploadRefused, UploadRelease, PayQuota, PayRefused, procVars, ghostVars, countVars
<1>2. PICK r : r = api[s]
  OBVIOUS
<1>3. ~At(s, "idle") /\ r.pc \in {"u_quota", "u_refused", "u_release", "pay_quota", "pay_refused"}
  BY <1>2 DEF UploadQuota, UploadRefused, UploadRelease, PayQuota, PayRefused, At
<1>4. r \in Slot /\ Serving(r) /\ RequestOK(r.req) /\ r.job \in JobIds /\ jobs[r.job] # NoRow
  BY <1>2, <1>3, Served DEF Serving, UploadPlaces, RowPlaces, PayPlaces
<1>5. r.req.user \in Users
  BY <1>3, <1>4 DEF Serving, Serves, RowPlaces, PayPlaces, RequestOK
<1>6. quota' \in [Users -> Int]
  BY <1>2, <1>5 DEF UploadQuota, UploadRefused, UploadRelease, PayQuota, PayRefused, Reserve, Release,
                    Shape, DataOK, RedisOK
<1>7. DataOK' /\ Stays
  BY <1>1, <1>6, RedisWritten DEF Shape, DataOK, RedisOK, GhostsOK
<1>8. PICK pc \in {"u_enqueue", "u_refused", "u_fail", "dispatch", "pay_refused"} :
         /\ Goto(s, pc) \/ Answer(s)
         /\ pc \in {"u_enqueue", "u_refused", "u_fail"} <=> r.pc \in {"u_quota", "u_refused", "u_release"}
  <2>1. CASE UploadQuota(s)
    BY <1>2, <2>1 DEF UploadQuota, Reserve, At
  <2>2. CASE UploadRefused(s)
    BY <1>2, <2>2 DEF UploadRefused, At
  <2>3. CASE UploadRelease(s)
    BY <1>2, <2>3 DEF UploadRelease, At
  <2>4. CASE PayQuota(s)
    BY <1>2, <2>4 DEF PayQuota, Reserve, At
  <2>5. CASE PayRefused(s)
    BY <1>2, <2>5 DEF PayRefused, At
  <2> QED
    BY <2>1, <2>2, <2>3, <2>4, <2>5
<1>9. pc \in Places \ {"idle"} /\ Serving([r EXCEPT !.pc = pc])
  BY <1>3, <1>4, <1>8 DEF Slot, Serving, Serves, Places, UploadPlaces, RowPlaces, PayPlaces, DeepPlaces, Ops
<1> QED
  BY <1>1, <1>2, <1>3, <1>7, <1>8, <1>9, RequestMove

LEMMA UploadEnqueueShape ==
  ASSUME Shape, NEW s \in Slots, UploadEnqueue(s) \/ UploadEnqueueRaises(s)
  PROVE  Shape'
<1>1. UNCHANGED <<tableVars, quota, snapshot, memory, threads, horse, charges, scenario>>
  BY DEF UploadEnqueue, UploadEnqueueRaises, procVars, ghostVars, countVars
<1>2. PICK r : r = api[s]
  OBVIOUS
<1>3. ~At(s, "idle") /\ r.pc = "u_enqueue"
  BY <1>2 DEF UploadEnqueue, UploadEnqueueRaises, At
<1>4. r \in Slot /\ Serving(r) /\ RequestOK(r.req) /\ r.job \in JobIds /\ jobs[r.job] # NoRow
  BY <1>2, <1>3, Served DEF Serving, UploadPlaces, RowPlaces, PayPlaces
<1>5. r.req.user \in Users
  BY <1>3, <1>4 DEF Serving, Serves, RowPlaces, PayPlaces, RequestOK
<1>6. rqQueue' = rqQueue \/ rqQueue' = [rqQueue EXCEPT ![r.job] = @ + 1]
  BY <1>2 DEF UploadEnqueue, UploadEnqueueRaises
<1>7. rqQueue' \in [JobIds -> Nat] /\ \A j \in JobIds : rqQueue'[j] > 0 => jobs[j] # NoRow
  BY <1>4, <1>6 DEF Shape, DataOK, RedisOK
<1>8. admitted' \in [Users -> Nat]
  BY <1>2, <1>5 DEF UploadEnqueue, UploadEnqueueRaises, Shape, DataOK, GhostsOK, ghostVars, Of
<1>9. DataOK' /\ Stays
  BY <1>1, <1>7, <1>8, RedisWritten DEF Shape, DataOK, RedisOK
<1>10. Goto(s, "u_release") \/ Answer(s)
  BY DEF UploadEnqueue, UploadEnqueueRaises
<1>11. "u_release" \in Places \ {"idle"} /\ Serving([r EXCEPT !.pc = "u_release"])
  BY <1>3, <1>4 DEF Slot, Serving, Serves, Places, UploadPlaces, RowPlaces, PayPlaces, DeepPlaces, Ops
<1> QED
  BY <1>1, <1>2, <1>3, <1>9, <1>10, <1>11, RequestMove

LEMMA AdmitShape ==
  ASSUME Shape, NEW s \in Slots, Admit(s)
  PROVE  Shape'
BY UploadShape, UploadFindShape, StoredShape, ReserveShape, UploadEnqueueShape DEF Admit

-----------------------------------------------------------------------------
(* Payments *)

LEMMA PayCreditShape ==
  ASSUME Shape, NEW s \in Slots, PayCredit(s)
  PROVE  Shape'
<1>1. UNCHANGED <<jobs, previews, redisVars, memory, threads, horse, charges, admitted, scenario>>
  BY DEF PayCredit, procVars, countVars
<1>2. PICK r : r = api[s]
  OBVIOUS
<1>3. ~At(s, "idle") /\ r.pc = "credit" /\ Goto(s, "activate")
  BY <1>2 DEF PayCredit, At
<1>4. r \in Slot /\ Serving(r) /\ RequestOK(r.req) /\ r.job \in JobIds /\ jobs[r.job] # NoRow
  BY <1>2, <1>3, Served DEF Serving, UploadPlaces, RowPlaces, PayPlaces
<1>5. r.req.user \in Users
  BY <1>3, <1>4 DEF Serving, Serves, RowPlaces, PayPlaces, RequestOK
<1>6. jobs[r.job].quote \in Nat
  BY <1>4 DEF Shape, DataOK, TablesOK, Row
<1>7. profiles' \in [Users -> Profile]
  <2>1. profiles' = profiles \/ profiles' = [profiles EXCEPT ![r.req.user].credits_inr_balance = @ + jobs[r.job].quote]
    BY <1>2 DEF PayCredit
  <2>2. profiles \in [Users -> Profile]
    BY DEF Shape, DataOK, TablesOK
  <2>3. PICK p \in Profile : p = profiles[r.req.user]
    BY <1>5, <2>2
  <2>4. PICK quote \in Nat : quote = jobs[r.job].quote
    BY <1>6
  <2>5. [p EXCEPT !.credits_inr_balance = @ + quote] \in Profile
    BY DEF Profile
  <2> QED
    BY <1>5, <2>1, <2>2, <2>3, <2>4, <2>5
<1>8. DataOK' /\ Stays
  BY <1>1, <1>7 DEF Shape, DataOK, TablesOK, RedisOK, MemoryOK, GhostsOK, Stays, redisVars, State, AnyState
<1>9. "activate" \in Places \ {"idle"} /\ Serving([r EXCEPT !.pc = "activate"])
  BY <1>3, <1>4 DEF Slot, Serving, Serves, Places, UploadPlaces, RowPlaces, PayPlaces, DeepPlaces, Ops
<1> QED
  BY <1>1, <1>2, <1>3, <1>8, <1>9, RequestMove

LEMMA PayLoadShape ==
  ASSUME Shape, NEW s \in Slots, PayLoad(s)
  PROVE  Shape'
<1>1. UNCHANGED <<dataVars, threads, horse>>
  BY DEF PayLoad, dataVars, procVars, ghostVars, countVars
<1>2. PICK r : r = api[s]
  OBVIOUS
<1>3. ~At(s, "idle") /\ r.pc = "activate" /\ (Goto(s, "pending") \/ Answer(s))
  BY <1>2 DEF PayLoad, At
<1>4. r \in Slot /\ Serving(r)
  BY <1>2, <1>3, Served
<1>5. "pending" \in Places \ {"idle"} /\ Serving([r EXCEPT !.pc = "pending"])
  BY <1>3, <1>4 DEF Slot, Serving, Serves, Places, UploadPlaces, RowPlaces, PayPlaces, DeepPlaces, Ops
<1> QED
  BY <1>1, <1>2, <1>3, <1>5, QuietGoto, QuietAnswer

LEMMA PayCommitShape ==
  ASSUME Shape, NEW s \in Slots, PayCommit(s)
  PROVE  Shape'
<1>1. UNCHANGED <<profiles, previews, redisVars, memory, threads, horse, charges, admitted, scenario>>
  BY DEF PayCommit, procVars, ghostVars, countVars
<1>2. PICK r : r = api[s]
  OBVIOUS
<1>3. ~At(s, "idle") /\ r.pc = "pending" /\ Goto(s, "pay_quota")
  BY <1>2 DEF PayCommit, At
<1>4. r \in Slot /\ Serving(r) /\ r.job \in JobIds /\ jobs[r.job] # NoRow
  BY <1>2, <1>3, Served DEF Serving, UploadPlaces, RowPlaces, PayPlaces
<1>5. PICK old \in Row : old = jobs[r.job]
  BY <1>4 DEF Shape, DataOK, TablesOK
<1>6. [old EXCEPT !.status = "pending", !.attempt = 0] \in Row
  BY NoAttempt DEF Row, Statuses
<1>7. jobs' = [jobs EXCEPT ![r.job] = [old EXCEPT !.status = "pending", !.attempt = 0]]
  BY <1>2, <1>5 DEF PayCommit
<1>8. "pay_quota" \in Places \ {"idle"} /\ Serves("pay_quota", r.req.op) /\ "pay_quota" \notin DeepPlaces
  BY <1>3, <1>4 DEF Serving, Places, Serves, UploadPlaces, RowPlaces, PayPlaces, DeepPlaces, Ops
<1> QED
  BY <1>1, <1>2, <1>3, <1>4, <1>6, <1>7, <1>8, RowMove

\* The thread that request s starts.
Begun(s, kind) == [IdleThread EXCEPT !.pc = IF kind = "enqueue" THEN kind ELSE "begin",
                                     !.proc = api[s].proc, !.job = api[s].job, !.kind = kind]

\* The first idle thread starts.
LEMMA SpawnIs ==
  ASSUME NEW s, NEW kind, Spawn(s, kind)
  PROVE  \E t \in Threads : threads[t] = IdleThread /\ threads' = [threads EXCEPT ![t] = Begun(s, kind)]
<1> DEFINE idle == {t \in Threads : threads[t] = IdleThread}
           first == CHOOSE t \in idle : \A k \in idle : t <= k
<1>1. PICK I : I = idle
  OBVIOUS
<1>2. I \in SUBSET Nat /\ I # {}
  BY <1>1, StoreConstants DEF Spawn
<1>3. \E t \in I : \A k \in I : t <= k
  BY <1>2, LeastExists
<1>4. first \in idle
  BY <1>1, <1>3
<1>5. threads' = [threads EXCEPT ![first] = Begun(s, kind)]
  BY DEF Spawn, Begun
<1> HIDE DEF first
<1> QED
  BY <1>4, <1>5

LEMMA SpawnShape ==
  ASSUME Shape, NEW s \in Slots, ~At(s, "idle"), NEW kind \in {"full", "preview", "enqueue"},
         Spawn(s, kind), Answer(s), api[s].job \in JobIds,
         IF kind = "enqueue" THEN jobs[api[s].job] # NoRow ELSE memory[api[s].proc][api[s].job] # NoState,
         DataOK', Stays, UNCHANGED horse
  PROVE  Shape'
<1>1. PICK r : r = api[s]
  OBVIOUS
<1>2. r \in Slot /\ Serving(r)
  BY <1>1, Served
<1>3. PICK q : q = Begun(s, kind)
  OBVIOUS
<1>4. PICK t \in Threads : threads' = [threads EXCEPT ![t] = q]
  BY <1>3, SpawnIs
<1>5. q \in Thread
  BY <1>1, <1>2, <1>3 DEF Begun, Slot, Thread, IdleThread, ThreadPlaces, Kinds
<1>6. ThreadFits(q)
  BY <1>1, <1>2, <1>3, <1>5 DEF Begun, Serving, ThreadFits, Translating, IdleThread, ThreadPlaces
<1>7. ThreadFits(q)' /\ RequestFits(IdleSlot)'
  BY <1>6, IdleFits, RequestStays, ThreadStays
<1> QED
  BY <1>4, <1>7, AnswerIs, SlotStep, ThreadStep, HorsesSame DEF Shape

LEMMA PayDispatchShape ==
  ASSUME Shape, NEW s \in Slots, PayDispatch(s)
  PROVE  Shape'
<1>1. UNCHANGED <<tableVars, redisVars, memory, horse, charges, scenario>>
  BY DEF PayDispatch, countVars
<1>2. PICK r : r = api[s]
  OBVIOUS
<1>3. ~At(s, "idle") /\ r.pc = "dispatch"
  BY <1>2 DEF PayDispatch, At
<1>4. r \in Slot /\ Serving(r) /\ RequestOK(r.req) /\ r.job \in JobIds /\ jobs[r.job] # NoRow
  BY <1>2, <1>3, Served DEF Serving, UploadPlaces, RowPlaces, PayPlaces
<1>5. r.req.user \in Users
  BY <1>3, <1>4 DEF Serving, Serves, RowPlaces, PayPlaces, RequestOK
<1>6. admitted' \in [Users -> Nat]
  BY <1>2, <1>5 DEF PayDispatch, Shape, DataOK, GhostsOK
<1>7. DataOK' /\ Stays
  BY <1>1, <1>6, RedisWritten DEF Shape, DataOK, RedisOK, redisVars
<1>8. CASE Goto(s, "restore") /\ UNCHANGED threads
  <2>1. "restore" \in Places \ {"idle"} /\ Serving([r EXCEPT !.pc = "restore"])
    BY <1>3, <1>4 DEF Slot, Serving, Serves, Places, UploadPlaces, RowPlaces, PayPlaces, DeepPlaces, Ops
  <2> QED
    BY <1>1, <1>2, <1>3, <1>7, <1>8, <2>1, RequestMove
<1>9. CASE Spawn(s, "enqueue") /\ Answer(s)
  BY <1>1, <1>2, <1>3, <1>4, <1>7, <1>9, SpawnShape
<1> QED
  BY <1>8, <1>9 DEF PayDispatch

-----------------------------------------------------------------------------
(* The dashboard *)

\* A request sets its job in the memory of its process and goes on, or is answered.
LEMMA MemoryMove ==
  ASSUME Shape, NEW s \in Slots, ~At(s, "idle"), api[s].job \in JobIds,
         NEW st \in State \cup {NoState}, Mine(s) # NoState => st # NoState,
         Remember(s, st), UNCHANGED <<tableVars, redisVars, threads, horse, charges, admitted, scenario>>,
         NEW r \in Slot, r.job = api[s].job, r.proc = api[s].proc, r.req = api[s].req,
         api' = [api EXCEPT ![s] = r], r.pc # "idle", Serves(r.pc, r.req.op),
         r.pc \notin RowPlaces \cup PayPlaces, r.pc \notin {"write", "set"},
         r.pc \in DeepPlaces => st # NoState,
         r.pc \in {"sync", "p_quota", "p_queue"} => r.req.user \in Users,
         r.pc = "spawn" => r.spawn # "none"
  PROVE  Shape'
<1>1. api[s].req \in scenario.requests /\ api[s].proc \in scenario.procs
  BY Served DEF Serving
<1>2. PICK p \in scenario.procs, j \in JobIds : p = api[s].proc /\ j = api[s].job
  BY <1>1
<1>3. Keeps(p, j, st) /\ (memory[p][j] # NoState => st # NoState)
  BY <1>2 DEF Remember, Mine, Keeps
<1>4. DataOK' /\ Stays /\ memory'[p][j] = st
  <2>1. UNCHANGED <<tableVars, redisVars, charges, admitted, scenario>>
    OBVIOUS
  <2>2. DataOK
    BY DEF Shape
  <2> QED
    BY <1>2, <1>3, <2>1, <2>2, Remembered
<1>5. r \in Slot'
  BY <1>4 DEF Slot, Stays, State, AnyState
<1>6. Serving(r)'
  BY <1>1, <1>2, <1>4 DEF Serving, Stays
<1> QED
  BY <1>4, <1>5, <1>6, SlotMoves DEF RequestFits

LEMMA MineType ==
  ASSUME Shape, NEW s \in Slots, ~At(s, "idle"), api[s].job \in JobIds
  PROVE  Mine(s) \in State \cup {NoState} /\ api[s].proc \in scenario.procs
BY Served DEF Mine, Serving, Shape, DataOK, MemoryOK

LEMMA DeepMine ==
  ASSUME Shape, NEW s \in Slots, api[s].pc \in DeepPlaces
  PROVE  /\ ~At(s, "idle") /\ api[s].job \in JobIds /\ Mine(s) \in State
         /\ api[s] \in Slot /\ Serving(api[s]) /\ RequestOK(api[s].req)
<1>1. ~At(s, "idle")
  BY DEF At, DeepPlaces
<1>2. api[s] \in Slot /\ Serving(api[s]) /\ RequestOK(api[s].req) /\ api[s].job \in JobIds
  BY <1>1, Served DEF Serving, DeepPlaces, UploadPlaces
<1> QED
  BY <1>1, <1>2, MineType DEF Serving, Mine

LEMMA StoreUploadShape ==
  ASSUME Shape, NEW s \in Slots, StoreUpload(s)
  PROVE  Shape'
<1>1. UNCHANGED <<tableVars, redisVars, threads, horse, charges, admitted, scenario>>
  BY DEF StoreUpload, ghostVars, countVars
<1>2. PICK r : r = api[s]
  OBVIOUS
<1>3. ~At(s, "idle") /\ r.pc = "upload"
  BY <1>2 DEF StoreUpload, At
<1>4. r \in Slot /\ Serving(r) /\ RequestOK(r.req) /\ r.job \in JobIds /\ r.req.op = "upload"
  BY <1>2, <1>3, Served DEF Serving, Serves, UploadPlaces
<1>5. r.req.doc \in Documents /\ r.req.user \in Users \cup {Nobody}
  BY <1>4 DEF RequestOK
<1>6. CASE Answer(s) /\ UNCHANGED memory
  BY <1>1, <1>6, QuietAnswer DEF dataVars
<1>7. CASE ~(Answer(s) /\ UNCHANGED memory)
  <2> DEFINE st == IF Of(s).draft THEN NewState(Of(s).doc, Of(s).user, "pending_estimate", 0)
                   ELSE NewState(Of(s).doc, Of(s).user, "estimated", AmountToPay(Of(s).user, Of(s).doc.words))
  <2>1. Remember(s, st) /\ Goto(s, "publish")
    BY <1>7 DEF StoreUpload
  <2>2. AmountToPay(r.req.user, r.req.doc.words) \in Nat
    BY <1>5, AmountType, WordsType DEF Shape, DataOK
  <2>3. st \in State
    BY <1>2, <1>5, <2>2 DEF Of, NewState, State, AnyState, MemoryStatuses, Outputs
  <2>4. st # NoState
    BY <2>3, Distinct
  <2> HIDE DEF st
  <2>5. PICK q : q = [r EXCEPT !.pc = "publish"]
    OBVIOUS
  <2>6. q \in Slot /\ q.pc = "publish" /\ q.job = r.job /\ q.proc = r.proc /\ q.req = r.req
    BY <1>4, <2>5 DEF Slot, Places, DeepPlaces
  <2>7. Serves("publish", r.req.op) /\ "publish" \notin RowPlaces \cup PayPlaces
    BY <1>4 DEF Serves, UploadPlaces, RowPlaces, PayPlaces, Ops
  <2>8. api' = [api EXCEPT ![s] = q]
    BY <1>2, <2>1, <2>5, GotoIs
  <2> QED
    BY <1>1, <1>2, <1>3, <1>4, <2>1, <2>3, <2>4, <2>6, <2>7, <2>8, MemoryMove
<1> QED
  BY <1>6, <1>7

LEMMA RestoreShape ==
  ASSUME Shape, NEW s \in Slots, Restore(s)
  PROVE  Shape'
<1>1. UNCHANGED <<tableVars, redisVars, threads, horse, charges, admitted, scenario>>
  BY DEF Restore, ghostVars, countVars
<1>2. PICK r : r = api[s]
  OBVIOUS
<1>3. ~At(s, "idle") /\ r.pc = "restore"
  BY <1>2 DEF Restore, At
<1>4. r \in Slot /\ Serving(r) /\ r.job \in JobIds /\ r.req.op \in Ops \cup {"pay"}
  BY <1>2, <1>3, Served DEF Serving, Serves, UploadPlaces
<1>5. Goto(s, r.req.op)
  BY <1>2 DEF Restore, Of
<1>6. PICK q : q = [r EXCEPT !.pc = r.req.op]
  OBVIOUS
<1>7. q \in Slot /\ q.pc = r.req.op /\ q.job = r.job /\ q.proc = r.proc /\ q.req = r.req
  BY <1>4, <1>6 DEF Slot, Places
<1>8. Serving(q)
  BY <1>4, <1>7 DEF Serving, Serves, UploadPlaces, RowPlaces, PayPlaces, DeepPlaces, Ops
<1>9. CASE UNCHANGED memory
  BY <1>1, <1>2, <1>5, <1>6, <1>7, <1>8, <1>9, GotoIs, QuietMove DEF dataVars, RequestFits
<1>10. CASE Mine(s) = NoState /\ Remember(s, snapshot[api[s].job])
  <2>1. PICK st \in State \cup {NoState} : st = snapshot[api[s].job]
    BY <1>2, <1>4 DEF Shape, DataOK, RedisOK
  <2>2. q.pc # "idle" /\ q.pc \notin RowPlaces \cup PayPlaces \cup DeepPlaces
    BY <1>4, <1>7 DEF RowPlaces, PayPlaces, DeepPlaces, Ops
  <2>3. Serves(q.pc, q.req.op) /\ q.pc \notin {"write", "set", "sync", "p_quota", "p_queue", "spawn"}
    BY <1>4, <1>7, <1>8 DEF Serving, Ops
  <2>4. api' = [api EXCEPT ![s] = q]
    BY <1>2, <1>5, <1>6, GotoIs
  <2>5. Remember(s, st) /\ (Mine(s) # NoState => st # NoState)
    BY <1>10, <2>1
  <2> QED
    BY <1>1, <1>2, <1>3, <1>4, <1>7, <2>1, <2>2, <2>3, <2>4, <2>5, MemoryMove
<1> QED
  BY <1>9, <1>10 DEF Restore

\* A request that has its job in memory sets its state and goes to pc.
LEMMA StateMove ==
  ASSUME Shape, NEW s \in Slots, ~At(s, "idle"), api[s].job \in JobIds, NEW st \in State, Remember(s, st),
         UNCHANGED <<tableVars, redisVars, threads, horse, charges, admitted, scenario>>,
         NEW pc \in DeepPlaces \ {"write", "set", "spawn"}, NEW spawn \in Kinds,
         api' = [api EXCEPT ![s].pc = pc, ![s].spawn = spawn], Serves(pc, api[s].req.op),
         pc \in {"sync", "p_quota", "p_queue"} => api[s].req.user \in Users
  PROVE  Shape'
<1>1. PICK r : r = api[s]
  OBVIOUS
<1>2. r \in Slot
  BY <1>1, Served
<1>3. PICK q : q = [r EXCEPT !.pc = pc, !.spawn = spawn]
  OBVIOUS
<1>4. q \in Slot /\ q.pc = pc /\ q.job = r.job /\ q.proc = r.proc /\ q.req = r.req
  BY <1>2, <1>3 DEF Slot, Places
<1>5. api' = [api EXCEPT ![s] = q]
  BY <1>1, <1>3 DEF Shape, SlotsOK
<1>6. st # NoState
  BY Distinct
<1>7. pc \notin RowPlaces \cup PayPlaces /\ pc # "idle"
  BY DEF RowPlaces, PayPlaces, DeepPlaces
<1>8. q.pc \notin {"write", "set"} /\ q.pc # "spawn"
  BY <1>4
<1>9. /\ st \in State \cup {NoState} /\ (Mine(s) # NoState => st # NoState)
      /\ q.job = api[s].job /\ q.proc = api[s].proc /\ q.req = api[s].req
      /\ q.pc # "idle" /\ Serves(q.pc, q.req.op) /\ q.pc \notin RowPlaces \cup PayPlaces
      /\ q.pc \in DeepPlaces => st # NoState
      /\ q.pc \in {"sync", "p_quota", "p_queue"} => q.req.user \in Users
      /\ q.pc = "spawn" => q.spawn # "none"
  BY <1>1, <1>4, <1>6, <1>7, <1>8
<1> QED
  BY <1>4, <1>5, <1>8, <1>9, MemoryMove, ZenonT(60)

LEMMA GotoKeepsSpawn ==
  ASSUME Shape, NEW s \in Slots, ~At(s, "idle"), NEW pc, Goto(s, pc)
  PROVE  /\ api[s].spawn \in Kinds
         /\ api' = [api EXCEPT ![s].pc = pc, ![s].spawn = api[s].spawn]
<1>1. api[s] \in Slot
  BY Served
<1> QED
  BY <1>1 DEF Goto, Slot, Shape, SlotsOK

LEMMA EstimateShape ==
  ASSUME Shape, NEW s \in Slots, EstimateCheck(s) \/ Poll(s)
  PROVE  Shape'
<1>1. UNCHANGED <<dataVars, threads, horse>>
  BY DEF EstimateCheck, Poll, dataVars, procVars, ghostVars, countVars
<1>2. PICK r : r = api[s]
  OBVIOUS
<1>3. ~At(s, "idle") /\ r.pc \in {"estimate", "poll"}
  BY <1>2 DEF EstimateCheck, Poll, At
<1>4. r \in Slot /\ Serving(r) /\ r.job \in JobIds
  BY <1>2, <1>3, Served DEF Serving, UploadPlaces
<1>5. CASE Answer(s)
  BY <1>1, <1>5, QuietAnswer
<1>6. CASE ~Answer(s)
  <2>1. PICK pc \in {"publish", "counted"} : Mine(s) # NoState /\ Goto(s, pc) /\ r.pc = "estimate"
    BY <1>2, <1>6 DEF EstimateCheck, Poll, At
  <2>2. pc \in Places \ {"idle"} /\ Serving([r EXCEPT !.pc = pc])
    BY <1>2, <1>4, <2>1 DEF Mine, Slot, Serving, Serves, Places, UploadPlaces, RowPlaces, PayPlaces, DeepPlaces, Ops
  <2> QED
    BY <1>1, <1>2, <1>3, <2>1, <2>2, QuietGoto
<1> QED
  BY <1>5, <1>6

LEMMA EstimateStoreShape ==
  ASSUME Shape, NEW s \in Slots, EstimateStore(s)
  PROVE  Shape'
<1>1. UNCHANGED <<tableVars, redisVars, threads, horse, charges, admitted, scenario>>
  BY DEF EstimateStore, ghostVars, countVars
<1>2. api[s].pc = "counted" /\ Goto(s, "publish") /\ "counted" \in DeepPlaces
  BY DEF EstimateStore, At, DeepPlaces
<1>3. ~At(s, "idle") /\ api[s].job \in JobIds /\ Mine(s) \in State /\ Serving(api[s]) /\ api[s] \in Slot
  BY <1>2, DeepMine
<1>4. Serves("publish", api[s].req.op) /\ "publish" \in DeepPlaces \ {"write", "set", "spawn"}
  BY <1>2, <1>3 DEF Serving, Serves, UploadPlaces, RowPlaces, PayPlaces, DeepPlaces, Ops
<1>5. PICK old \in State : old = Mine(s)
  BY <1>3
<1>6. CASE Mine(s).status = "pending_estimate"
  <2>1. PICK cost \in Nat : cost = EstimatePaygInr(old.doc.words)
    BY EstimateIsNat, WordsType DEF State, AnyState
  <2>2. PICK st : st = [old EXCEPT !.status = "estimated", !.cost = cost]
    OBVIOUS
  <2>3. st \in State
    BY <2>2 DEF State, AnyState, MemoryStatuses
  <2>4. Remember(s, st)
    BY <1>5, <1>6, <2>1, <2>2 DEF EstimateStore
  <2> QED
    BY <1>1, <1>2, <1>3, <1>4, <2>3, <2>4, GotoKeepsSpawn, StateMove
<1>7. CASE UNCHANGED memory
  <2>1. Serving([api[s] EXCEPT !.pc = "publish"])
    BY <1>2, <1>3, <1>4 DEF Slot, Serving, RowPlaces, PayPlaces, DeepPlaces, UploadPlaces
  <2>2. "publish" \in Places \ {"idle"}
    BY DEF Places, DeepPlaces
  <2> QED
    BY <1>1, <1>2, <1>3, <1>7, <2>1, <2>2, QuietGoto DEF dataVars
<1> QED
  BY <1>6, <1>7 DEF EstimateStore

\* Where a request that starts a translation goes next.
LEMMA CommitsIs ==
  ASSUME Shape, NEW s \in Slots, ~At(s, "idle"), NEW spawn \in Kinds, Commits(s, spawn), api[s].req.op \in Signs
  PROVE  \E pc \in {"publish", "sync"} :
           /\ api' = [api EXCEPT ![s].pc = pc, ![s].spawn = spawn]
           /\ pc \in DeepPlaces \ {"write", "set", "spawn"} /\ Serves(pc, api[s].req.op)
           /\ pc \in {"sync", "p_quota", "p_queue"} => api[s].req.user \in Users
<1>1. api[s].req.user \in Users \cup {Nobody}
  BY Served DEF RequestOK
<1>2. PICK pc \in {"publish", "sync"} :
         /\ api' = [api EXCEPT ![s].pc = pc, ![s].spawn = spawn]
         /\ pc = "sync" => api[s].req.user # Nobody
  BY DEF Commits, Of
<1>3. pc \in DeepPlaces \ {"write", "set", "spawn"} /\ Serves(pc, api[s].req.op)
  BY DEF DeepPlaces, Serves, UploadPlaces, RowPlaces, PayPlaces, Ops, Signs
<1> QED
  BY <1>1, <1>2, <1>3

LEMMA StartShape ==
  ASSUME Shape, NEW s \in Slots, Start(s) \/ ConfirmAwait(s) \/ ConfirmQueue(s) \/ PreviewQueue(s)
  PROVE  Shape'
<1>1. UNCHANGED <<tableVars, redisVars, threads, horse, charges, admitted, scenario>>
  BY DEF Start, ConfirmAwait, ConfirmQueue, PreviewQueue, ghostVars, countVars
<1>2. ~At(s, "idle") /\ api[s].pc \in {"start", "await", "queue", "p_queue"}
  BY DEF Start, ConfirmAwait, ConfirmQueue, PreviewQueue, At
<1>3. /\ api[s] \in Slot /\ Serving(api[s]) /\ RequestOK(api[s].req) /\ api[s].job \in JobIds
      /\ api[s].req.op \in Signs /\ Of(s).user \in Users \cup {Nobody}
  BY <1>2, Served DEF Serving, Serves, UploadPlaces, RequestOK, Of, Signs, Ops
<1>4. Mine(s) \in State \cup {NoState}
  BY <1>2, <1>3, MineType
<1>5. (Answer(s) /\ UNCHANGED memory) \/ Mine(s) # NoState
  <2>1. CASE Start(s)
    BY <2>1 DEF Start
  <2>2. CASE ~Start(s)
    <3>1. api[s].pc \in DeepPlaces
      BY <2>2 DEF ConfirmAwait, ConfirmQueue, PreviewQueue, At, DeepPlaces
    <3> QED
      BY <1>3, <3>1 DEF Serving, Mine
  <2> QED
    BY <2>1, <2>2
<1>6. CASE Answer(s) /\ UNCHANGED memory
  BY <1>1, <1>6, QuietAnswer DEF dataVars
<1>7. CASE ~(Answer(s) /\ UNCHANGED memory)
  <2>1. Mine(s) \in State /\ Signed(s, Mine(s)) \in State
    BY <1>3, <1>4, <1>5, <1>7, SignedType
  <2>2. PICK old \in State, status \in {"queued", "awaiting_payment"}, spawn \in Kinds :
           Remember(s, [old EXCEPT !.status = status]) /\ Commits(s, spawn)
    <3>1. CASE Start(s)
      BY <1>7, <2>1, <3>1 DEF Start, Kinds
    <3>2. CASE ConfirmAwait(s)
      BY <2>1, <3>2 DEF ConfirmAwait, Kinds
    <3>3. CASE ConfirmQueue(s)
      BY <2>1, <3>3 DEF ConfirmQueue, Kinds
    <3>4. CASE PreviewQueue(s)
      BY <2>1, <3>4 DEF PreviewQueue, Kinds
    <3> QED
      BY <3>1, <3>2, <3>3, <3>4
  <2>3. [old EXCEPT !.status = status] \in State
    BY <2>2, StatusSet DEF MemoryStatuses, Statuses
  <2>4. PICK st \in State : Remember(s, st)
    BY <2>2, <2>3
  <2>5. PICK pc \in {"publish", "sync"} :
           /\ api' = [api EXCEPT ![s].pc = pc, ![s].spawn = spawn]
           /\ pc \in DeepPlaces \ {"write", "set", "spawn"} /\ Serves(pc, api[s].req.op)
           /\ pc \in {"sync", "p_quota", "p_queue"} => api[s].req.user \in Users
    BY <1>2, <1>3, <2>2, CommitsIs
  <2> QED
    BY <1>1, <1>2, <1>3, <2>2, <2>4, <2>5, StateMove
<1> QED
  BY <1>6, <1>7

LEMMA CheckShape ==
  ASSUME Shape, NEW s \in Slots, ConfirmCheck(s) \/ PreviewCheck(s)
  PROVE  Shape'
<1>1. UNCHANGED <<tableVars, redisVars, threads, horse, charges, admitted, scenario>>
  BY DEF ConfirmCheck, PreviewCheck, ghostVars, countVars
<1>2. ~At(s, "idle") /\ api[s].pc \in {"confirm", "preview"}
  BY DEF ConfirmCheck, PreviewCheck, At
<1>3. /\ api[s] \in Slot /\ Serving(api[s]) /\ RequestOK(api[s].req) /\ api[s].job \in JobIds
      /\ api[s].req.op = api[s].pc /\ Of(s).user \in Users \cup {Nobody}
  BY <1>2, Served DEF Serving, Serves, UploadPlaces, RequestOK, Of, Ops
<1>4. Mine(s) \in State \cup {NoState}
  BY <1>2, <1>3, MineType
<1>5. CASE Answer(s) /\ UNCHANGED memory
  BY <1>1, <1>5, QuietAnswer DEF dataVars
<1>6. CASE ~(Answer(s) /\ UNCHANGED memory)
  <2>1. Mine(s) # NoState
    BY <1>6 DEF ConfirmCheck, PreviewCheck
  <2>2. PICK old \in State : old = Mine(s)
    BY <1>4, <2>1
  <2>3. PICK signed \in State : signed = Signed(s, old) /\ signed.status = old.status
    BY <1>3, SignedType
  <2>4. PICK st \in State, pc \in {"bill", "p_quota"} :
           /\ Remember(s, st) /\ Goto(s, pc)
           /\ pc = "bill" <=> api[s].pc = "confirm"
           /\ pc = "p_quota" => api[s].req.user # Nobody
    <3>1. CASE ConfirmCheck(s)
      <4>1. [signed EXCEPT !.docx = IF old.status = "preview_ready" THEN "none" ELSE @] \in State
        BY <2>3 DEF State, AnyState, Outputs
      <4>2. /\ Remember(s, [signed EXCEPT !.docx = IF old.status = "preview_ready" THEN "none" ELSE @])
            /\ Goto(s, "bill") /\ api[s].pc = "confirm"
        BY <1>6, <2>2, <2>3, <3>1 DEF ConfirmCheck, At
      <4> QED
        BY <4>1, <4>2
    <3>2. CASE PreviewCheck(s)
      <4>1. Remember(s, signed) /\ Goto(s, "p_quota") /\ api[s].pc = "preview" /\ api[s].req.user # Nobody
        BY <1>6, <2>2, <2>3, <3>2 DEF PreviewCheck, At, Of
      <4> QED
        BY <4>1
    <3> QED
      BY <3>1, <3>2
  <2>5. pc \in DeepPlaces \ {"write", "set", "spawn"} /\ Serves(pc, api[s].req.op)
    BY <1>2, <1>3, <2>4 DEF DeepPlaces, Serves, UploadPlaces, RowPlaces, PayPlaces, Ops
  <2>6. pc \in {"sync", "p_quota", "p_queue"} => api[s].req.user \in Users
    BY <1>3, <2>4 DEF Of
  <2> QED
    BY <1>1, <1>2, <1>3, <2>4, <2>5, <2>6, GotoKeepsSpawn, StateMove
<1> QED
  BY <1>5, <1>6

LEMMA BillShape ==
  ASSUME Shape, NEW s \in Slots, ConfirmBill(s)
  PROVE  Shape'
<1>1. UNCHANGED <<dataVars, threads, horse>>
  BY DEF ConfirmBill, dataVars, procVars, ghostVars, countVars
<1>2. api[s].pc = "bill" /\ api[s].pc \in DeepPlaces
  BY DEF ConfirmBill, At, DeepPlaces
<1>3. ~At(s, "idle") /\ api[s].job \in JobIds /\ Serving(api[s]) /\ api[s] \in Slot
  BY <1>2, DeepMine
<1>4. CASE Answer(s)
  BY <1>1, <1>4, QuietAnswer
<1>5. CASE ~Answer(s)
  <2>1. PICK pc \in {"await", "queue"} : Goto(s, pc)
    BY <1>5 DEF ConfirmBill
  <2>2. pc \in Places \ {"idle"} /\ Serving([api[s] EXCEPT !.pc = pc])
    BY <1>2, <1>3, <2>1 DEF Slot, Serving, Serves, Places, UploadPlaces, RowPlaces, PayPlaces, DeepPlaces, Ops
  <2> QED
    BY <1>1, <1>3, <2>1, <2>2, QuietGoto
<1> QED
  BY <1>4, <1>5

LEMMA PreviewQuotaShape ==
  ASSUME Shape, NEW s \in Slots, PreviewQuota(s)
  PROVE  Shape'
<1>1. UNCHANGED <<jobs, profiles, redisVars, memory, threads, horse, charges, admitted, scenario>>
  BY DEF PreviewQuota, procVars, ghostVars, countVars
<1>2. api[s].pc = "p_quota" /\ api[s].pc \in DeepPlaces
  BY DEF PreviewQuota, At, DeepPlaces
<1>3. ~At(s, "idle") /\ api[s].job \in JobIds /\ Serving(api[s]) /\ api[s] \in Slot
  BY <1>2, DeepMine
<1>4. previews' \in [Users -> Nat]
  BY <1>2, <1>3 DEF PreviewQuota, Of, Serving, Shape, DataOK, TablesOK
<1>5. DataOK' /\ Stays
  BY <1>1, <1>4 DEF Shape, DataOK, TablesOK, RedisOK, MemoryOK, GhostsOK, Stays, redisVars, State, AnyState
<1>6. "p_queue" \in Places \ {"idle"} /\ Serving([api[s] EXCEPT !.pc = "p_queue"])
  BY <1>2, <1>3 DEF Slot, Serving, Serves, Places, UploadPlaces, RowPlaces, PayPlaces, DeepPlaces, Ops
<1>7. Goto(s, "p_queue") \/ Answer(s)
  BY DEF PreviewQuota
<1> QED
  BY <1>1, <1>3, <1>5, <1>6, <1>7, RequestMove

LEMMA CopyShape ==
  ASSUME Shape, NEW s \in Slots, SyncRead(s) \/ PublishRead(s)
  PROVE  Shape'
<1>1. UNCHANGED <<dataVars, threads, horse>>
  BY DEF SyncRead, PublishRead, dataVars, procVars, ghostVars, countVars
<1>2. PICK r : r = api[s]
  OBVIOUS
<1>3. r.pc \in {"sync", "publish"} /\ r.pc \in DeepPlaces
  BY <1>2 DEF SyncRead, PublishRead, At, DeepPlaces
<1>4. r.job \in JobIds /\ Serving(r) /\ r \in Slot
  BY <1>2, <1>3, DeepMine
<1>5. PICK st \in State : st = Mine(s)
  BY <1>2, <1>3, DeepMine
<1>6. PICK pc \in {"write", "set"} :
         api' = [api EXCEPT ![s].pc = pc, ![s].copy = st] /\ (pc = "write" <=> r.pc = "sync")
  BY <1>2, <1>5 DEF SyncRead, PublishRead, At
<1>7. PICK q : q = [r EXCEPT !.pc = pc, !.copy = st]
  OBVIOUS
<1>8. st # NoState
  BY Distinct
<1>9. q \in Slot
  BY <1>4, <1>7 DEF Slot, Places, DeepPlaces
<1>10. Serving(q)
  BY <1>3, <1>4, <1>6, <1>7, <1>8 DEF Slot, Serving, Serves, UploadPlaces, RowPlaces, PayPlaces, DeepPlaces, Ops
<1>11. api' = [api EXCEPT ![s] = q]
  BY <1>2, <1>6, <1>7 DEF Shape, SlotsOK
<1> QED
  BY <1>1, <1>9, <1>10, <1>11, QuietMove DEF RequestFits

\* The row that a copy of a state makes.
LEMMA SyncedRowType ==
  ASSUME NEW row \in Row \cup {NoRow}, NEW st \in State, NEW u \in Users
  PROVE  SyncedRow(row, st, u) \in Row
<1>1. DbStatus(st.status) \in Statuses
  BY DEF DbStatus, Statuses
<1>2. row # NoRow => row \in Row
  OBVIOUS
<1>3. st.doc \in Documents /\ st.cost \in Nat
  BY DEF State, AnyState
<1> QED
  BY <1>1, <1>2, <1>3, NoAttempt DEF SyncedRow, Row, Outputs

LEMMA SyncWriteShape ==
  ASSUME Shape, NEW s \in Slots, SyncWrite(s)
  PROVE  Shape'
<1>1. UNCHANGED <<profiles, previews, redisVars, memory, threads, horse, charges, admitted, scenario>>
  BY DEF SyncWrite, procVars, ghostVars, countVars
<1>2. api[s].pc = "write" /\ api[s].pc \in DeepPlaces
  BY DEF SyncWrite, At, DeepPlaces
<1>3. ~At(s, "idle") /\ api[s].job \in JobIds /\ Serving(api[s]) /\ api[s] \in Slot
  BY <1>2, DeepMine
<1>4. PICK old \in Row \cup {NoRow} : old = jobs[api[s].job]
  BY <1>3 DEF Shape, DataOK, TablesOK
<1>5. PICK st \in State, u \in Users : st = api[s].copy /\ u = Of(s).user
  BY <1>2, <1>3 DEF Serving, Slot, Of
<1>6. PICK row \in Row : row = SyncedRow(old, st, u)
  BY SyncedRowType
<1>7. "publish" \in Places \ {"idle"} /\ Serves("publish", api[s].req.op)
  BY <1>2, <1>3 DEF Serving, Serves, Places, UploadPlaces, RowPlaces, PayPlaces, DeepPlaces, Ops, Signs
<1>8. Goto(s, "publish")
  BY DEF SyncWrite
<1>9. CASE UNCHANGED jobs
  <2>1. UNCHANGED <<dataVars, threads, horse>>
    BY <1>1, <1>9 DEF dataVars, tableVars, redisVars
  <2>2. Serving([api[s] EXCEPT !.pc = "publish"])
    BY <1>2, <1>3, <1>7 DEF Slot, Serving, UploadPlaces, RowPlaces, PayPlaces, DeepPlaces
  <2> QED
    BY <1>3, <1>7, <1>8, <2>1, <2>2, QuietGoto
<1>10. CASE ~UNCHANGED jobs
  <2>1. jobs' = [jobs EXCEPT ![api[s].job] = row]
    BY <1>3, <1>4, <1>5, <1>6, <1>10 DEF SyncWrite, Shape, DataOK, TablesOK
  <2> QED
    BY <1>1, <1>2, <1>3, <1>7, <1>8, <2>1, RowMove
<1> QED
  BY <1>9, <1>10

LEMMA PublishSetShape ==
  ASSUME Shape, NEW s \in Slots, PublishSet(s)
  PROVE  Shape'
<1>1. UNCHANGED <<tableVars, rqQueue, quota, memory, threads, horse, charges, admitted, scenario>>
  BY DEF PublishSet, procVars, ghostVars, countVars
<1>2. api[s].pc = "set" /\ api[s].pc \in DeepPlaces
  BY DEF PublishSet, At, DeepPlaces
<1>3. ~At(s, "idle") /\ api[s].job \in JobIds /\ Serving(api[s]) /\ api[s] \in Slot
  BY <1>2, DeepMine
<1>4. snapshot' \in [JobIds -> State \cup {NoState}]
  BY <1>3 DEF PublishSet, Slot, Shape, DataOK, RedisOK
<1>5. DataOK' /\ Stays
  BY <1>1, <1>4, RedisWritten DEF Shape, DataOK, RedisOK, GhostsOK
<1>6. CASE Answer(s)
  <2>1. RequestFits(IdleSlot)'
    BY <1>5, IdleFits, RequestStays
  <2> QED
    BY <1>1, <1>5, <1>6, <2>1, AnswerIs, SlotMoves
<1>7. CASE api[s].spawn # "none" /\ Goto(s, "spawn")
  <2>1. "spawn" \in Places \ {"idle"} /\ Serving([api[s] EXCEPT !.pc = "spawn"])
    BY <1>2, <1>3, <1>7 DEF Slot, Serving, Serves, Places, UploadPlaces, RowPlaces, PayPlaces, DeepPlaces, Ops
  <2> QED
    BY <1>1, <1>3, <1>5, <1>7, <2>1, RequestMove
<1> QED
  BY <1>6, <1>7 DEF PublishSet

LEMMA SpawnThreadShape ==
  ASSUME Shape, NEW s \in Slots, SpawnThread(s)
  PROVE  Shape'
<1>1. UNCHANGED dataVars /\ UNCHANGED horse
  BY DEF SpawnThread, dataVars, ghostVars, countVars
<1>2. api[s].pc = "spawn" /\ api[s].pc \in DeepPlaces
  BY DEF SpawnThread, At, DeepPlaces
<1>3. ~At(s, "idle") /\ api[s].job \in JobIds /\ Serving(api[s]) /\ api[s] \in Slot
  BY <1>2, DeepMine
<1>4. PICK kind \in {"full", "preview"} : kind = api[s].spawn
  BY <1>2, <1>3 DEF Serving, Slot, Kinds
<1>5. DataOK' /\ Stays
  BY <1>1, DataSame DEF Shape
<1>6. Spawn(s, kind) /\ Answer(s)
  BY <1>4 DEF SpawnThread
<1>7. memory[api[s].proc][api[s].job] # NoState
  BY <1>2, <1>3 DEF Serving
<1> QED
  BY <1>1, <1>3, <1>5, <1>6, <1>7, SpawnShape

LEMMA PayMilestoneShape ==
  ASSUME Shape, NEW s \in Slots, PayMilestone(s)
  PROVE  Shape'
<1>1. UNCHANGED <<tableVars, redisVars, threads, horse, charges, admitted, scenario>>
  BY DEF PayMilestone, ActivateMilestone, ghostVars, countVars
<1>2. api[s].pc = "pay" /\ ~At(s, "idle")
  BY DEF PayMilestone, ActivateMilestone, At
<1>3. api[s].job \in JobIds /\ Serving(api[s]) /\ api[s] \in Slot
  BY <1>2, Served DEF Serving, UploadPlaces
<1>4. CASE Answer(s) /\ UNCHANGED memory
  BY <1>1, <1>4, QuietAnswer DEF dataVars
<1>5. CASE ~(Answer(s) /\ UNCHANGED memory)
  <2>1. /\ Mine(s) # NoState /\ memory' = [memory EXCEPT ![api[s].proc][api[s].job].status = "queued"]
        /\ api' = [api EXCEPT ![s].pc = "publish", ![s].spawn = "full"]
    BY <1>5 DEF PayMilestone, ActivateMilestone, Mine
  <2>2. PICK old \in State : old = Mine(s)
    BY <1>2, <1>3, <2>1, MineType
  <2>3. PICK st \in State : st = [old EXCEPT !.status = "queued"]
    BY StatusSet DEF MemoryStatuses
  <2>4. Remember(s, st)
    BY <1>3, <2>1, <2>2, <2>3 DEF Remember, Mine, Serving, Shape, DataOK, MemoryOK
  <2>5. Serves("publish", api[s].req.op) /\ "publish" \in DeepPlaces \ {"write", "set", "spawn"}
    BY <1>2, <1>3 DEF Serving, Serves, UploadPlaces, RowPlaces, PayPlaces, DeepPlaces, Ops
  <2> QED
    BY <1>1, <1>2, <1>3, <2>1, <2>4, <2>5, StateMove DEF Kinds
<1> QED
  BY <1>4, <1>5

LEMMA ServeShape ==
  ASSUME Shape, NEW s \in Slots, Serve(s)
  PROVE  Shape'
<1>1. CASE Dashboard(s)
  BY <1>1, StoreUploadShape, RestoreShape, EstimateShape, EstimateStoreShape, StartShape, CheckShape, BillShape,
     PreviewQuotaShape, CopyShape, SyncWriteShape, PublishSetShape, SpawnThreadShape DEF Dashboard
<1> QED
  BY <1>1, AdmitShape, ReserveShape, PayCreditShape, PayLoadShape, PayCommitShape, PayDispatchShape,
     PayMilestoneShape DEF Serve

-----------------------------------------------------------------------------
(* Daemon threads *)

LEMMA Running ==
  ASSUME Shape, NEW t \in Threads, threads[t].pc \in ThreadPlaces
  PROVE  /\ threads[t] \in Thread /\ Translating(threads[t]) /\ threads[t].job \in JobIds
         /\ threads[t].proc \in scenario.procs /\ Held(t) \in State
<1>1. threads[t] \in Thread /\ Translating(threads[t])
  BY DEF Shape, ThreadsOK, ThreadFits, IdleThread, ThreadPlaces
<1>2. Held(t) \in State \cup {NoState}
  BY <1>1 DEF Held, JobOf, Translating, Shape, DataOK, MemoryOK
<1> QED
  BY <1>1, <1>2 DEF Translating, Held, JobOf

\* A thread over data it has written well, that has more to do or is done.
LEMMA ThreadGoes ==
  ASSUME Shape, DataOK', Stays, NEW t \in Threads, threads[t].pc \in ThreadPlaces,
         NEW r, r \in Thread, r = IdleThread \/ Translating(r), threads' = [threads EXCEPT ![t] = r],
         UNCHANGED <<api, horse>>
  PROVE  Shape'
<1>1. ThreadFits(r)'
  BY ThreadStays DEF ThreadFits
<1> QED
  BY <1>1, ThreadMoves

\* A thread sets the state of its job.
LEMMA BecomesData ==
  ASSUME Shape, NEW t \in Threads, threads[t].pc \in ThreadPlaces, NEW st \in State, Becomes(t, st),
         UNCHANGED <<tableVars, redisVars, charges, admitted, scenario>>
  PROVE  DataOK' /\ Stays
<1>1. PICK p \in scenario.procs, j \in JobIds : p = threads[t].proc /\ j = threads[t].job
  BY Running
<1>2. Keeps(p, j, st)
  BY <1>1 DEF Becomes, JobOf, Keeps
<1>3. st \in State \cup {NoState} /\ (memory[p][j] # NoState => st # NoState)
  BY Distinct
<1>4. DataOK
  BY DEF Shape
<1>5. UNCHANGED <<tableVars, redisVars, charges, admitted, scenario>>
  OBVIOUS
<1> QED
  BY <1>1, <1>2, <1>3, <1>4, <1>5, Remembered

\* The record of a thread that goes on to pc, and publishes first or not.
LEMMA GoesOn ==
  ASSUME Shape, NEW t \in Threads, threads[t].pc \in ThreadPlaces,
         NEW pc \in ThreadPlaces \ {"publish", "set"}, TGoto(t, pc)
  PROVE  \E r \in Thread : Translating(r) /\ threads' = [threads EXCEPT ![t] = r]
<1>1. PICK old \in Thread : old = threads[t] /\ Translating(old)
  BY Running
<1>2. PICK r : r = [old EXCEPT !.pc = pc]
  OBVIOUS
<1>3. r \in Thread /\ Translating(r)
  BY <1>1, <1>2 DEF Thread, Translating
<1> QED
  BY <1>1, <1>2, <1>3 DEF TGoto, Shape, ThreadsOK

LEMMA PublishesThen ==
  ASSUME Shape, NEW t \in Threads, threads[t].pc \in ThreadPlaces,
         NEW after \in {"row_processing", "settle", "row_preview", "end"}, Publishes(t, after)
  PROVE  \E r \in Thread : Translating(r) /\ threads' = [threads EXCEPT ![t] = r]
<1>1. PICK old \in Thread : old = threads[t] /\ Translating(old)
  BY Running
<1>2. PICK r : r = [old EXCEPT !.pc = "publish", !.after = after]
  OBVIOUS
<1>3. r \in Thread /\ Translating(r)
  BY <1>1, <1>2 DEF Thread, Translating, ThreadPlaces
<1> QED
  BY <1>1, <1>2, <1>3 DEF Publishes, Shape, ThreadsOK

\* What a thread writes to the row of its job.
LEMMA UpdateRowData ==
  ASSUME Shape, NEW t \in Threads, threads[t].pc \in ThreadPlaces, NEW status \in Statuses, NEW output \in Outputs,
         NEW cost \in Nat, UpdateRow(t, status, output, cost),
         UNCHANGED <<profiles, previews, redisVars, memory, charges, admitted, scenario>>
  PROVE  DataOK' /\ Stays
<1>1. PICK j \in JobIds, st \in State : j = JobOf(t) /\ st = Held(t)
  BY Running DEF JobOf
<1>2. jobs[j] \in Row \cup {NoRow}
  BY DEF Shape, DataOK, TablesOK
<1>3. CASE jobs' = jobs
  BY <1>3, DataSame DEF Shape, dataVars, tableVars
<1>4. CASE ~(jobs[j] = NoRow /\ st.user = Nobody)
  <2>1. \E row \in Row : row = IF jobs[j] # NoRow THEN jobs[j]
                               ELSE [SyncedRow(NoRow, st, st.user) EXCEPT !.quote = 0]
    <3>1. CASE jobs[j] # NoRow
      BY <1>2, <3>1
    <3>2. CASE jobs[j] = NoRow
      <4>1. st.user \in Users
        BY <1>4, <3>2 DEF State, AnyState
      <4>2. PICK new \in Row : new = SyncedRow(NoRow, st, st.user)
        BY <4>1, SyncedRowType
      <4>3. [new EXCEPT !.quote = 0] \in Row
        BY DEF Row
      <4> QED
        BY <3>2, <4>2, <4>3
    <3> QED
      BY <3>1, <3>2
  <2>2. PICK row \in Row : row = IF jobs[j] # NoRow THEN jobs[j]
                                 ELSE [SyncedRow(NoRow, st, st.user) EXCEPT !.quote = 0]
    BY <2>1
  <2>3. jobs' = [jobs EXCEPT ![j] = [row EXCEPT !.status = status,
                                                !.output = IF output = "none" THEN @ ELSE output,
                                                !.cost = cost]]
    BY <1>1, <1>4, <2>2 DEF UpdateRow
  <2>4. [row EXCEPT !.status = status, !.output = IF output = "none" THEN @ ELSE output, !.cost = cost] \in Row
    BY DEF Row
  <2> QED
    BY <2>3, <2>4, RowWritten DEF Shape
<1> QED
  BY <1>1, <1>3, <1>4 DEF UpdateRow

LEMMA RowCostType ==
  ASSUME Shape, NEW t \in Threads, threads[t].pc \in ThreadPlaces
  PROVE  RowCost(t) \in Nat /\ Held(t).cost \in Nat
BY Running DEF RowCost, JobOf, Shape, DataOK, TablesOK, Row, State, AnyState

LEMMA ThreadStateShape ==
  ASSUME Shape, NEW t \in Threads, ThreadBegin(t) \/ ThreadRun(t) \/ ThreadRaises(t) \/ ThreadBill(t)
  PROVE  Shape'
<1>1. UNCHANGED <<tableVars, redisVars, charges, admitted, scenario>> /\ UNCHANGED <<api, horse>>
  BY DEF ThreadBegin, ThreadRun, ThreadRaises, ThreadBill, ghostVars, countVars
<1>2. threads[t].pc \in ThreadPlaces
  BY DEF ThreadBegin, ThreadRun, ThreadRaises, ThreadBill, TAt, ThreadPlaces
<1>3. PICK old \in State : old = Held(t)
  BY <1>2, Running
<1>4. \E st \in State : Becomes(t, st)
  <2>1. CASE ThreadBegin(t)
    <3>1. [old EXCEPT !.status = "processing"] \in State
      BY StatusSet DEF MemoryStatuses, Statuses
    <3> QED
      BY <1>3, <2>1, <3>1 DEF ThreadBegin
  <2>2. CASE ThreadRun(t)
    <3>1. /\ [old EXCEPT !.status = "completed", !.docx = "full"] \in State
          /\ [old EXCEPT !.status = "preview_ready", !.docx = "preview"] \in State
      BY DEF State, AnyState, MemoryStatuses, Statuses, Outputs
    <3> QED
      BY <1>3, <2>2, <3>1 DEF ThreadRun
  <2>3. CASE ThreadRaises(t)
    <3>1. [old EXCEPT !.status = "failed"] \in State
      BY StatusSet DEF MemoryStatuses, Statuses
    <3> QED
      BY <1>3, <2>3, <3>1 DEF ThreadRaises
  <2>4. CASE ThreadBill(t)
    <3>1. PICK cost \in Nat : cost = threads[t].cost
      BY <1>2, Running DEF Thread
    <3>2. [old EXCEPT !.bill = TRUE, !.cost = cost] \in State
      BY DEF State, AnyState
    <3> QED
      BY <1>3, <2>4, <3>1, <3>2 DEF ThreadBill
  <2> QED
    BY <2>1, <2>2, <2>3, <2>4
<1>5. DataOK' /\ Stays
  BY <1>1, <1>2, <1>4, BecomesData
<1>6. \/ \E pc \in ThreadPlaces \ {"publish", "set"} : TGoto(t, pc)
      \/ \E after \in {"row_processing", "settle", "row_preview", "end"} : Publishes(t, after)
  BY DEF ThreadBegin, ThreadRun, ThreadRaises, ThreadBill, ThreadPlaces
<1>7. \E r \in Thread : Translating(r) /\ threads' = [threads EXCEPT ![t] = r]
  BY <1>2, <1>6, GoesOn, PublishesThen
<1> QED
  BY <1>1, <1>2, <1>5, <1>7, ThreadGoes

LEMMA ThreadRowShape ==
  ASSUME Shape, NEW t \in Threads,
         ThreadRowProcessing(t) \/ ThreadRowFailed(t) \/ ThreadRowPreview(t) \/ ThreadRowCompleted(t)
  PROVE  Shape'
<1>1. UNCHANGED <<profiles, previews, redisVars, memory, charges, admitted, scenario>> /\ UNCHANGED <<api, horse>>
  BY DEF ThreadRowProcessing, ThreadRowFailed, ThreadRowPreview, ThreadRowCompleted, ghostVars, countVars
<1>2. threads[t].pc \in ThreadPlaces
  BY DEF ThreadRowProcessing, ThreadRowFailed, ThreadRowPreview, ThreadRowCompleted, TAt, ThreadPlaces
<1>3. RowCost(t) \in Nat /\ Held(t).cost \in Nat
  BY <1>2, RowCostType
<1>4. \E status \in Statuses, output \in Outputs, cost \in Nat : UpdateRow(t, status, output, cost)
  BY <1>3 DEF ThreadRowProcessing, ThreadRowFailed, ThreadRowPreview, ThreadRowCompleted, Statuses, Outputs
<1>5. DataOK' /\ Stays
  BY <1>1, <1>2, <1>4, UpdateRowData
<1>6. \/ \E pc \in ThreadPlaces \ {"publish", "set"} : TGoto(t, pc)
      \/ \E after \in {"row_processing", "settle", "row_preview", "end"} : Publishes(t, after)
  BY DEF ThreadRowProcessing, ThreadRowFailed, ThreadRowPreview, ThreadRowCompleted, ThreadPlaces
<1>7. \E r \in Thread : Translating(r) /\ threads' = [threads EXCEPT ![t] = r]
  BY <1>2, <1>6, GoesOn, PublishesThen
<1> QED
  BY <1>1, <1>2, <1>5, <1>7, ThreadGoes

LEMMA ThreadQuietShape ==
  ASSUME Shape, NEW t \in Threads, ThreadSettleFails(t) \/ ThreadRowFails(t)
  PROVE  Shape'
<1>1. UNCHANGED dataVars /\ UNCHANGED <<api, horse>>
  BY DEF ThreadSettleFails, ThreadRowFails, dataVars, ghostVars, noFault
<1>2. threads[t].pc \in ThreadPlaces
  BY DEF ThreadSettleFails, ThreadRowFails, TAt, ThreadPlaces
<1>3. DataOK' /\ Stays
  BY <1>1, DataSame DEF Shape
<1>4. \/ \E pc \in ThreadPlaces \ {"publish", "set"} : TGoto(t, pc)
      \/ \E after \in {"row_processing", "settle", "row_preview", "end"} : Publishes(t, after)
  BY DEF ThreadSettleFails, ThreadRowFails, ThreadPlaces
<1>5. \E r \in Thread : Translating(r) /\ threads' = [threads EXCEPT ![t] = r]
  BY <1>2, <1>4, GoesOn, PublishesThen
<1> QED
  BY <1>1, <1>2, <1>3, <1>5, ThreadGoes

LEMMA ThreadPublishReadShape ==
  ASSUME Shape, NEW t \in Threads, ThreadPublishRead(t)
  PROVE  Shape'
<1>1. UNCHANGED dataVars /\ UNCHANGED <<api, horse>>
  BY DEF ThreadPublishRead, dataVars, ghostVars, countVars
<1>2. threads[t].pc = "publish" /\ threads[t].pc \in ThreadPlaces
  BY DEF ThreadPublishRead, TAt, ThreadPlaces
<1>3. DataOK' /\ Stays
  BY <1>1, DataSame DEF Shape
<1>4. PICK old \in Thread, st \in State : old = threads[t] /\ Translating(old) /\ st = Held(t)
  BY <1>2, Running
<1>5. PICK r : r = [old EXCEPT !.pc = "set", !.copy = st]
  OBVIOUS
<1>6. r \in Thread /\ Translating(r)
  BY <1>2, <1>4, <1>5, Distinct DEF Thread, Translating, ThreadPlaces
<1>7. threads' = [threads EXCEPT ![t] = r]
  BY <1>4, <1>5 DEF ThreadPublishRead, Shape, ThreadsOK
<1> QED
  BY <1>1, <1>2, <1>3, <1>6, <1>7, ThreadGoes

LEMMA ThreadSetShape ==
  ASSUME Shape, NEW t \in Threads, ThreadPublishSet(t) \/ ThreadPublishFails(t)
  PROVE  Shape'
<1>1. /\ UNCHANGED <<tableVars, rqQueue, quota, memory, charges, admitted, scenario>>
      /\ UNCHANGED <<api, horse>>
  BY DEF ThreadPublishSet, ThreadPublishFails, redisVars, ghostVars, countVars, noFault
<1>2. threads[t].pc = "set" /\ threads[t].pc \in ThreadPlaces
  BY DEF ThreadPublishSet, ThreadPublishFails, TAt, ThreadPlaces
<1>3. PICK old \in Thread : old = threads[t] /\ Translating(old)
  BY <1>2, Running
<1>4. snapshot' \in [JobIds -> State \cup {NoState}]
  BY <1>2, <1>3 DEF ThreadPublishSet, ThreadPublishFails, JobOf, redisVars, Thread, Translating, Shape, DataOK, RedisOK
<1>5. DataOK' /\ Stays
  BY <1>1, <1>4, RedisWritten DEF Shape, DataOK, RedisOK, GhostsOK
<1>6. Ends(t, old.after) /\ old.after # "none"
  BY <1>2, <1>3 DEF ThreadPublishSet, ThreadPublishFails, Translating
<1>7. CASE old.after = "end"
  <2>1. threads' = [threads EXCEPT ![t] = IdleThread] /\ IdleThread \in Thread
    BY <1>6, <1>7, IdleFits DEF Ends, ThreadFits
  <2> QED
    BY <1>1, <1>2, <1>5, <2>1, ThreadGoes
<1>8. CASE old.after # "end"
  <2>1. PICK r : r = [old EXCEPT !.pc = old.after, !.copy = NoState]
    OBVIOUS
  <2>2. r \in Thread /\ Translating(r)
    BY <1>3, <1>6, <1>8, <2>1 DEF Thread, Translating, ThreadPlaces
  <2>3. threads' = [threads EXCEPT ![t] = r]
    BY <1>3, <1>6, <1>8, <2>1 DEF Ends, Shape, ThreadsOK
  <2> QED
    BY <1>1, <1>2, <1>5, <2>2, <2>3, ThreadGoes
<1> QED
  BY <1>7, <1>8

\* A charge leaves rows of the table and counts.
LEMMA ChargeData ==
  ASSUME DataOK, NEW u \in Users, NEW j \in JobIds, NEW words \in Nat, ChargeWords(u, j, words)
  PROVE  profiles' \in [Users -> Profile] /\ charges' \in [JobIds -> Nat]
<1>1. PICK p \in Profile : p = ApplyCharge(RefreshExpiry(profiles[u], 0), Bill(u, words))
  BY BillType DEF DataOK
<1>2. profiles' = [profiles EXCEPT ![u] = p] /\ charges' = [charges EXCEPT ![j] = @ + 1]
  BY <1>1 DEF ChargeWords
<1> QED
  BY <1>2 DEF DataOK, TablesOK, GhostsOK

\* Rows and counts that are written well, where no row is deleted.
LEMMA TablesWritten ==
  ASSUME DataOK, jobs' \in [JobIds -> Row \cup {NoRow}], profiles' \in [Users -> Profile],
         charges' \in [JobIds -> Nat], \A j \in JobIds : jobs[j] # NoRow => jobs'[j] # NoRow,
         UNCHANGED <<previews, redisVars, memory, admitted, scenario>>
  PROVE  DataOK' /\ Stays
BY DEF DataOK, TablesOK, RedisOK, MemoryOK, GhostsOK, Stays, redisVars, State, AnyState

LEMMA ThreadSettleShape ==
  ASSUME Shape, NEW t \in Threads, ThreadSettle(t)
  PROVE  Shape'
<1>1. UNCHANGED <<jobs, previews, redisVars, memory, admitted, scenario>> /\ UNCHANGED <<api, horse>>
  BY DEF ThreadSettle, countVars
<1>2. threads[t].pc = "settle" /\ threads[t].pc \in ThreadPlaces
  BY DEF ThreadSettle, TAt, ThreadPlaces
<1>3. PICK old \in Thread, st \in State : old = threads[t] /\ Translating(old) /\ st = Held(t)
  BY <1>2, Running
<1>4. CASE st.user = Nobody
  <2>1. UNCHANGED <<profiles, charges>> /\ TGoto(t, "row_completed")
    BY <1>3, <1>4 DEF ThreadSettle
  <2>2. DataOK' /\ Stays
    BY <1>1, <2>1, DataSame DEF Shape, dataVars, tableVars
  <2>3. \E r \in Thread : Translating(r) /\ threads' = [threads EXCEPT ![t] = r]
    BY <1>2, <2>1, GoesOn DEF ThreadPlaces
  <2> QED
    BY <1>1, <1>2, <2>2, <2>3, ThreadGoes
<1>5. CASE st.user # Nobody
  <2>1. PICK u \in Users, words \in Nat : u = st.user /\ words = st.doc.words
    BY <1>5, WordsType DEF State, AnyState
  <2>2. PICK cost \in Nat : cost = Bill(u, words).amount_to_pay
    BY BillType DEF Shape, DataOK
  <2>3. ChargeWords(u, old.job, words) /\ threads' = [threads EXCEPT ![t].pc = "bill", ![t].cost = cost]
    BY <1>3, <1>5, <2>1, <2>2 DEF ThreadSettle, JobOf
  <2>4. profiles' \in [Users -> Profile] /\ charges' \in [JobIds -> Nat]
    BY <1>3, <2>3, ChargeData DEF Shape, Translating
  <2>5. DataOK' /\ Stays
    BY <1>1, <2>4, TablesWritten DEF Shape, DataOK, TablesOK
  <2>6. PICK r : r = [old EXCEPT !.pc = "bill", !.cost = cost]
    OBVIOUS
  <2>7. r \in Thread /\ Translating(r)
    BY <1>2, <1>3, <2>6 DEF Thread, Translating, ThreadPlaces
  <2>8. threads' = [threads EXCEPT ![t] = r]
    BY <1>3, <2>3, <2>6 DEF Shape, ThreadsOK
  <2> QED
    BY <1>1, <1>2, <2>5, <2>7, <2>8, ThreadGoes
<1> QED
  BY <1>4, <1>5

LEMMA EnqueueThreadShape ==
  ASSUME Shape, NEW t \in Threads, EnqueueThread(t)
  PROVE  Shape'
<1>1. UNCHANGED <<tableVars, quota, snapshot, memory, charges, admitted, scenario>> /\ UNCHANGED <<api, horse>>
  BY DEF EnqueueThread, ghostVars, noFault
<1>2. threads[t].pc = "enqueue"
  BY DEF EnqueueThread, TAt
<1>3. threads[t].job \in JobIds /\ jobs[threads[t].job] # NoRow
  BY <1>2 DEF Shape, ThreadsOK, ThreadFits, IdleThread, Translating, ThreadPlaces
<1>4. rqQueue' = rqQueue \/ rqQueue' = [rqQueue EXCEPT ![threads[t].job] = @ + 1]
  BY DEF EnqueueThread
<1>5. rqQueue' \in [JobIds -> Nat] /\ \A j \in JobIds : rqQueue'[j] > 0 => jobs[j] # NoRow
  BY <1>3, <1>4 DEF Shape, DataOK, RedisOK
<1>6. DataOK' /\ Stays
  BY <1>1, <1>5, RedisWritten DEF Shape, DataOK, RedisOK, GhostsOK
<1>7. threads' = [threads EXCEPT ![t] = IdleThread]
  BY DEF EnqueueThread
<1>8. ThreadFits(IdleThread)'
  BY <1>6, IdleFits, ThreadStays
<1> QED
  BY <1>1, <1>6, <1>7, <1>8, ThreadMoves

LEMMA TranslateShape ==
  ASSUME Shape, NEW t \in Threads, Translate(t) \/ EnqueueThread(t)
  PROVE  Shape'
BY ThreadStateShape, ThreadRowShape, ThreadQuietShape, ThreadPublishReadShape, ThreadSetShape, ThreadSettleShape,
   EnqueueThreadShape DEF Translate

-----------------------------------------------------------------------------
(* Work horses *)

LEMMA Working ==
  ASSUME Shape, NEW h \in Horses, ~HAt(h, "idle")
  PROVE  /\ horse[h].pc \in HorsePlaces /\ horse[h].job \in JobIds /\ jobs[horse[h].job] \in Row
         /\ horse[h] = [pc |-> horse[h].pc, job |-> horse[h].job]
BY DEF HAt, Shape, HorsesOK, HorseFits, IdleHorse, DataOK, TablesOK

\* A horse over data it has written well, that has more to do or is done.
LEMMA HorseGoes ==
  ASSUME Shape, DataOK', Stays, NEW h \in Horses, ~HAt(h, "idle"), NEW pc \in HorsePlaces, HGoto(h, pc) \/ HDone(h),
         UNCHANGED <<api, threads>>
  PROVE  Shape'
<1>1. CASE HGoto(h, pc)
  <2>1. PICK old : old = horse[h]
    OBVIOUS
  <2>2. /\ old \in [pc : HorsePlaces \cup {"idle"}, job : JobIds \cup {NoJob}]
        /\ old.job \in JobIds /\ jobs[old.job] # NoRow
    BY <2>1, Working, Distinct DEF Shape, HorsesOK, HorseFits
  <2>5. PICK r : r = [old EXCEPT !.pc = pc]
    OBVIOUS
  <2>3. HorseFits(r)
    BY <2>2, <2>5 DEF HorseFits, HorsePlaces
  <2>4. horse' = [horse EXCEPT ![h] = r]
    BY <1>1, <2>1, <2>5 DEF HGoto, Shape, HorsesOK
  <2> QED
    BY <2>3, <2>4, HorseStays, HorseMoves
<1>2. CASE HDone(h)
  BY <1>2, IdleFits, HorseStays, HorseMoves DEF HDone
<1> QED
  BY <1>1, <1>2

LEMMA RqTakeShape ==
  ASSUME Shape, NEW h \in Horses, RqTake(h)
  PROVE  Shape'
<1>1. PICK j \in JobIds : /\ rqQueue[j] > 0 /\ rqQueue' = [rqQueue EXCEPT ![j] = @ - 1]
                          /\ horse' = [horse EXCEPT ![h] = [pc |-> "load", job |-> j]]
  BY DEF RqTake
<1>2. UNCHANGED <<tableVars, quota, snapshot, memory, charges, admitted, scenario>> /\ UNCHANGED <<api, threads>>
  BY DEF RqTake, procVars, ghostVars, countVars
<1>3. jobs[j] # NoRow /\ rqQueue' \in [JobIds -> Nat] /\ \A k \in JobIds : rqQueue'[k] > 0 => jobs[k] # NoRow
  BY <1>1 DEF Shape, DataOK, RedisOK
<1>4. DataOK' /\ Stays
  BY <1>2, <1>3, RedisWritten DEF Shape, DataOK, RedisOK, GhostsOK
<1>5. PICK r : r = [pc |-> "load", job |-> j]
  OBVIOUS
<1>6. HorseFits(r)
  BY <1>3, <1>5 DEF HorseFits, HorsePlaces
<1> QED
  BY <1>1, <1>2, <1>4, <1>5, <1>6, HorseStays, HorseMoves

LEMMA HorseQuietShape ==
  ASSUME Shape, NEW h \in Horses, ProcessLoad(h) \/ ProcessRun(h) \/ ProcessRaises(h) \/ HorseDies(h)
  PROVE  Shape'
<1>1. UNCHANGED dataVars /\ UNCHANGED <<api, threads>>
  BY DEF ProcessLoad, ProcessRun, ProcessRaises, HorseDies, dataVars, procVars, ghostVars, countVars, noFault
<1>2. ~HAt(h, "idle") /\ \E pc \in HorsePlaces : HGoto(h, pc) \/ HDone(h)
  BY DEF ProcessLoad, ProcessRun, ProcessRaises, HorseDies, HAt, HorsePlaces
<1>3. DataOK' /\ Stays
  BY <1>1, DataSame DEF Shape
<1> QED
  BY <1>1, <1>2, <1>3, HorseGoes

LEMMA ProcessMarkShape ==
  ASSUME Shape, NEW h \in Horses, ProcessMark(h)
  PROVE  Shape'
<1>1. UNCHANGED <<profiles, previews, redisVars, memory, charges, admitted, scenario>> /\ UNCHANGED <<api, threads>>
  BY DEF ProcessMark, procVars, ghostVars, countVars
<1>2. ~HAt(h, "idle") /\ HGoto(h, "run") /\ "run" \in HorsePlaces
  BY DEF ProcessMark, HAt, HorsePlaces
<1>3. PICK j \in JobIds, old \in Row : j = horse[h].job /\ old = jobs[j]
  BY <1>2, Working
<1>4. [old EXCEPT !.status = "processing"] \in Row
  BY DEF Row, Statuses
<1>5. jobs' = [jobs EXCEPT ![j] = [old EXCEPT !.status = "processing"]]
  BY <1>3 DEF ProcessMark
<1>6. DataOK' /\ Stays
  BY <1>1, <1>4, <1>5, RowWritten DEF Shape
<1> QED
  BY <1>1, <1>2, <1>6, HorseGoes

LEMMA ProcessCommitShape ==
  ASSUME Shape, NEW h \in Horses, ProcessCommit(h)
  PROVE  Shape'
<1>1. UNCHANGED <<previews, redisVars, memory, admitted, scenario>> /\ UNCHANGED <<api, threads>>
  BY DEF ProcessCommit, CommitUnless, procVars, countVars
<1>2. ~HAt(h, "idle")
  BY DEF ProcessCommit, CommitUnless, HAt
<1>3. PICK j \in JobIds, old \in Row : j = horse[h].job /\ old = jobs[j]
  BY <1>2, Working
<1>4. PICK u \in Users, words \in Nat : u = old.user /\ words = old.hash.words
  BY WordsType DEF Row
<1>5. PICK cost \in Nat : cost = Bill(u, words).amount_to_pay
  BY BillType DEF Shape, DataOK
<1>6. CASE HGoto(h, "except") /\ UNCHANGED <<jobs, profiles, charges>>
  <2>1. DataOK' /\ Stays
    BY <1>1, <1>6, DataSame DEF Shape, dataVars, tableVars
  <2> QED
    BY <1>1, <1>2, <1>6, <2>1, HorseGoes DEF HorsePlaces
<1>7. CASE ~(HGoto(h, "except") /\ UNCHANGED <<jobs, profiles, charges>>)
  <2>1. /\ jobs' = [jobs EXCEPT ![j] = [old EXCEPT !.status = "completed", !.output = "full", !.cost = cost]]
        /\ ChargeWords(u, j, words) /\ HDone(h)
    BY <1>3, <1>4, <1>5, <1>7 DEF ProcessCommit, CommitUnless
  <2>2. profiles' \in [Users -> Profile] /\ charges' \in [JobIds -> Nat]
    BY <2>1, ChargeData DEF Shape
  <2>3. PICK row \in Row : row = [old EXCEPT !.status = "completed", !.output = "full", !.cost = cost]
    BY DEF Row, Statuses, Outputs
  <2>4. jobs' \in [JobIds -> Row \cup {NoRow}] /\ \A k \in JobIds : jobs[k] # NoRow => jobs'[k] # NoRow
    BY <2>1, <2>3, Distinct DEF Shape, DataOK, TablesOK
  <2>5. DataOK' /\ Stays
    BY <1>1, <2>2, <2>4, TablesWritten DEF Shape
  <2> QED
    BY <1>1, <1>2, <2>1, <2>5, HorseGoes DEF HorsePlaces
<1> QED
  BY <1>6, <1>7

LEMMA ProcessExceptShape ==
  ASSUME Shape, NEW h \in Horses, ProcessExcept(h)
  PROVE  Shape'
<1>1. UNCHANGED <<profiles, previews, quota, snapshot, memory, charges, admitted, scenario>> /\ UNCHANGED <<api, threads>>
  BY DEF ProcessExcept, RetryOrFail, procVars, ghostVars, noFault
<1>2. ~HAt(h, "idle") /\ HDone(h)
  BY DEF ProcessExcept, RetryOrFail, HAt
<1>3. PICK j \in JobIds, old \in Row : j = horse[h].job /\ old = jobs[j]
  BY <1>2, Working
<1>4. \E row \in Row : jobs' = [jobs EXCEPT ![j] = row]
  <2>1. CASE old.attempt + 1 < MaxAttempts
    <3>1. old.attempt + 1 \in 0 .. MaxAttempts - 1
      BY <2>1, StoreConstants DEF Row
    <3>2. [old EXCEPT !.status = "pending", !.attempt = @ + 1] \in Row
      BY <3>1 DEF Row, Statuses
    <3>3. PICK row \in Row : row = [old EXCEPT !.status = "pending", !.attempt = @ + 1]
      BY <3>2
    <3>4. jobs' = [jobs EXCEPT ![horse[h].job].status = "pending", ![horse[h].job].attempt = @ + 1]
      BY <1>3, <2>1 DEF ProcessExcept, RetryOrFail
    <3>5. jobs' = [jobs EXCEPT ![j] = row]
      BY <1>3, <3>3, <3>4 DEF Shape, DataOK, TablesOK
    <3> QED
      BY <3>5
  <2>2. CASE ~(old.attempt + 1 < MaxAttempts)
    <3>1. [old EXCEPT !.status = "failed"] \in Row
      BY DEF Row, Statuses
    <3> QED
      BY <1>3, <2>2, <3>1 DEF ProcessExcept, RetryOrFail
  <2> QED
    BY <2>1, <2>2
<1>5. rqQueue' = rqQueue \/ rqQueue' = [rqQueue EXCEPT ![j] = @ + 1]
  BY <1>3 DEF ProcessExcept, RetryOrFail
<1>6. jobs' \in [JobIds -> Row \cup {NoRow}] /\ \A k \in JobIds : jobs[k] # NoRow => jobs'[k] # NoRow
  BY <1>4, Distinct DEF Shape, DataOK, TablesOK
<1>7. rqQueue' \in [JobIds -> Nat] /\ \A k \in JobIds : rqQueue'[k] > 0 => jobs'[k] # NoRow
  <2>1. rqQueue \in [JobIds -> Nat] /\ \A k \in JobIds : rqQueue[k] > 0 => jobs[k] # NoRow
    BY DEF Shape, DataOK, RedisOK
  <2>2. jobs[j] # NoRow
    BY <1>3, Distinct
  <2> QED
    BY <1>5, <1>6, <2>1, <2>2
<1>8. DataOK' /\ Stays
  BY <1>1, <1>6, <1>7 DEF Shape, DataOK, TablesOK, RedisOK, MemoryOK, GhostsOK, Stays, State, AnyState
<1> QED
  BY <1>1, <1>2, <1>8, HorseGoes DEF HorsePlaces

LEMMA ProcessShape ==
  ASSUME Shape, NEW h \in Horses, Process(h)
  PROVE  Shape'
BY RqTakeShape, HorseQuietShape, ProcessMarkShape, ProcessCommitShape, ProcessExceptShape DEF Process

-----------------------------------------------------------------------------
(* Crashes and expiry *)

LEMMA CrashShape ==
  ASSUME Shape, NEW p \in scenario.procs, Crash(p)
  PROVE  Shape'
<1>1. UNCHANGED <<tableVars, redisVars, charges, admitted, scenario>> /\ UNCHANGED horse
  BY DEF Crash, ghostVars
<1>2. memory' = [memory EXCEPT ![p] = [j \in JobIds |-> NoState]]
  BY DEF Crash
<1>3. TablesOK' /\ RedisOK' /\ GhostsOK'
  BY <1>1 DEF Shape, DataOK, TablesOK, RedisOK, GhostsOK, tableVars, redisVars, State, AnyState
<1>4. MemoryOK'
  <2>1. MemoryOK
    BY DEF Shape, DataOK
  <2>2. memory' \in [scenario.procs -> [JobIds -> State \cup {NoState}]]
    BY <1>2, <2>1 DEF MemoryOK
  <2> QED
    BY <1>1, <2>2 DEF MemoryOK, State, AnyState
<1>5. UNCHANGED jobs /\ \A q \in scenario.procs : q # p => memory'[q] = memory[q]
  BY <1>1, <1>2 DEF tableVars, Shape, DataOK, MemoryOK
<1>6. ASSUME NEW r, r.proc # p, RequestFits(r) PROVE RequestFits(r)'
  <2>1. r \in Slot'
    BY <1>1, <1>6 DEF RequestFits, Slot, State, AnyState
  <2>2. Serving(r) => Serving(r)'
    BY <1>1, <1>5, <1>6 DEF Serving
  <2> QED
    BY <1>6, <2>1, <2>2 DEF RequestFits
<1>7. ASSUME NEW r, r.proc # p, ThreadFits(r) PROVE ThreadFits(r)'
  <2>1. r \in Thread'
    BY <1>1, <1>7 DEF ThreadFits, Thread, State, AnyState
  <2>2. Translating(r) => Translating(r)'
    BY <1>1, <1>5, <1>7 DEF Translating
  <2> QED
    BY <1>5, <1>7, <2>1, <2>2 DEF ThreadFits
<1>8. RequestFits(IdleSlot)' /\ ThreadFits(IdleThread)'
  BY DEF RequestFits, IdleSlot, Slot, Places, Kinds, NoRequest, ThreadFits, IdleThread, Thread
<1>9. SlotsOK'
  <2>1. \A s \in Slots : RequestFits(api[s])'
    <3> TAKE s \in Slots
    <3>1. PICK r : r = api[s]
      OBVIOUS
    <3>2. api'[s] = IF r.proc = p THEN IdleSlot ELSE r
      BY <3>1 DEF Crash
    <3>3. RequestFits(r)
      BY <3>1 DEF Shape, SlotsOK
    <3> QED
      BY <1>6, <1>8, <3>2, <3>3
  <2>2. api' \in [Slots -> Slot']
    BY <2>1 DEF Crash, RequestFits
  <2> QED
    BY <2>1, <2>2 DEF SlotsOK
<1>10. ThreadsOK'
  <2>1. \A t \in Threads : ThreadFits(threads[t])'
    <3> TAKE t \in Threads
    <3>1. PICK r : r = threads[t]
      OBVIOUS
    <3>2. threads'[t] = IF r.proc = p THEN IdleThread ELSE r
      BY <3>1 DEF Crash
    <3>3. ThreadFits(r)
      BY <3>1 DEF Shape, ThreadsOK
    <3> QED
      BY <1>7, <1>8, <3>2, <3>3
  <2>2. threads' \in [Threads -> Thread']
    BY <2>1 DEF Crash, ThreadFits
  <2> QED
    BY <2>1, <2>2 DEF ThreadsOK
<1>11. HorsesOK'
  BY <1>1, <1>5 DEF Shape, HorsesOK, HorseFits
<1> QED
  BY <1>3, <1>4, <1>9, <1>10, <1>11 DEF Shape, DataOK

LEMMA ExpiresShape ==
  ASSUME Shape, NEW j \in JobIds, SnapshotExpires(j)
  PROVE  Shape'
<1>1. UNCHANGED <<tableVars, rqQueue, quota, memory, charges, admitted, scenario>> /\ UNCHANGED <<api, threads, horse>>
  BY DEF SnapshotExpires, procVars, ghostVars, noFault
<1>2. snapshot' \in [JobIds -> State \cup {NoState}]
  BY DEF SnapshotExpires, Shape, DataOK, RedisOK
<1>3. DataOK' /\ Stays
  BY <1>1, <1>2, RedisWritten DEF Shape, DataOK, RedisOK, GhostsOK
<1> QED
  BY <1>1, <1>3, SlotsSame, ThreadsSame, HorsesSame DEF Shape

LEMMA ShapeNext == Shape /\ [Next]_vars => Shape'
<1> SUFFICES ASSUME Shape, [Next]_vars PROVE Shape'
  OBVIOUS
<1>1. CASE UNCHANGED vars
  <2>1. DataOK' /\ Stays
    BY <1>1, DataSame DEF Shape, vars, dataVars, procVars, ghostVars, countVars
  <2> QED
    BY <1>1, <2>1, SlotsSame, ThreadsSame, HorsesSame DEF Shape, vars, procVars
<1>2. CASE Next
  BY <1>2, AcceptShape, ServeShape, TranslateShape, ProcessShape, CrashShape, ExpiresShape DEF Next
<1> QED
  BY <1>1, <1>2

\* Jobs: what holds of every row, state, request, thread and work horse.
LEMMA ShapeHolds == Spec => []Shape
BY ShapeInit, ShapeNext, PTL DEF Spec

-----------------------------------------------------------------------------
(* The quota *)

\* The request of s stands as r from now on.
Stands(s, r) == api' = [api EXCEPT ![s] = r]

QuotaSame == UNCHANGED <<quota, admitted, crashed, scenario>>

\* A request that neither takes a place of the quota nor has one.
Apart(s) == /\ \A k \in Slots \ {s} : api'[k] = api[k]
            /\ api[s].pc \notin HoldPlaces /\ api'[s].pc \notin HoldPlaces

LEMMA HeldFinite ==
  ASSUME NEW u
  PROVE  /\ IsFiniteSet(Holding(u)) /\ IsFiniteSet(Granted(u)) /\ Granted(u) \subseteq Holding(u)
         /\ Cardinality(Holding(u)) \in Nat /\ Cardinality(Granted(u)) \in Nat
         /\ Cardinality(Granted(u)) <= Cardinality(Holding(u))
<1>1. Holding(u) \subseteq Slots /\ Granted(u) \subseteq Holding(u)
  BY DEF Holding, Granted, GrantPlaces
<1>2. IsFiniteSet(Slots)
  BY StoreConstants
<1> QED
  BY <1>1, <1>2, FS_Subset, FS_CardinalityType

\* Fewer requests hold a place and fewer were granted one: the place may be lost in a crash.
LEMMA QuotaShrinks ==
  ASSUME Shape, QuotaInv, UNCHANGED <<quota, admitted, scenario>>, crashed => crashed',
         \A u \in Users : Holding(u)' \subseteq Holding(u) /\ Granted(u)' \subseteq Granted(u),
         crashed' \/ \A u \in Users : Holding(u)' = Holding(u)
  PROVE  QuotaInv'
<1> SUFFICES ASSUME NEW u \in Users
             PROVE  /\ admitted'[u] + Cardinality(Granted(u)') <= scenario'.limit
                    /\ quota'[u] >= admitted'[u] + Cardinality(Holding(u)')
                    /\ ~crashed' => quota'[u] = admitted'[u] + Cardinality(Holding(u)')
  BY DEF QuotaInv
<1>1. PICK H, G : H = Holding(u)' /\ G = Granted(u)'
  OBVIOUS
<1>2. PICK H0, G0 : H0 = Holding(u) /\ G0 = Granted(u) /\ IsFiniteSet(H0) /\ IsFiniteSet(G0)
  BY HeldFinite
<1>3. H \subseteq H0 /\ G \subseteq G0 /\ (crashed' \/ H = H0)
  BY <1>1, <1>2
<1>4. /\ Cardinality(H) <= Cardinality(H0) /\ Cardinality(G) <= Cardinality(G0)
      /\ {Cardinality(H), Cardinality(H0), Cardinality(G), Cardinality(G0)} \subseteq Nat
  BY <1>2, <1>3, FS_Subset, FS_CardinalityType
<1>5. quota[u] \in Int /\ admitted[u] \in Nat /\ scenario.limit \in Nat
  BY ScenariosOK DEF Shape, DataOK, RedisOK, GhostsOK
<1>6. /\ admitted[u] + Cardinality(G0) <= scenario.limit /\ quota[u] >= admitted[u] + Cardinality(H0)
      /\ ~crashed => quota[u] = admitted[u] + Cardinality(H0)
  BY <1>2 DEF QuotaInv
<1>7. /\ admitted[u] + Cardinality(G) <= scenario.limit /\ quota[u] >= admitted[u] + Cardinality(H)
      /\ ~crashed' => quota[u] = admitted[u] + Cardinality(H)
  BY <1>3, <1>4, <1>5, <1>6
<1> QED
  BY <1>1, <1>7

LEMMA ApartHolds ==
  ASSUME Shape, NEW s \in Slots, Apart(s), NEW u
  PROVE  Holding(u)' = Holding(u) /\ Granted(u)' = Granted(u)
BY DEF Apart, Holding, Granted, HoldPlaces, GrantPlaces

LEMMA QuotaApart ==
  ASSUME Shape, QuotaInv, QuotaSame, NEW s \in Slots, Apart(s)
  PROVE  QuotaInv'
BY ApartHolds, QuotaShrinks DEF QuotaSame

LEMMA QuotaUntouched ==
  ASSUME Shape, QuotaInv, QuotaSame, UNCHANGED api
  PROVE  QuotaInv'
<1>1. \A u \in Users : Holding(u)' = Holding(u) /\ Granted(u)' = Granted(u)
  BY DEF Holding, Granted
<1> QED
  BY <1>1, QuotaShrinks DEF QuotaSame

\* The ways of a request from place to place.
InPlace(s, pc) == \/ Answer(s) \/ Goto(s, pc)
                  \/ \E st : api' = [api EXCEPT ![s].pc = pc, ![s].copy = st]
                  \/ \E kind : api' = [api EXCEPT ![s].pc = pc, ![s].spawn = kind]
Steps(s, pc) == InPlace(s, pc) \/ \E j : api' = [api EXCEPT ![s].pc = pc, ![s].job = j]

LEMMA StepsApart ==
  ASSUME Shape, NEW s \in Slots, api[s].pc \notin HoldPlaces, NEW pc, pc \notin HoldPlaces, Steps(s, pc)
  PROVE  Apart(s)
<1>1. api \in [Slots -> Slot]
  BY DEF Shape, SlotsOK
<1>2. CASE Answer(s)
  BY <1>1, <1>2 DEF Answer, Apart, IdleSlot, HoldPlaces
<1>3. CASE Goto(s, pc)
  BY <1>1, <1>3 DEF Goto, Apart, Slot
<1>4. ASSUME NEW j, api' = [api EXCEPT ![s].pc = pc, ![s].job = j] PROVE Apart(s)
  BY <1>1, <1>4 DEF Apart, Slot
<1>5. ASSUME NEW st, api' = [api EXCEPT ![s].pc = pc, ![s].copy = st] PROVE Apart(s)
  BY <1>1, <1>5 DEF Apart, Slot
<1>6. ASSUME NEW kind, api' = [api EXCEPT ![s].pc = pc, ![s].spawn = kind] PROVE Apart(s)
  BY <1>1, <1>6 DEF Apart, Slot
<1> QED
  BY <1>2, <1>3, <1>4, <1>5, <1>6 DEF Steps, InPlace

\* How a request of user v comes to hold a place, or gives it up.
LEMMA HoldChanges ==
  ASSUME Shape, NEW s \in Slots, NEW r, Stands(s, r), NEW v, v = api[s].req.user,
         r.pc \in HoldPlaces => r.req.user = v
  PROVE  /\ \A u : u # v => Holding(u)' = Holding(u) /\ Granted(u)' = Granted(u)
         /\ Holding(v)' = IF r.pc \in HoldPlaces THEN Holding(v) \cup {s} ELSE Holding(v) \ {s}
         /\ Granted(v)' = IF r.pc \in GrantPlaces THEN Granted(v) \cup {s} ELSE Granted(v) \ {s}
         /\ s \in Holding(v) <=> api[s].pc \in HoldPlaces
         /\ s \in Granted(v) <=> api[s].pc \in GrantPlaces
<1>1. \A k \in Slots : api'[k] = IF k = s THEN r ELSE api[k]
  BY DEF Stands, Shape, SlotsOK
<1>2. r.pc \in GrantPlaces => r.pc \in HoldPlaces
  BY DEF GrantPlaces, HoldPlaces
<1> QED
  BY <1>1, <1>2 DEF Holding, Granted, HoldPlaces

LEMMA HoldTaken ==
  ASSUME Shape, NEW s \in Slots, NEW r, Stands(s, r), NEW v, v = api[s].req.user, r.req = api[s].req,
         r.pc \in HoldPlaces, api[s].pc \notin HoldPlaces
  PROVE  /\ \A u : u # v => Holding(u)' = Holding(u) /\ Granted(u)' = Granted(u)
         /\ Holding(v)' = Holding(v) \cup {s} /\ s \notin Holding(v) /\ s \notin Granted(v)
         /\ Granted(v)' = IF r.pc \in GrantPlaces THEN Granted(v) \cup {s} ELSE Granted(v) \ {s}
<1>1. r.req.user = v /\ api[s].pc \notin GrantPlaces
  BY DEF HoldPlaces, GrantPlaces
<1>2. \A k \in Slots : api'[k] = IF k = s THEN r ELSE api[k]
  BY DEF Stands, Shape, SlotsOK
<1> QED
  BY <1>1, <1>2 DEF Holding, Granted, HoldPlaces, GrantPlaces

\* The numbers behind the quota of a user.
Numbers(q, a, h, g) == /\ q \in Int /\ a \in Nat /\ h \in Nat /\ g \in Nat /\ g <= h
                       /\ a + g <= scenario.limit /\ q >= a + h /\ (~crashed => q = a + h)

LEMMA QuotaNumbers ==
  ASSUME Shape, QuotaInv, NEW u \in Users
  PROVE  Numbers(quota[u], admitted[u], Cardinality(Holding(u)), Cardinality(Granted(u)))
BY HeldFinite DEF Shape, DataOK, RedisOK, GhostsOK, QuotaInv, Numbers

\* It is enough to look at the user whose request moved.
LEMMA QuotaMoves ==
  ASSUME Shape, QuotaInv, NEW v \in Users, NEW q, NEW a, UNCHANGED <<crashed, scenario>>,
         quota' = [quota EXCEPT ![v] = q], admitted' = [admitted EXCEPT ![v] = a],
         \A u : u # v => Holding(u)' = Holding(u) /\ Granted(u)' = Granted(u),
         Numbers(q, a, Cardinality(Holding(v))', Cardinality(Granted(v))')
  PROVE  QuotaInv'
<1> SUFFICES ASSUME NEW u \in Users
             PROVE  /\ admitted'[u] + Cardinality(Granted(u)') <= scenario'.limit
                    /\ quota'[u] >= admitted'[u] + Cardinality(Holding(u)')
                    /\ ~crashed' => quota'[u] = admitted'[u] + Cardinality(Holding(u)')
  BY DEF QuotaInv
<1>1. CASE u = v
  BY <1>1 DEF Numbers, Shape, DataOK, RedisOK, GhostsOK
<1>2. CASE u # v
  BY <1>2 DEF QuotaInv, Shape, DataOK, RedisOK, GhostsOK
<1> QED
  BY <1>1, <1>2

LEMMA GotoStands ==
  ASSUME Shape, NEW s \in Slots, NEW pc, Goto(s, pc) \/ Answer(s)
  PROVE  \E r : /\ Stands(s, r)
                /\ \/ Goto(s, pc) /\ r.pc = pc /\ r.req = api[s].req
                   \/ Answer(s) /\ r = IdleSlot
<1>1. PICK q : q = api[s] /\ q \in Slot
  BY DEF Shape, SlotsOK
<1>2. PICK r : r = [q EXCEPT !.pc = pc]
  OBVIOUS
<1>3. r.pc = pc /\ r.req = q.req
  BY <1>1, <1>2 DEF Slot
<1> QED
  BY <1>1, <1>2, <1>3, GotoIs, AnswerIs, ZenonT(60) DEF Stands

\* A place is taken; whether it was below the limit is looked at after the count.
LEMMA ReserveQuota ==
  ASSUME Shape, QuotaInv, NEW s \in Slots, UploadQuota(s) \/ PayQuota(s)
  PROVE  QuotaInv'
<1>1. api[s].pc \in {"u_quota", "pay_quota"} /\ ~At(s, "idle") /\ UNCHANGED <<admitted, crashed, scenario>>
  BY DEF UploadQuota, PayQuota, At, ghostVars, countVars
<1>2. PICK v \in Users : v = api[s].req.user
  BY <1>1, Served DEF Serving, Serves, RowPlaces, PayPlaces, RequestOK
<1>3. quota' = [quota EXCEPT ![v] = @ + 1]
  BY <1>2 DEF UploadQuota, PayQuota, Reserve
<1>4. PICK granted \in GrantPlaces, refused \in HoldPlaces \ GrantPlaces :
         Goto(s, IF quota'[v] > scenario.limit THEN refused ELSE granted)
  BY <1>2 DEF UploadQuota, PayQuota, Reserve, GrantPlaces, HoldPlaces
<1>5. PICK pc : pc = IF quota'[v] > scenario.limit THEN refused ELSE granted
  OBVIOUS
<1>6. PICK r : Stands(s, r) /\ r.pc \in {pc, "idle"} /\ (r.pc # "idle" => r.pc = pc /\ r.req = api[s].req)
               /\ Goto(s, pc)
  BY <1>4, <1>5, GotoStands DEF IdleSlot
<1>7. r.pc = pc
  <2>1. api'[s].pc = pc
    BY <1>6 DEF Goto, Shape, SlotsOK, Slot
  <2> QED
    BY <1>6, <2>1 DEF Stands, Shape, SlotsOK
<1>8. pc # "idle" /\ pc \in HoldPlaces /\ (pc \in GrantPlaces <=> ~(quota'[v] > scenario.limit))
  BY <1>4, <1>5 DEF GrantPlaces, HoldPlaces
<1>9. PICK H, G : H = Holding(v) /\ G = Granted(v) /\ IsFiniteSet(H) /\ IsFiniteSet(G)
  BY HeldFinite
<1>10. r.pc \in HoldPlaces /\ api[s].pc \notin HoldPlaces /\ r.req = api[s].req
  BY <1>1, <1>6, <1>7, <1>8 DEF HoldPlaces
<1>a. /\ \A u : u # v => Holding(u)' = Holding(u) /\ Granted(u)' = Granted(u)
      /\ Holding(v)' = H \cup {s} /\ Granted(v)' = IF pc \in GrantPlaces THEN G \cup {s} ELSE G \ {s}
      /\ s \notin H /\ s \notin G
  <2>1. Stands(s, r) /\ v = api[s].req.user
    BY <1>2, <1>6
  <2> QED
    BY <1>7, <1>9, <1>10, <2>1, HoldTaken, ZenonT(60)
<1>11. Cardinality(H \cup {s}) = Cardinality(H) + 1 /\ Cardinality(G \cup {s}) = Cardinality(G) + 1 /\ G \ {s} = G
  BY <1>9, <1>a, FS_AddElement, ZenonT(60)
<1>12. Numbers(quota[v], admitted[v], Cardinality(H), Cardinality(G))
  BY <1>9, QuotaNumbers
<1>13. quota'[v] = quota[v] + 1 /\ quota[v] \in Int
  BY <1>3 DEF Shape, DataOK, RedisOK
<1>14. Numbers(quota[v] + 1, admitted[v], Cardinality(H) + 1, Cardinality(IF pc \in GrantPlaces THEN G \cup {s} ELSE G \ {s}))
  <2>1. scenario.limit \in Nat
    BY ScenariosOK DEF Shape, DataOK, GhostsOK
  <2>2. pc \in GrantPlaces => quota[v] + 1 <= scenario.limit
    BY <1>8, <1>13, <2>1
  <2>3. CASE pc \in GrantPlaces
    BY <1>11, <1>12, <2>1, <2>2, <2>3 DEF Numbers
  <2>4. CASE pc \notin GrantPlaces
    BY <1>11, <1>12, <2>1, <2>4 DEF Numbers
  <2> QED
    BY <2>3, <2>4
<1>15. Numbers(quota[v] + 1, admitted[v], Cardinality(Holding(v))', Cardinality(Granted(v))')
  BY <1>a, <1>11, <1>14
<1>16. quota' = [quota EXCEPT ![v] = quota[v] + 1] /\ admitted' = [admitted EXCEPT ![v] = admitted[v]]
  BY <1>1, <1>3 DEF Shape, DataOK, GhostsOK
<1> QED
  BY <1>1, <1>a, <1>15, <1>16, QuotaMoves

\* A request gives up what it holds, and may count as admitted if it was granted a place.
LEMMA LeaveQuota ==
  ASSUME Shape, QuotaInv, NEW s \in Slots, NEW r, Stands(s, r), api[s].pc \in HoldPlaces, r.pc \notin HoldPlaces,
         UNCHANGED <<crashed, scenario>>, NEW v \in Users, v = api[s].req.user,
         \/ quota' = [quota EXCEPT ![v] = @ - 1] /\ UNCHANGED admitted
         \/ UNCHANGED quota /\ admitted' = [admitted EXCEPT ![v] = @ + 1] /\ api[s].pc \in GrantPlaces
  PROVE  QuotaInv'
<1>1. PICK H, G : H = Holding(v) /\ G = Granted(v) /\ IsFiniteSet(H) /\ IsFiniteSet(G)
  BY HeldFinite
<1>2. r.pc \notin GrantPlaces
  BY DEF GrantPlaces, HoldPlaces
<1>3. /\ \A u : u # v => Holding(u)' = Holding(u) /\ Granted(u)' = Granted(u)
      /\ Holding(v)' = H \ {s} /\ Granted(v)' = G \ {s}
      /\ s \in H /\ (s \in G <=> api[s].pc \in GrantPlaces)
  BY <1>1, <1>2, HoldChanges
<1>4. /\ Cardinality(H \ {s}) = Cardinality(H) - 1
      /\ Cardinality(G \ {s}) = IF s \in G THEN Cardinality(G) - 1 ELSE Cardinality(G)
      /\ IsFiniteSet(H \ {s}) /\ Cardinality(H \ {s}) \in Nat /\ Cardinality(G \ {s}) \in Nat
      /\ Cardinality(G \ {s}) <= Cardinality(H \ {s})
  <2>1. IsFiniteSet(H \ {s}) /\ IsFiniteSet(G \ {s}) /\ G \ {s} \subseteq H \ {s}
    <3>1. G \subseteq H
      BY <1>1, HeldFinite
    <3> QED
      BY <1>1, <3>1, FS_Subset
  <2>2. s \notin G => G \ {s} = G
    OBVIOUS
  <2> QED
    BY <1>1, <1>3, <2>1, <2>2, FS_RemoveElement, FS_CardinalityType, FS_Subset
<1>5. Numbers(quota[v], admitted[v], Cardinality(H), Cardinality(G))
  BY <1>1, QuotaNumbers
<1>6. PICK q, a : /\ quota' = [quota EXCEPT ![v] = q] /\ admitted' = [admitted EXCEPT ![v] = a]
                  /\ \/ q = quota[v] - 1 /\ a = admitted[v]
                     \/ q = quota[v] /\ a = admitted[v] + 1 /\ s \in G
  BY <1>3, ZenonT(60) DEF Shape, DataOK, RedisOK, GhostsOK
<1>7. Numbers(q, a, Cardinality(H \ {s}), Cardinality(G \ {s}))
  <2>1. scenario.limit \in Nat
    BY ScenariosOK DEF Shape, DataOK, GhostsOK
  <2> QED
    BY <1>4, <1>5, <1>6, <2>1 DEF Numbers
<1>8. Numbers(q, a, Cardinality(Holding(v))', Cardinality(Granted(v))')
  BY <1>3, <1>7
<1> QED
  BY <1>3, <1>6, <1>8, QuotaMoves

LEMMA ReleaseQuota ==
  ASSUME Shape, QuotaInv, NEW s \in Slots,
         UploadRefused(s) \/ UploadRelease(s) \/ PayRefused(s) \/ UploadEnqueue(s) \/ PayDispatch(s)
  PROVE  QuotaInv'
<1>1. api[s].pc \in HoldPlaces /\ ~At(s, "idle") /\ UNCHANGED <<crashed, scenario>>
  BY DEF UploadRefused, UploadRelease, PayRefused, UploadEnqueue, PayDispatch, At, HoldPlaces, countVars
<1>2. PICK v \in Users : v = api[s].req.user
  BY <1>1, Served DEF Serving, Serves, RowPlaces, PayPlaces, HoldPlaces, RequestOK
<1>3. PICK pc \in {"u_fail", "restore"} : Goto(s, pc) \/ Answer(s)
  BY DEF UploadRefused, UploadRelease, PayRefused, UploadEnqueue, PayDispatch
<1>4. PICK r : Stands(s, r) /\ r.pc \notin HoldPlaces
  BY <1>3, GotoStands DEF IdleSlot, HoldPlaces
<1>5. \/ quota' = [quota EXCEPT ![v] = @ - 1] /\ UNCHANGED admitted
      \/ UNCHANGED quota /\ admitted' = [admitted EXCEPT ![v] = @ + 1] /\ api[s].pc \in GrantPlaces
  BY <1>2 DEF UploadRefused, UploadRelease, PayRefused, UploadEnqueue, PayDispatch, Release, Of, At, GrantPlaces,
              ghostVars, redisVars
<1> QED
  BY <1>1, <1>2, <1>4, <1>5, LeaveQuota

LEMMA RaisesQuota ==
  ASSUME Shape, QuotaInv, NEW s \in Slots, UploadEnqueueRaises(s)
  PROVE  QuotaInv'
<1>1. api[s].pc = "u_enqueue" /\ Goto(s, "u_release") /\ UNCHANGED <<quota, admitted, crashed, scenario>>
  BY DEF UploadEnqueueRaises, At, ghostVars
<1>2. api[s] \in Slot
  BY DEF Shape, SlotsOK
<1>3. \A k \in Slots : api'[k] = IF k = s THEN [api[s] EXCEPT !.pc = "u_release"] ELSE api[k]
  BY <1>1 DEF Goto, Shape, SlotsOK
<1>4. \A u \in Users : Holding(u)' = Holding(u) /\ Granted(u)' \subseteq Granted(u)
  BY <1>1, <1>2, <1>3 DEF Holding, Granted, GrantPlaces, Slot
<1> QED
  BY <1>1, <1>4, QuotaShrinks

\* A request takes its place among the others before it asks for one of the quota.
LEMMA AcceptQuota ==
  ASSUME Shape, QuotaInv, NEW s \in Slots, Accept(s)
  PROVE  QuotaInv'
<1>1. PICK pc \in {"u_check", "upload", "restore", "credit"} : \E r, j : Begin(s, r, pc, j)
  <2> DEFINE Starts(pc) == \E r, j : Begin(s, r, pc, j)
  <2>1. EnqueueTranslate(s) => Starts("u_check")
    BY DEF EnqueueTranslate
  <2>2. Upload(s) => Starts("upload")
    BY DEF Upload
  <2>3. AskMilestone(s) => Starts("restore")
    BY DEF AskMilestone
  <2>4. Pay(s) => Starts("credit")
    BY DEF Pay
  <2> HIDE DEF Starts
  <2>5. \E pc \in {"u_check", "upload", "restore", "credit"} : Starts(pc)
    BY <2>1, <2>2, <2>3, <2>4 DEF Accept
  <2> QED
    BY <2>5 DEF Starts
<1>2. PICK r, j, p : api' = [api EXCEPT ![s] = [IdleSlot EXCEPT !.pc = pc, !.req = r, !.proc = p, !.job = j]]
  BY <1>1 DEF Begin
<1>3. api \in [Slots -> Slot] /\ api[s].pc = "idle" /\ QuotaSame
  BY <1>1 DEF Begin, At, Shape, SlotsOK, QuotaSame, redisVars, ghostVars
<1>4. Apart(s)
  BY <1>2, <1>3 DEF Apart, IdleSlot, HoldPlaces
<1> QED
  BY <1>3, <1>4, QuotaApart

\* The steps of an upload, and of a request of the dashboard or a payment, that leave the quota alone.
UploadStep(s) == \/ UploadCheck(s) \/ UploadDuplicate(s) \/ UploadCapacity(s) \/ UploadFind(s)
                 \/ UploadInsert(s) \/ UploadReset(s) \/ UploadFail(s)
OtherStep(s)  == Dashboard(s) \/ PayCredit(s) \/ PayLoad(s) \/ PayCommit(s) \/ PayMilestone(s)

UploadNext == {"u_dup", "u_capacity", "u_find", "u_insert", "u_reset", "u_quota"}
OtherNext  == Ops \cup {"pay", "publish", "counted", "bill", "await", "queue", "p_quota", "p_queue", "sync", "write",
                        "set", "spawn", "activate", "pending", "pay_quota"}

LEMMA UploadSteps ==
  ASSUME NEW s \in Slots, UploadStep(s)
  PROVE  /\ \E pc \in UploadNext : Steps(s, pc)
         /\ UploadFind(s) \/ \E pc \in UploadNext : InPlace(s, pc)
<1>1. CASE UploadFind(s)
  BY <1>1 DEF UploadFind, Steps, UploadNext
<1>2. CASE ~UploadFind(s)
  BY <1>2 DEF UploadStep, UploadNext, Steps, InPlace, UploadCheck, UploadDuplicate, UploadCapacity, UploadInsert,
              UploadReset, UploadFail, Stored
<1> QED
  BY <1>1, <1>2

\* Only what starts a translation goes to the row, where what was read is written.
Commit(s) == Start(s) \/ ConfirmAwait(s) \/ ConfirmQueue(s) \/ PreviewQueue(s)
LeadsTo(s, pc) == InPlace(s, pc) /\ (pc = "sync" => Commit(s)) /\ (pc = "write" => SyncRead(s))

LEMMA OtherSteps ==
  ASSUME Shape, NEW s \in Slots, OtherStep(s)
  PROVE  \E pc \in OtherNext : LeadsTo(s, pc)
<1>1. CASE Restore(s)
  <2>1. api[s].req.op \in Ops \cup {"pay"} /\ Goto(s, api[s].req.op)
    BY <1>1, Served DEF Restore, At, Of, Serving, Serves
  <2>2. PICK pc : pc = api[s].req.op
    OBVIOUS
  <2>3. pc \in OtherNext /\ pc \notin {"sync", "write"}
    BY <2>1, <2>2 DEF OtherNext, Ops
  <2> QED
    BY <2>1, <2>2, <2>3 DEF InPlace, LeadsTo
<1>2. CASE StoreUpload(s) \/ EstimateCheck(s) \/ EstimateStore(s) \/ ConfirmCheck(s) \/ ConfirmBill(s)
  BY <1>2 DEF StoreUpload, EstimateCheck, EstimateStore, ConfirmCheck, ConfirmBill, InPlace, LeadsTo, OtherNext
<1>3. CASE Start(s) \/ ConfirmAwait(s) \/ ConfirmQueue(s) \/ PreviewQueue(s)
  <2>1. Answer(s) \/ Commits(s, "full") \/ Commits(s, "none") \/ Commits(s, "preview")
    BY <1>3 DEF Start, ConfirmAwait, ConfirmQueue, PreviewQueue
  <2>2. CASE Answer(s)
    BY <2>2 DEF InPlace, LeadsTo, OtherNext
  <2>3. CASE ~Answer(s)
    <3>1. PICK pc \in {"sync", "publish"}, kind \in {"full", "none", "preview"} :
            api' = [api EXCEPT ![s].pc = pc, ![s].spawn = kind]
      BY <2>1, <2>3 DEF Commits
    <3>2. LeadsTo(s, pc) /\ pc \in OtherNext
      BY <1>3, <3>1 DEF InPlace, LeadsTo, Commit, OtherNext
    <3> QED
      BY <3>2
  <2> QED
    BY <2>2, <2>3
<1>4. CASE PreviewCheck(s) \/ PreviewQuota(s) \/ Poll(s) \/ SyncWrite(s) \/ PublishSet(s) \/ SpawnThread(s)
  BY <1>4 DEF PreviewCheck, PreviewQuota, Poll, SyncWrite, PublishSet, SpawnThread, InPlace, LeadsTo, OtherNext
<1>5. CASE SyncRead(s) \/ PublishRead(s)
  <2>1. PICK pc \in {"write", "set"}, st \in {Mine(s)} :
          api' = [api EXCEPT ![s].pc = pc, ![s].copy = st] /\ (pc = "write" => SyncRead(s))
    BY <1>5 DEF SyncRead, PublishRead
  <2>2. LeadsTo(s, pc) /\ pc \in OtherNext
    BY <2>1 DEF InPlace, LeadsTo, OtherNext
  <2> QED
    BY <2>2
<1>6. CASE PayCredit(s) \/ PayLoad(s) \/ PayCommit(s)
  BY <1>6 DEF PayCredit, PayLoad, PayCommit, InPlace, LeadsTo, OtherNext
<1>7. CASE PayMilestone(s)
  BY <1>7 DEF PayMilestone, ActivateMilestone, InPlace, LeadsTo, OtherNext
<1> QED
  BY <1>1, <1>2, <1>3, <1>4, <1>5, <1>6, <1>7 DEF OtherStep, Dashboard

LEMMA UploadKeepsQuota ==
  ASSUME Shape, QuotaInv, NEW s \in Slots, UploadStep(s)
  PROVE  QuotaInv'
<1>1. QuotaSame
  BY DEF UploadStep, QuotaSame, UploadCheck, UploadDuplicate, UploadCapacity, UploadFind, UploadInsert, UploadReset,
         UploadFail, redisVars, ghostVars, countVars
<1>2. api[s].pc \in {"u_check", "u_dup", "u_capacity", "u_find", "u_insert", "u_reset", "u_fail"}
  BY DEF UploadStep, UploadCheck, UploadDuplicate, UploadCapacity, UploadFind, UploadInsert, UploadReset, UploadFail, At
<1>3. Apart(s)
  BY <1>2, UploadSteps, StepsApart DEF HoldPlaces, UploadNext
<1> QED
  BY <1>1, <1>3, QuotaApart

LEMMA OtherKeepsQuota ==
  ASSUME Shape, QuotaInv, NEW s \in Slots, OtherStep(s)
  PROVE  QuotaInv'
<1>1. QuotaSame
  <2>1. CASE Dashboard(s)
    BY <2>1 DEF Dashboard, QuotaSame, StoreUpload, Restore, EstimateCheck, EstimateStore, Start, ConfirmCheck,
                ConfirmBill, ConfirmAwait, ConfirmQueue, PreviewCheck, PreviewQuota, PreviewQueue, Poll, SyncRead,
                SyncWrite, PublishRead, PublishSet, SpawnThread, redisVars, ghostVars, countVars
  <2>2. CASE ~Dashboard(s)
    BY <2>2 DEF OtherStep, PayCredit, PayLoad, PayCommit, PayMilestone, ActivateMilestone, QuotaSame, redisVars, ghostVars,
                countVars
  <2> QED
    BY <2>1, <2>2
<1>2. api[s].pc \in Ops \cup {"upload", "restore", "counted", "bill", "await", "queue", "p_quota", "p_queue", "sync",
                              "write", "publish", "set", "spawn", "credit", "activate", "pending", "pay"}
  BY DEF OtherStep, Dashboard, StoreUpload, Restore, EstimateCheck, EstimateStore, Start, ConfirmCheck, ConfirmBill, ConfirmAwait,
         ConfirmQueue, PreviewCheck, PreviewQuota, PreviewQueue, Poll, SyncRead, SyncWrite, PublishRead, PublishSet,
         SpawnThread, PayCredit, PayLoad, PayCommit, PayMilestone, ActivateMilestone, At, Ops
<1>3. Apart(s)
  BY <1>2, OtherSteps, StepsApart DEF LeadsTo, Steps, HoldPlaces, OtherNext, Ops
<1> QED
  BY <1>1, <1>3, QuotaApart

LEMMA ServeQuota ==
  ASSUME Shape, QuotaInv, NEW s \in Slots, Serve(s)
  PROVE  QuotaInv'
<1>1. CASE Admit(s)
  BY <1>1, UploadKeepsQuota, ReserveQuota, ReleaseQuota, RaisesQuota DEF Admit, UploadStep
<1> QED
  BY <1>1, OtherKeepsQuota, ReserveQuota, ReleaseQuota DEF Serve, OtherStep

\* Threads and work horses know nothing of the quota.
LEMMA OthersKeepQuota ==
  ASSUME Shape, QuotaInv,
         \/ \E t \in Threads : Translate(t) \/ EnqueueThread(t)
         \/ \E h \in Horses : Process(h)
         \/ \E j \in JobIds : SnapshotExpires(j)
  PROVE  QuotaInv'
<1>1. CASE \E t \in Threads : Translate(t) \/ EnqueueThread(t)
  <2>1. QuotaSame /\ UNCHANGED api
    BY <1>1 DEF Translate, EnqueueThread, ThreadBegin, ThreadPublishRead, ThreadPublishSet, ThreadPublishFails,
       ThreadRowProcessing, ThreadRun, ThreadRaises, ThreadRowFailed, ThreadRowPreview, ThreadSettle, ThreadSettleFails,
       ThreadBill, ThreadRowCompleted, ThreadRowFails, QuotaSame, redisVars, ghostVars, countVars, noFault
  <2> QED
    BY <2>1, QuotaUntouched
<1>2. CASE \E h \in Horses : Process(h)
  <2>1. QuotaSame /\ UNCHANGED api
    BY <1>2 DEF Process, RqTake, ProcessLoad, ProcessMark, ProcessRun, ProcessRaises, ProcessCommit, CommitUnless,
       ProcessExcept, RetryOrFail, HorseDies, QuotaSame, redisVars, ghostVars, countVars, noFault
  <2> QED
    BY <2>1, QuotaUntouched
<1>3. CASE \E j \in JobIds : SnapshotExpires(j)
  <2>1. QuotaSame /\ UNCHANGED api
    BY <1>3 DEF SnapshotExpires, QuotaSame, ghostVars, noFault
  <2> QED
    BY <2>1, QuotaUntouched
<1> QED
  BY <1>1, <1>2, <1>3

\* The places of a process that dies are lost: from then on the counter may be too high.
LEMMA CrashQuota ==
  ASSUME Shape, QuotaInv, NEW p \in scenario.procs, Crash(p)
  PROVE  QuotaInv'
<1>1. crashed' /\ UNCHANGED <<quota, admitted, scenario>>
  BY DEF Crash, redisVars, ghostVars
<1>2. \A s \in Slots : api'[s] = api[s] \/ api'[s] = IdleSlot
  BY DEF Crash
<1>3. \A u \in Users : \A s \in Slots : (s \in Holding(u)' => s \in Holding(u)) /\ (s \in Granted(u)' => s \in Granted(u))
  BY <1>2 DEF Holding, Granted, GrantPlaces, IdleSlot
<1>4. \A u \in Users : Holding(u)' \subseteq Holding(u) /\ Granted(u)' \subseteq Granted(u)
  <2>1. \A u : Holding(u)' \subseteq Slots /\ Granted(u)' \subseteq Slots
    BY DEF Holding, Granted
  <2> QED
    BY <1>3, <2>1
<1> QED
  BY <1>1, <1>4, QuotaShrinks

LEMMA QuotaInit == Init => QuotaInv
<1> SUFFICES ASSUME Init PROVE QuotaInv
  OBVIOUS
<1>1. ASSUME NEW u \in Users PROVE Holding(u) = {} /\ Granted(u) = {}
  BY DEF Init, Holding, Granted, GrantPlaces, IdleSlot
<1>2. scenario.limit \in Nat /\ \A u \in Users : admitted[u] = 0 /\ quota[u] = 0
  BY ScenariosOK DEF Init
<1>3. ASSUME NEW u \in Users PROVE Cardinality(Holding(u)) = 0 /\ Cardinality(Granted(u)) = 0
  BY <1>1, FS_EmptySet
<1> QED
  BY <1>2, <1>3 DEF QuotaInv

LEMMA QuotaNext == Shape /\ QuotaInv /\ [Next]_vars => QuotaInv'
<1> SUFFICES ASSUME Shape, QuotaInv, [Next]_vars PROVE QuotaInv'
  OBVIOUS
<1>1. CASE UNCHANGED vars
  BY <1>1, QuotaUntouched DEF vars, redisVars, ghostVars, countVars, QuotaSame
<1>2. CASE Next
  BY <1>2, AcceptQuota, ServeQuota, OthersKeepQuota, CrashQuota DEF Next
<1> QED
  BY <1>1, <1>2

\* The day's quota holds however many requests count themselves before they look at the
\* limit, and whichever of them die on the way: the limit is never passed, and without a
\* crash the counter is what was let in and who still holds a place.
THEOREM QuotaIsKept == Spec => []QuotaHolds
<1>1. ASSUME Shape, QuotaInv PROVE QuotaHolds
  <2> SUFFICES ASSUME NEW u \in Users
               PROVE  /\ admitted[u] <= scenario.limit
                      /\ quota[u] >= admitted[u] + Cardinality(Holding(u))
                      /\ ~crashed => quota[u] = admitted[u] + Cardinality(Holding(u))
    BY DEF QuotaHolds
  <2> QED
    BY <1>1, QuotaNumbers, ScenariosOK DEF Numbers, Shape, DataOK, GhostsOK
<1> QED
  BY <1>1, QuotaInit, QuotaNext, ShapeHolds, PTL DEF Spec

\* Every column, key and counter has its type.
THEOREM JobsTyped == Spec => []TypeOK
<1>1. ASSUME Shape, QuotaInv PROVE TypeOK
  <2>1. \A j \in JobIds : jobs[j] # NoRow => jobs[j] \in Row
    BY <1>1 DEF Shape, DataOK, TablesOK
  <2>2. \A p \in scenario.procs : \A j \in JobIds : memory[p][j] # NoState => memory[p][j] \in State
    BY <1>1 DEF Shape, DataOK, MemoryOK
  <2>3. \A u \in Users : quota[u] \in Nat /\ previews[u] \in Nat /\ admitted[u] \in Nat /\ profiles[u] \in Profile
    <3> TAKE u \in Users
    <3>1. quota[u] \in Nat
      BY <1>1, QuotaNumbers DEF Numbers
    <3> QED
      BY <1>1, <3>1 DEF Shape, DataOK, TablesOK, GhostsOK
  <2>4. \A j \in JobIds : rqQueue[j] \in Nat /\ charges[j] \in Nat
    BY <1>1 DEF Shape, DataOK, RedisOK, GhostsOK
  <2> QED
    BY <2>1, <2>2, <2>3, <2>4 DEF TypeOK, Row, Outputs, State, AnyState, MemoryStatuses, Profile
<1> QED
  BY <1>1, QuotaInit, QuotaNext, ShapeHolds, PTL DEF Spec

-----------------------------------------------------------------------------
(* One request at a time *)

\* A request is answered, or goes on with what it was asked; only with its last step it
\* starts a thread.  Only an upload comes by another job on its way.
Advances(s) ==
  /\ ~At(s, "idle") /\ \A k \in Slots \ {s} : api'[k] = api[k]
  /\ \/ api'[s] = IdleSlot
     \/ /\ api'[s].req = api[s].req /\ api'[s].proc = api[s].proc
        /\ api[s].req.op # "translate" => api'[s].job = api[s].job
        /\ UNCHANGED threads

LEMMA InPlaceAdvances ==
  ASSUME Shape, NEW s \in Slots, ~At(s, "idle"), NEW pc, InPlace(s, pc), Answer(s) \/ UNCHANGED threads
  PROVE  Advances(s)
<1>1. api \in [Slots -> Slot]
  BY DEF Shape, SlotsOK
<1>2. CASE Answer(s)
  BY <1>1, <1>2 DEF Answer, Advances
<1>3. CASE Goto(s, pc) /\ ~Answer(s)
  BY <1>1, <1>3 DEF Goto, Advances, Slot
<1>4. ASSUME NEW st, api' = [api EXCEPT ![s].pc = pc, ![s].copy = st], ~Answer(s) PROVE Advances(s)
  BY <1>1, <1>4 DEF Advances, Slot
<1>5. ASSUME NEW kind, api' = [api EXCEPT ![s].pc = pc, ![s].spawn = kind], ~Answer(s) PROVE Advances(s)
  BY <1>1, <1>5 DEF Advances, Slot
<1> QED
  BY <1>2, <1>3, <1>4, <1>5 DEF InPlace

LEMMA UploadAdvances ==
  ASSUME Shape, NEW s \in Slots, UploadStep(s)
  PROVE  Advances(s) /\ raced' = raced
<1>1. ~At(s, "idle") /\ UNCHANGED threads /\ raced' = raced
  BY DEF UploadStep, UploadCheck, UploadDuplicate, UploadCapacity, UploadFind, UploadInsert, UploadReset, UploadFail, At,
         procVars, countVars
<1>2. CASE UploadFind(s)
  <2>1. api[s].req.op = "translate"
    BY <1>1, <1>2, Served DEF UploadFind, At, Serving, Serves, UploadPlaces
  <2>2. \E pc, j : api' = [api EXCEPT ![s].pc = pc, ![s].job = j]
    BY <1>2 DEF UploadFind
  <2> QED
    BY <1>1, <2>1, <2>2 DEF Advances, Shape, SlotsOK, Slot
<1> QED
  BY <1>1, <1>2, UploadSteps, InPlaceAdvances

LEMMA OtherAdvances ==
  ASSUME Shape, NEW s \in Slots, OtherStep(s)
  PROVE  Advances(s) /\ raced' = raced
<1>1. ~At(s, "idle")
  BY DEF OtherStep, Dashboard, StoreUpload, Restore, EstimateCheck, EstimateStore, Start, ConfirmCheck, ConfirmBill,
         ConfirmAwait, ConfirmQueue, PreviewCheck, PreviewQuota, PreviewQueue, Poll, SyncRead, SyncWrite, PublishRead,
         PublishSet, SpawnThread, PayCredit, PayLoad, PayCommit, PayMilestone, ActivateMilestone, At
<1>2. raced' = raced
  BY DEF OtherStep, Dashboard, StoreUpload, Restore, EstimateCheck, EstimateStore, Start, ConfirmCheck, ConfirmBill,
         ConfirmAwait, ConfirmQueue, PreviewCheck, PreviewQuota, PreviewQueue, Poll, SyncRead, SyncWrite, PublishRead,
         PublishSet, SpawnThread, PayCredit, PayLoad, PayCommit, PayMilestone, ActivateMilestone, countVars
<1>3. Answer(s) \/ UNCHANGED threads
  BY DEF OtherStep, Dashboard, StoreUpload, Restore, EstimateCheck, EstimateStore, Start, ConfirmCheck, ConfirmBill,
         ConfirmAwait, ConfirmQueue, PreviewCheck, PreviewQuota, PreviewQueue, Poll, SyncRead, SyncWrite, PublishRead,
         PublishSet, SpawnThread, PayCredit, PayLoad, PayCommit, PayMilestone, ActivateMilestone, procVars
<1> QED
  BY <1>1, <1>2, <1>3, OtherSteps, InPlaceAdvances DEF LeadsTo

QuotaStep(s) == \/ UploadQuota(s) \/ UploadRefused(s) \/ UploadEnqueue(s) \/ UploadEnqueueRaises(s)
                \/ UploadRelease(s) \/ PayQuota(s) \/ PayRefused(s) \/ PayDispatch(s)

LEMMA QuotaAdvances ==
  ASSUME Shape, NEW s \in Slots, QuotaStep(s)
  PROVE  Advances(s) /\ (raced => raced')
<1>1. ~At(s, "idle") /\ (raced => raced')
  BY DEF QuotaStep, UploadQuota, UploadRefused, UploadEnqueue, UploadEnqueueRaises, UploadRelease, PayQuota,
         PayRefused, PayDispatch, At, countVars
<1>2. Answer(s) \/ UNCHANGED threads
  BY DEF QuotaStep, UploadQuota, UploadRefused, UploadEnqueue, UploadEnqueueRaises, UploadRelease, PayQuota,
         PayRefused, PayDispatch, procVars
<1>3. \E pc : InPlace(s, pc)
  BY DEF QuotaStep, UploadQuota, UploadRefused, UploadEnqueue, UploadEnqueueRaises, UploadRelease, PayQuota,
         PayRefused, PayDispatch, Reserve, InPlace
<1> QED
  BY <1>1, <1>2, <1>3, InPlaceAdvances

LEMMA ServeAdvances ==
  ASSUME Shape, NEW s \in Slots, Serve(s)
  PROVE  Advances(s) /\ (raced => raced')
BY UploadAdvances, OtherAdvances, QuotaAdvances DEF Serve, Admit, UploadStep, OtherStep, QuotaStep

\* A thread goes on with its job, or is done with it.
Continues(t) == /\ \A k \in Threads \ {t} : threads'[k] = threads[k]
                /\ \/ threads'[t].job = NoJob
                   \/ threads'[t].job = threads[t].job /\ threads'[t].proc = threads[t].proc
                /\ UNCHANGED <<api, raced>>

LEMMA ThreadContinues ==
  ASSUME Shape, NEW t \in Threads, Translate(t) \/ EnqueueThread(t)
  PROVE  Continues(t)
<1>1. UNCHANGED <<api, raced>>
  BY DEF Translate, EnqueueThread, ThreadBegin, ThreadPublishRead, ThreadPublishSet, ThreadPublishFails,
     ThreadRowProcessing, ThreadRun, ThreadRaises, ThreadRowFailed, ThreadRowPreview, ThreadSettle, ThreadSettleFails,
     ThreadBill, ThreadRowCompleted, ThreadRowFails, countVars, noFault
<1>2. threads \in [Threads -> Thread]
  BY DEF Shape, ThreadsOK
<1>3. \/ \E pc : TGoto(t, pc)
      \/ \E after : Publishes(t, after)
      \/ \E pc : Ends(t, pc)
      \/ threads' = [threads EXCEPT ![t] = IdleThread]
      \/ \E st : threads' = [threads EXCEPT ![t].pc = "set", ![t].copy = st]
      \/ \E cost : threads' = [threads EXCEPT ![t].pc = "bill", ![t].cost = cost]
  BY DEF Translate, EnqueueThread, ThreadBegin, ThreadPublishRead, ThreadPublishSet, ThreadPublishFails,
     ThreadRowProcessing, ThreadRun, ThreadRaises, ThreadRowFailed, ThreadRowPreview, ThreadSettle, ThreadSettleFails,
     ThreadBill, ThreadRowCompleted, ThreadRowFails
<1>4. ASSUME NEW pc, TGoto(t, pc) PROVE Continues(t)
  BY <1>1, <1>2, <1>4 DEF TGoto, Continues, Thread
<1>5. ASSUME NEW after, Publishes(t, after) PROVE Continues(t)
  BY <1>1, <1>2, <1>5 DEF Publishes, Continues, Thread
<1>6. ASSUME NEW pc, Ends(t, pc) PROVE Continues(t)
  <2>1. CASE pc = "end"
    BY <1>1, <1>2, <1>6, <2>1 DEF Ends, Continues, IdleThread
  <2>2. CASE pc # "end"
    BY <1>1, <1>2, <1>6, <2>2 DEF Ends, Continues, Thread
  <2> QED
    BY <2>1, <2>2
<1>7. CASE threads' = [threads EXCEPT ![t] = IdleThread]
  BY <1>1, <1>2, <1>7 DEF Continues, IdleThread
<1>8. ASSUME NEW st, threads' = [threads EXCEPT ![t].pc = "set", ![t].copy = st] PROVE Continues(t)
  BY <1>1, <1>2, <1>8 DEF Continues, Thread
<1>9. ASSUME NEW cost, threads' = [threads EXCEPT ![t].pc = "bill", ![t].cost = cost] PROVE Continues(t)
  BY <1>1, <1>2, <1>9 DEF Continues, Thread
<1> QED
  BY <1>3, <1>4, <1>5, <1>6, <1>7, <1>8, <1>9

\* Under a step of a request or a thread, and where one begins, there is still one of them.
LEMMA AloneServe ==
  ASSUME Shape, Alone, NEW s \in Slots, Advances(s)
  PROVE  Alone' /\ \A k \in Busy : k = s
<1>1. s \in Busy /\ \A k \in Busy : k = s
  BY DEF Advances, Busy, Alone
<1>2. \A k \in Slots \ {s} : api'[k] = api[k] /\ api[k].pc = "idle"
  BY <1>1 DEF Advances, Busy, At
<1>3. \A k \in Busy' : k = s
  BY <1>2 DEF Busy, At
<1>4. ASSUME NEW k \in Busy', api'[k].req.op \in Asking, NEW t \in Threads PROVE threads'[t].job # api'[k].job
  <2>1. k = s /\ api'[s].pc # "idle"
    BY <1>3, <1>4 DEF Busy, At
  <2>2. api'[s] # IdleSlot
    BY <2>1 DEF IdleSlot
  <2>3. api[s].req.op \in Asking /\ api'[s].job = api[s].job /\ UNCHANGED threads
    BY <1>4, <2>1, <2>2 DEF Advances, Asking
  <2> QED
    BY <1>1, <2>1, <2>3 DEF Alone
<1> QED
  BY <1>1, <1>3, <1>4 DEF Alone

LEMMA AloneThread ==
  ASSUME Shape, Alone, NEW t \in Threads, Continues(t)
  PROVE  Alone'
<1>1. Busy' = Busy /\ api' = api
  BY DEF Continues, Busy, At
<1>2. ASSUME NEW k \in Busy, api[k].req.op \in Asking PROVE api[k].job # NoJob
  <2>1. api[k].job \in JobIds
    BY <1>2, Served DEF Busy, Serving, Serves, Asking, UploadPlaces, RowPlaces
  <2> QED
    BY <2>1, StoreConstants DEF NoJob
<1>3. ASSUME NEW k \in Busy, api[k].req.op \in Asking, NEW d \in Threads PROVE threads'[d].job # api[k].job
  <2>1. \A e \in Threads : threads[e].job # api[k].job
    BY <1>3 DEF Alone
  <2> QED
    BY <1>2, <1>3, <2>1 DEF Continues
<1> QED
  BY <1>1, <1>3 DEF Alone

LEMMA AloneAccept ==
  ASSUME Shape, NEW s \in Slots, NEW r, NEW pc, NEW j \in JobIds \cup {NoJob}, Begin(s, r, pc, j), ~raced',
         r.op \in Asking => j # NoJob
  PROVE  ~raced /\ Alone' /\ Busy = {} /\ \A k \in Slots \ {s} : api'[k] = api[k] /\ api[k].pc = "idle"
<1>1. PICK p : api' = [api EXCEPT ![s] = [IdleSlot EXCEPT !.pc = pc, !.req = r, !.proc = p, !.job = j]]
  BY DEF Begin
<1>2. /\ ~raced /\ Busy = {} /\ UNCHANGED threads
      /\ r.op \in Asking => \A t \in Threads : threads[t].job # j
  BY DEF Begin, Asking, procVars
<1>3. \A k \in Slots \ {s} : api'[k] = api[k] /\ api[k].pc = "idle"
  BY <1>1, <1>2 DEF Busy, At, Shape, SlotsOK
<1>4. api'[s].req = r /\ api'[s].job = j
  BY <1>1 DEF Shape, SlotsOK, IdleSlot
<1>5. \A k \in Busy' : k = s
  BY <1>3 DEF Busy, At
<1> QED
  BY <1>2, <1>3, <1>4, <1>5 DEF Alone

\* What may begin.
LEMMA AcceptBegins ==
  ASSUME Shape, NEW s \in Slots, Accept(s)
  PROVE  \E pc \in {"u_check", "upload", "restore", "credit"} : \E r \in scenario.requests : \E j \in JobIds \cup {NoJob} :
           Begin(s, r, pc, j) /\ (r.op \in Asking => j # NoJob)
<1> DEFINE Starts(pc) == \E r \in scenario.requests : \E j \in JobIds \cup {NoJob} :
                           Begin(s, r, pc, j) /\ (r.op \in Asking => j # NoJob)
<1>1. NoJob \notin JobIds
  BY StoreConstants DEF NoJob
<1>2. EnqueueTranslate(s) => Starts("u_check")
  BY DEF EnqueueTranslate, Asked, Asking
<1>3. Upload(s) => Starts("upload")
  BY FreshIdType DEF Upload, Asked, Asking
<1>4. AskMilestone(s) => Starts("restore")
  BY <1>1 DEF AskMilestone
<1>5. Pay(s) => Starts("credit")
  BY <1>1 DEF Pay, Asked
<1> HIDE DEF Starts
<1>6. \E pc \in {"u_check", "upload", "restore", "credit"} : Starts(pc)
  BY <1>2, <1>3, <1>4, <1>5 DEF Accept
<1> QED
  BY <1>6 DEF Starts

LEMMA AloneCrash ==
  ASSUME Shape, Alone, NEW p \in scenario.procs, Crash(p)
  PROVE  Alone'
<1>1. \A s \in Slots : api'[s] = api[s] \/ api'[s] = IdleSlot
  BY DEF Crash
<1>2. \A s \in Busy' : s \in Busy /\ api'[s] = api[s]
  BY <1>1 DEF Busy, At, IdleSlot
<1>3. \A t \in Threads : threads'[t] = threads[t] \/ threads'[t] = IdleThread
  BY DEF Crash
<1>4. ASSUME NEW k \in Busy, api[k].req.op \in Asking PROVE api[k].job # NoJob
  <2>1. api[k].job \in JobIds
    BY <1>4, Served DEF Busy, Serving, Serves, Asking, UploadPlaces, RowPlaces
  <2> QED
    BY <2>1, StoreConstants DEF NoJob
<1> QED
  BY <1>2, <1>3, <1>4 DEF Alone, IdleThread

LEMMA HorseLeaves ==
  ASSUME NEW h \in Horses, Process(h)
  PROVE  UNCHANGED <<api, threads, memory, snapshot, raced, lost, scenario, paid>>
BY DEF Process, RqTake, ProcessLoad, ProcessMark, ProcessRun, ProcessRaises, ProcessCommit, CommitUnless,
   ProcessExcept, RetryOrFail, HorseDies, redisVars, procVars, ghostVars, countVars, noFault

\* Once requests overlapped they did.
AloneInv == ~raced => Alone

LEMMA AloneNext == Shape /\ AloneInv /\ [Next]_vars => AloneInv'
<1> SUFFICES ASSUME Shape, AloneInv, [Next]_vars, ~raced' PROVE Alone'
  BY DEF AloneInv
<1>1. CASE UNCHANGED <<api, threads, raced>>
  BY <1>1 DEF AloneInv, Alone, Busy, At
<1>2. ASSUME NEW s \in Slots, Accept(s) PROVE Alone'
  <2>1. PICK pc \in {"u_check", "upload", "restore", "credit"}, r \in scenario.requests, j \in JobIds \cup {NoJob} :
          Begin(s, r, pc, j) /\ (r.op \in Asking => j # NoJob)
    BY <1>2, AcceptBegins
  <2> QED
    BY <2>1, AloneAccept
<1>3. ASSUME NEW s \in Slots, Serve(s) PROVE Alone'
  BY <1>3, ServeAdvances, AloneServe DEF AloneInv
<1>4. ASSUME NEW t \in Threads, Translate(t) \/ EnqueueThread(t) PROVE Alone'
  <2>1. Continues(t) /\ raced' = raced
    BY <1>4, ThreadContinues DEF Continues
  <2> QED
    BY <2>1, AloneThread DEF AloneInv
<1>5. ASSUME NEW h \in Horses, Process(h) PROVE Alone'
  BY <1>1, <1>5, HorseLeaves
<1>6. ASSUME NEW p \in scenario.procs, Crash(p) PROVE Alone'
  <2>1. raced' = raced
    BY <1>6 DEF Crash
  <2> QED
    BY <1>6, <2>1, AloneCrash DEF AloneInv
<1>7. ASSUME NEW j \in JobIds, SnapshotExpires(j) PROVE Alone'
  BY <1>1, <1>7 DEF SnapshotExpires, procVars, noFault
<1>8. CASE UNCHANGED vars
  BY <1>1, <1>8 DEF vars, procVars, countVars
<1> QED
  BY <1>2, <1>3, <1>4, <1>5, <1>6, <1>7, <1>8 DEF Next

-----------------------------------------------------------------------------
(* The rows of one request at a time *)

\* A row is written that is not called complete without its document.
LEMMA RowServed ==
  ASSUME DataOK, RowsServed, NEW j \in JobIds, NEW row, row.status = "completed" => row.output = "full",
         jobs' = [jobs EXCEPT ![j] = row]
  PROVE  RowsServed'
<1>1. jobs \in [JobIds -> Row \cup {NoRow}]
  BY DEF DataOK, TablesOK
<1>2. \A k \in JobIds : jobs'[k] = IF k = j THEN row ELSE jobs[k]
  BY <1>1
<1> QED
  BY <1>2 DEF RowsServed

LEMMA ThreadServes ==
  ASSUME Shape, RowsServed, NEW t \in Threads, Translate(t) \/ EnqueueThread(t)
  PROVE  RowsServed'
<1>1. CASE UNCHANGED jobs
  BY <1>1 DEF RowsServed
<1>2. CASE ThreadRowProcessing(t) \/ ThreadRowFailed(t) \/ ThreadRowPreview(t) \/ ThreadRowCompleted(t)
  <2>1. threads[t].pc \in ThreadPlaces
    BY <1>2 DEF ThreadRowProcessing, ThreadRowFailed, ThreadRowPreview, ThreadRowCompleted, TAt, ThreadPlaces
  <2>2. PICK j \in JobIds, st \in State : j = JobOf(t) /\ st = Held(t)
    BY <2>1, Running DEF JobOf
  <2>3. PICK status, output, cost :
          UpdateRow(t, status, output, cost) /\ (status = "completed" => output = "full")
    BY <1>2 DEF ThreadRowProcessing, ThreadRowFailed, ThreadRowPreview, ThreadRowCompleted, Statuses, Outputs
  <2>4. CASE jobs[j] = NoRow /\ st.user = Nobody
    BY <1>1, <2>2, <2>3, <2>4 DEF UpdateRow
  <2>5. CASE ~(jobs[j] = NoRow /\ st.user = Nobody)
    <3>1. PICK row : row = IF jobs[j] # NoRow THEN jobs[j]
                           ELSE [SyncedRow(NoRow, st, st.user) EXCEPT !.quote = 0]
      OBVIOUS
    <3>2. PICK new : new = [row EXCEPT !.status = status, !.output = IF output = "none" THEN @ ELSE output,
                                       !.cost = cost]
      OBVIOUS
    <3>3. jobs' = [jobs EXCEPT ![j] = new]
      BY <2>2, <2>3, <2>5, <3>1, <3>2 DEF UpdateRow
    <3>4. DOMAIN row = {"status", "user", "hash", "path", "output", "attempt", "quote", "cost"}
      <4>1. jobs[j] \in Row \cup {NoRow}
        BY DEF Shape, DataOK, TablesOK
      <4>2. CASE jobs[j] # NoRow
        BY <3>1, <4>1, <4>2 DEF Row
      <4>3. CASE jobs[j] = NoRow
        BY <3>1, <4>3 DEF SyncedRow
      <4> QED
        BY <4>2, <4>3
    <3>5. new.status = status /\ (output # "none" => new.output = output)
      BY <3>2, <3>4
    <3> QED
      BY <2>3, <3>3, <3>5, RowServed DEF Shape
  <2> QED
    BY <2>4, <2>5
<1> QED
  BY <1>1, <1>2 DEF Translate, EnqueueThread, ThreadBegin, ThreadPublishRead, ThreadPublishSet, ThreadPublishFails,
     ThreadRun, ThreadRaises, ThreadSettle, ThreadSettleFails, ThreadBill, ThreadRowFails, tableVars

LEMMA HorseServes ==
  ASSUME Shape, RowsServed, NEW h \in Horses, Process(h)
  PROVE  RowsServed'
<1>1. CASE UNCHANGED jobs
  BY <1>1 DEF RowsServed
<1>2. CASE ProcessMark(h) \/ ProcessCommit(h) \/ ProcessExcept(h)
  <2>1. ~HAt(h, "idle")
    BY <1>2 DEF ProcessMark, ProcessCommit, CommitUnless, ProcessExcept, RetryOrFail, HAt
  <2>2. PICK j \in JobIds, old \in Row : j = horse[h].job /\ old = jobs[j]
    BY <2>1, Working
  <2>3. CASE jobs' = jobs
    BY <1>1, <2>3
  <2>4. CASE ~(jobs' = jobs)
    <3>1. \/ jobs' = [jobs EXCEPT ![j] = [old EXCEPT !.status = "processing"]]
          \/ jobs' = [jobs EXCEPT ![j] = [old EXCEPT !.status = "failed"]]
          \/ jobs' = [jobs EXCEPT ![j] = [old EXCEPT !.status = "pending", !.attempt = old.attempt + 1]]
          \/ \E cost : jobs' = [jobs EXCEPT ![j] = [old EXCEPT !.status = "completed", !.output = "full", !.cost = cost]]
      <4>1. CASE ProcessMark(h)
        BY <2>2, <4>1 DEF ProcessMark
      <4>2. CASE ProcessCommit(h)
        BY <2>2, <2>4, <4>2 DEF ProcessCommit, CommitUnless
      <4>3. CASE ProcessExcept(h)
        <5>1. \/ jobs' = [jobs EXCEPT ![j].status = "pending", ![j].attempt = @ + 1]
              \/ jobs' = [jobs EXCEPT ![j].status = "failed"]
          BY <2>2, <4>3 DEF ProcessExcept, RetryOrFail
        <5> QED
          BY <2>2, <5>1 DEF Shape, DataOK, TablesOK
      <4> QED
        BY <1>2, <4>1, <4>2, <4>3
    <3>2. PICK row : /\ jobs' = [jobs EXCEPT ![j] = row]
                     /\ \/ row = [old EXCEPT !.status = "processing"]
                        \/ row = [old EXCEPT !.status = "failed"]
                        \/ row = [old EXCEPT !.status = "pending", !.attempt = old.attempt + 1]
                        \/ \E cost : row = [old EXCEPT !.status = "completed", !.output = "full", !.cost = cost]
      BY <3>1
    <3>3. row.status = "completed" => row.output = "full"
      BY <3>2 DEF Row
    <3> QED
      BY <3>2, <3>3, RowServed DEF Shape
  <2> QED
    BY <2>3, <2>4
<1> QED
  BY <1>1, <1>2 DEF Process, RqTake, ProcessLoad, ProcessRun, ProcessRaises, HorseDies, tableVars

LEMMA RequestServes ==
  ASSUME Shape, RowsServed, Syncs, NEW s \in Slots, Serve(s)
  PROVE  RowsServed'
<1>1. CASE UNCHANGED jobs
  BY <1>1 DEF RowsServed
<1>2. CASE UploadInsert(s)
  <2>1. PICK row : row = NewRow(api[s].req) /\ jobs' = [jobs EXCEPT ![api[s].job] = row]
    BY <1>2 DEF UploadInsert, Of
  <2>2. api[s].job \in JobIds
    BY <1>2, Served DEF UploadInsert, At, Serving, UploadPlaces
  <2>3. row.status # "completed"
    BY <2>1 DEF NewRow
  <2> QED
    BY <2>1, <2>2, <2>3, RowServed DEF Shape
<1>3. CASE UploadReset(s) \/ UploadFail(s) \/ PayCommit(s)
  <2>1. PICK j \in JobIds, old \in Row : j = api[s].job /\ old = jobs[j]
    <3>1. api[s].pc \in RowPlaces \cup PayPlaces /\ ~At(s, "idle")
      BY <1>3 DEF UploadReset, UploadFail, PayCommit, At, RowPlaces, PayPlaces
    <3> QED
      BY <3>1, Served DEF Serving, UploadPlaces, RowPlaces, PayPlaces, Shape, DataOK, TablesOK
  <2>2. \/ jobs' = [jobs EXCEPT ![j] = [old EXCEPT !.status = "pending", !.output = "none", !.attempt = 0, !.cost = 0]]
        \/ jobs' = [jobs EXCEPT ![j] = [old EXCEPT !.status = "failed"]]
        \/ jobs' = [jobs EXCEPT ![j] = [old EXCEPT !.status = "pending", !.attempt = 0]]
    BY <1>3, <2>1 DEF UploadReset, UploadFail, PayCommit, Shape, DataOK, TablesOK
  <2>3. PICK row : /\ jobs' = [jobs EXCEPT ![j] = row]
                   /\ \/ row = [old EXCEPT !.status = "pending", !.output = "none", !.attempt = 0, !.cost = 0]
                      \/ row = [old EXCEPT !.status = "failed"]
                      \/ row = [old EXCEPT !.status = "pending", !.attempt = 0]
    BY <2>2
  <2>4. row.status # "completed"
    BY <2>3 DEF Row
  <2> QED
    BY <2>3, <2>4, RowServed DEF Shape
<1>4. CASE SyncWrite(s)
  <2>1. At(s, "write") /\ ~At(s, "idle")
    BY <1>4 DEF SyncWrite, At
  <2>2. api[s].job \in JobIds /\ api[s].copy.status \in {"queued", "awaiting_payment"}
    BY <2>1, Served DEF Serving, Syncs, At, UploadPlaces
  <2>3. PICK old, st, u : old = jobs[api[s].job] /\ st = api[s].copy /\ u = Of(s).user
    OBVIOUS
  <2>4. PICK row : row = SyncedRow(old, st, u)
    OBVIOUS
  <2>5. row.status # "completed"
    BY <2>2, <2>3, <2>4 DEF SyncedRow, DbStatus
  <2>6. jobs' = jobs \/ jobs' = [jobs EXCEPT ![api[s].job] = row]
    BY <1>4, <2>3, <2>4 DEF SyncWrite
  <2> QED
    BY <1>1, <2>2, <2>5, <2>6, RowServed DEF Shape
<1>5. CASE ~(UploadInsert(s) \/ UploadReset(s) \/ UploadFail(s) \/ PayCommit(s) \/ SyncWrite(s))
  <2>1. CASE Admit(s)
    BY <1>1, <1>5, <2>1 DEF Admit, UploadCheck, UploadDuplicate, UploadCapacity, UploadFind, UploadQuota, UploadRefused,
       UploadEnqueue, UploadEnqueueRaises, UploadRelease, tableVars
  <2>2. CASE Dashboard(s)
    BY <1>1, <1>5, <2>2 DEF Dashboard, StoreUpload, Restore, EstimateCheck, EstimateStore, Start, ConfirmCheck,
       ConfirmBill, ConfirmAwait, ConfirmQueue, PreviewCheck, PreviewQuota, PreviewQueue, Poll, SyncRead, PublishRead,
       PublishSet, SpawnThread, tableVars
  <2> QED
    BY <1>1, <1>5, <2>1, <2>2 DEF Serve, PayCredit, PayLoad, PayQuota, PayRefused, PayDispatch, PayMilestone,
       ActivateMilestone, tableVars
<1> QED
  BY <1>2, <1>3, <1>4, <1>5

\* What is to be written to a row was queued, or awaits payment.
LEMMA InPlacePc ==
  ASSUME Shape, NEW s \in Slots, NEW pc, InPlace(s, pc)
  PROVE  api'[s].pc \in {pc, "idle"}
<1>1. api \in [Slots -> Slot]
  BY DEF Shape, SlotsOK
<1> QED
  BY <1>1 DEF InPlace, Answer, Goto, IdleSlot, Slot

LEMMA CommitSyncs ==
  ASSUME Shape, NEW s \in Slots, Commit(s), api'[s].pc = "sync"
  PROVE  (Mine(s).status \in {"queued", "awaiting_payment"})'
<1>1. ~At(s, "idle") /\ api[s].pc \notin UploadPlaces
  BY DEF Commit, Start, ConfirmAwait, ConfirmQueue, PreviewQueue, At, UploadPlaces
<1>2. ~Answer(s) /\ UNCHANGED scenario
  <2>1. Answer(s) => api'[s].pc = "idle"
    BY DEF Answer, IdleSlot, Shape, SlotsOK
  <2> QED
    BY <2>1 DEF Commit, Start, ConfirmAwait, ConfirmQueue, PreviewQueue, countVars
<1>3. PICK p \in scenario.procs, j \in JobIds : p = api[s].proc /\ j = api[s].job
  BY <1>1, Served DEF Serving
<1>4. \E kind : Commits(s, kind)
  BY <1>2 DEF Commit, Start, ConfirmAwait, ConfirmQueue, PreviewQueue
<1>5. api'[s].proc = p /\ api'[s].job = j
  BY <1>3, <1>4 DEF Commits, Shape, SlotsOK, Slot
<1>6. Mine(s) \in State \cup {NoState}
  BY <1>3 DEF Mine, Shape, DataOK, MemoryOK
<1>7. Mine(s) # NoState
  <2>1. CASE Start(s)
    BY <1>2, <2>1 DEF Start
  <2>2. CASE ~Start(s)
    <3>1. api[s].pc \in DeepPlaces
      BY <2>2 DEF Commit, ConfirmAwait, ConfirmQueue, PreviewQueue, At, DeepPlaces
    <3> QED
      BY <1>1, <3>1, Served DEF Serving, Mine
  <2> QED
    BY <2>1, <2>2
<1>8. PICK st \in State : Keeps(p, j, st) /\ st.status \in {"queued", "awaiting_payment"}
  <2>1. CASE Start(s)
    <3>1. Of(s).user \in Users \cup {Nobody}
      BY <1>1, <2>1, Served DEF Of, RequestOK, Start, At, Serving, Serves, Ops
    <3>2. PICK old \in State : old = Signed(s, Mine(s))
      BY <1>6, <1>7, <3>1, SignedType
    <3>3. PICK st \in State : st = [old EXCEPT !.status = "queued"]
      BY StatusSet DEF MemoryStatuses
    <3>4. Remember(s, st)
      BY <1>2, <2>1, <3>2, <3>3 DEF Start
    <3> QED
      BY <1>3, <3>3, <3>4 DEF Remember, Keeps, State, AnyState
  <2>2. CASE ~Start(s)
    <3>1. PICK old \in State : old = Mine(s)
      BY <1>6, <1>7
    <3>2. PICK status \in {"queued", "awaiting_payment"} : Remember(s, [old EXCEPT !.status = status])
      BY <2>2, <3>1 DEF Commit, ConfirmAwait, ConfirmQueue, PreviewQueue
    <3>3. PICK st \in State : st = [old EXCEPT !.status = status]
      BY StatusSet DEF MemoryStatuses, Statuses
    <3> QED
      BY <1>3, <3>2, <3>3 DEF Remember, Keeps, State, AnyState
  <2> QED
    BY <2>1, <2>2
<1>9. memory'[p][j] = st
  BY <1>8 DEF Keeps, Shape, DataOK, MemoryOK
<1> QED
  BY <1>5, <1>8, <1>9 DEF Mine

LEMMA SyncsServe ==
  ASSUME Shape, Alone, Syncs, NEW s \in Slots, Serve(s)
  PROVE  Syncs'
<1>1. Advances(s) /\ \A k \in Slots \ {s} : api'[k] = api[k] /\ api[k].pc = "idle"
  BY ServeAdvances, AloneServe DEF Advances, Busy, At
<1>2. CASE api'[s].pc \notin {"sync", "write"}
  BY <1>1, <1>2 DEF Syncs, At
<1>3. CASE api'[s].pc \in {"sync", "write"}
  <2>1. OtherStep(s)
    <3>1. UploadStep(s) => api'[s].pc \in UploadNext \cup {"idle"}
      <4> SUFFICES ASSUME UploadStep(s) PROVE api'[s].pc \in UploadNext \cup {"idle"}
        OBVIOUS
      <4>1. PICK pc \in UploadNext : Steps(s, pc)
        BY UploadSteps
      <4>2. ASSUME NEW j, api' = [api EXCEPT ![s].pc = pc, ![s].job = j] PROVE api'[s].pc = pc
        BY <4>2 DEF Shape, SlotsOK, Slot
      <4> QED
        BY <4>1, <4>2, InPlacePc DEF Steps
    <3>2. QuotaStep(s) => api'[s].pc \notin {"sync", "write"}
      <4>1. QuotaStep(s) => \E pc : InPlace(s, pc) /\ pc \notin {"sync", "write"}
        BY DEF QuotaStep, UploadQuota, UploadRefused, UploadEnqueue, UploadEnqueueRaises, UploadRelease, PayQuota,
               PayRefused, PayDispatch, Reserve, InPlace
      <4> QED
        BY <4>1, InPlacePc
    <3> QED
      BY <1>3, <3>1, <3>2 DEF Serve, Admit, UploadStep, QuotaStep, OtherStep, UploadNext
  <2>2. PICK pc \in OtherNext : LeadsTo(s, pc)
    BY <2>1, OtherSteps
  <2>3. api'[s].pc = pc
    BY <1>3, <2>2, InPlacePc DEF LeadsTo
  <2>4. CASE pc = "sync"
    <3>1. (Mine(s).status \in {"queued", "awaiting_payment"})'
      BY <2>2, <2>3, <2>4, CommitSyncs DEF LeadsTo
    <3> QED
      BY <1>1, <2>3, <2>4, <3>1 DEF Syncs, At
  <2>5. CASE pc = "write"
    <3>1. SyncRead(s)
      BY <2>2, <2>5 DEF LeadsTo
    <3>2. api'[s].copy.status \in {"queued", "awaiting_payment"}
      BY <3>1 DEF SyncRead, Syncs, Shape, SlotsOK, Slot
    <3> QED
      BY <1>1, <2>3, <2>5, <3>2 DEF Syncs, At
  <2> QED
    BY <1>3, <2>3, <2>4, <2>5
<1> QED
  BY <1>2, <1>3

\* A thread does not come by the job of a request.
LEMMA SyncsThread ==
  ASSUME Shape, Alone, Syncs, NEW t \in Threads, Translate(t) \/ EnqueueThread(t)
  PROVE  Syncs'
<1>1. UNCHANGED api
  BY ThreadContinues DEF Continues
<1>2. memory' = memory \/ \E st : Becomes(t, st)
  BY DEF Translate, EnqueueThread, ThreadBegin, ThreadPublishRead, ThreadPublishSet, ThreadPublishFails,
     ThreadRowProcessing, ThreadRun, ThreadRaises, ThreadRowFailed, ThreadRowPreview, ThreadSettle, ThreadSettleFails,
     ThreadBill, ThreadRowCompleted, ThreadRowFails
<1>3. ASSUME NEW s \in Slots, At(s, "sync") PROVE memory'[api[s].proc][api[s].job] = memory[api[s].proc][api[s].job]
  <2>1. s \in Busy /\ api[s].req.op \in Asking
    BY <1>3, Served DEF At, Busy, Serving, Serves, Signs, Asking
  <2>2. threads[t].job # api[s].job
    BY <2>1 DEF Alone
  <2>3. memory \in [scenario.procs -> [JobIds -> State \cup {NoState}]]
    BY DEF Shape, DataOK, MemoryOK
  <2>4. api[s].proc \in scenario.procs /\ api[s].job \in JobIds
    BY <1>3, Served DEF At, Serving, UploadPlaces
  <2>5. ASSUME NEW st, Becomes(t, st) PROVE memory'[api[s].proc][api[s].job] = memory[api[s].proc][api[s].job]
    <3>1. PICK q, i : q = threads[t].proc /\ i = threads[t].job /\ memory' = [memory EXCEPT ![q][i] = st]
      BY <2>5 DEF Becomes, JobOf
    <3>2. PICK p \in scenario.procs, j \in JobIds : p = api[s].proc /\ j = api[s].job /\ i # j
      BY <2>2, <2>4, <3>1
    <3>3. memory'[p][j] = memory[p][j]
      BY <2>3, <3>1, <3>2
    <3> QED
      BY <3>2, <3>3
  <2> QED
    BY <1>2, <2>5
<1> QED
  BY <1>1, <1>3 DEF Syncs, Mine, At

LEMMA SyncsCrash ==
  ASSUME Shape, Syncs, NEW p \in scenario.procs, Crash(p)
  PROVE  Syncs'
<1>1. ASSUME NEW s \in Slots, api'[s].pc # "idle"
      PROVE  api'[s] = api[s] /\ memory'[api[s].proc][api[s].job] = memory[api[s].proc][api[s].job]
  <2>1. api'[s] = api[s] /\ api[s].proc # p
    BY <1>1 DEF Crash, IdleSlot
  <2>2. api[s].proc \in scenario.procs
    BY <1>1, <2>1, Served DEF At, Serving
  <2> QED
    BY <2>1, <2>2 DEF Crash, Shape, DataOK, MemoryOK
<1> QED
  BY <1>1 DEF Syncs, Mine, At

-----------------------------------------------------------------------------
(* What is shown is served *)

LEMMA SoloNext == Shape /\ Solo /\ [Next]_vars => Solo'
<1> SUFFICES ASSUME Shape, Solo, [Next]_vars, ~raced' PROVE Alone' /\ Syncs' /\ RowsServed'
  BY DEF Solo
<1>1. Alone'
  BY AloneNext DEF AloneInv, Solo
<1>2. CASE UNCHANGED <<jobs, api, memory, raced>>
  BY <1>1, <1>2 DEF Solo, Syncs, RowsServed, Mine, At
<1>3. ASSUME NEW s \in Slots, Accept(s) PROVE Syncs' /\ RowsServed'
  <2>1. PICK pc \in {"u_check", "upload", "restore", "credit"}, r \in scenario.requests, j \in JobIds \cup {NoJob} :
          Begin(s, r, pc, j) /\ (r.op \in Asking => j # NoJob)
    BY <1>3, AcceptBegins
  <2>2. ~raced /\ \A k \in Slots \ {s} : api'[k] = api[k] /\ api[k].pc = "idle"
    BY <2>1, AloneAccept
  <2>3. api'[s].pc = pc
    BY <2>1 DEF Begin, Shape, SlotsOK, IdleSlot
  <2>4. UNCHANGED jobs
    BY <2>1 DEF Begin, tableVars
  <2> QED
    BY <2>2, <2>3, <2>4 DEF Solo, Syncs, RowsServed, At
<1>4. ASSUME NEW s \in Slots, Serve(s) PROVE Syncs' /\ RowsServed'
  BY <1>4, ServeAdvances, SyncsServe, RequestServes DEF Solo
<1>5. ASSUME NEW t \in Threads, Translate(t) \/ EnqueueThread(t) PROVE Syncs' /\ RowsServed'
  <2>1. ~raced
    BY <1>5, ThreadContinues DEF Continues
  <2> QED
    BY <1>5, <2>1, SyncsThread, ThreadServes DEF Solo
<1>6. ASSUME NEW h \in Horses, Process(h) PROVE Syncs' /\ RowsServed'
  <2>1. UNCHANGED <<api, memory, raced>>
    BY <1>6, HorseLeaves
  <2>2. Syncs'
    BY <2>1 DEF Solo, Syncs, Mine, At
  <2> QED
    BY <1>6, <2>1, <2>2, HorseServes DEF Solo
<1>7. ASSUME NEW p \in scenario.procs, Crash(p) PROVE Syncs' /\ RowsServed'
  <2>1. ~raced /\ UNCHANGED jobs
    BY <1>7 DEF Crash, tableVars
  <2> QED
    BY <1>7, <2>1, SyncsCrash DEF Solo, RowsServed
<1>8. ASSUME NEW j \in JobIds, SnapshotExpires(j) PROVE Syncs' /\ RowsServed'
  BY <1>2, <1>8 DEF SnapshotExpires, tableVars, procVars, noFault
<1>9. CASE UNCHANGED vars
  BY <1>2, <1>9 DEF vars, tableVars, procVars, countVars
<1> QED
  BY <1>1, <1>3, <1>4, <1>5, <1>6, <1>7, <1>8, <1>9 DEF Next

LEMMA SoloInit == Init => Solo
BY DEF Init, Solo, Alone, Busy, At, IdleSlot, Syncs, RowsServed, NoRow

\* Where a status, or the list overlaid with the memory, says that a translation is complete
\* the whole document is served: always while its process remembers it, and from the row
\* alone if no two requests overlapped.  (The list of completed jobs is HistoryIsServed.)
THEOREM ShownServed == Spec => []ShownIsServed
<1>1. ASSUME Shape, Solo PROVE ShownIsServed
  <2> SUFFICES ASSUME NEW p \in scenario.procs, NEW u \in Users, NEW j \in ListedTo(p, u),
                      StatusShown(p, j) = "completed", ~raced \/ memory[p][j] # NoState
               PROVE  DocxServed(p, j) = "full"
    BY DEF ShownIsServed
  <2>1. j \in JobIds
    BY DEF ListedTo
  <2>2. CASE memory[p][j] # NoState
    <3>1. memory[p][j] \in State /\ memory[p][j].status = "completed"
      BY <1>1, <2>1, <2>2 DEF Shape, DataOK, MemoryOK, StatusShown
    <3> QED
      BY <2>2, <3>1 DEF State, DocxServed
  <2>3. CASE memory[p][j] = NoState
    <3>1. jobs[j] # NoRow /\ jobs[j].status = "completed" /\ ~raced
      BY <2>3 DEF ListedTo, StatusShown
    <3> QED
      BY <1>1, <2>1, <2>3, <3>1 DEF Solo, RowsServed, DocxServed
  <2> QED
    BY <2>2, <2>3
<1> QED
  BY <1>1, SoloInit, SoloNext, ShapeHolds, PTL DEF Spec

-----------------------------------------------------------------------------
(* Who touches which job *)

\* No job but j is touched.
Others(j) == \A k \in JobIds \ {j} :
  /\ jobs'[k] = jobs[k] /\ snapshot'[k] = snapshot[k] /\ rqQueue'[k] = rqQueue[k]
  /\ charges'[k] = charges[k] /\ paid'[k] = paid[k]
  /\ \A p \in scenario.procs : memory'[p][k] = memory[p][k]

\* The ways of a step to touch one job at most.
Writes(j) ==
  /\ jobs' = jobs \/ \E row : jobs' = [jobs EXCEPT ![j] = row]
  /\ snapshot' = snapshot \/ \E st : snapshot' = [snapshot EXCEPT ![j] = st]
  /\ rqQueue' = rqQueue \/ \E n : rqQueue' = [rqQueue EXCEPT ![j] = n]
  /\ charges' = charges \/ \E n : charges' = [charges EXCEPT ![j] = n]
  /\ paid' = paid \/ \E b : paid' = [paid EXCEPT ![j] = b]
  /\ memory' = memory \/ \E p, st : memory' = [memory EXCEPT ![p][j] = st]

LEMMA WritesOne ==
  ASSUME Shape, PaidType, NEW j, Writes(j)
  PROVE  Others(j)
<1> SUFFICES ASSUME NEW k \in JobIds \ {j}
             PROVE  /\ jobs'[k] = jobs[k] /\ snapshot'[k] = snapshot[k] /\ rqQueue'[k] = rqQueue[k]
                    /\ charges'[k] = charges[k] /\ paid'[k] = paid[k]
                    /\ \A p \in scenario.procs : memory'[p][k] = memory[p][k]
  BY DEF Others
<1>1. /\ jobs \in [JobIds -> Row \cup {NoRow}] /\ snapshot \in [JobIds -> State \cup {NoState}]
      /\ rqQueue \in [JobIds -> Nat] /\ charges \in [JobIds -> Nat] /\ paid \in [JobIds -> BOOLEAN]
      /\ memory \in [scenario.procs -> [JobIds -> State \cup {NoState}]]
  BY DEF Shape, DataOK, TablesOK, RedisOK, MemoryOK, GhostsOK, PaidType
<1>2. jobs'[k] = jobs[k]
  BY <1>1 DEF Writes
<1>3. snapshot'[k] = snapshot[k] /\ rqQueue'[k] = rqQueue[k]
  BY <1>1 DEF Writes
<1>4. charges'[k] = charges[k] /\ paid'[k] = paid[k]
  BY <1>1 DEF Writes
<1>5. ASSUME NEW p \in scenario.procs PROVE memory'[p][k] = memory[p][k]
  <2>1. CASE memory' = memory
    BY <2>1
  <2>2. ASSUME NEW q, NEW st, memory' = [memory EXCEPT ![q][j] = st] PROVE memory'[p][k] = memory[p][k]
    BY <1>1, <2>2
  <2> QED
    BY <2>1, <2>2 DEF Writes
<1> QED
  BY <1>2, <1>3, <1>4, <1>5

LEMMA UploadWrites ==
  ASSUME Shape, NEW s \in Slots, UploadStep(s)
  PROVE  Writes(api[s].job) /\ UNCHANGED <<rqQueue, snapshot, memory, charges, paid>>
<1>1. UNCHANGED <<rqQueue, snapshot, memory, charges, paid>>
  BY DEF UploadStep, UploadCheck, UploadDuplicate, UploadCapacity, UploadFind, UploadInsert, UploadReset, UploadFail,
         redisVars, procVars, ghostVars
<1>2. jobs' = jobs \/ \E row : jobs' = [jobs EXCEPT ![api[s].job] = row]
  <2>1. CASE UploadReset(s)
    BY <2>1 DEF UploadReset
  <2>2. CASE UploadFail(s)
    BY <2>2 DEF UploadFail
  <2>3. CASE ~UploadReset(s) /\ ~UploadFail(s)
    BY <2>3 DEF UploadStep, UploadCheck, UploadDuplicate, UploadCapacity, UploadFind, UploadInsert, tableVars
  <2> QED
    BY <2>1, <2>2, <2>3
<1> QED
  BY <1>1, <1>2 DEF Writes

LEMMA QuotaWrites ==
  ASSUME Shape, NEW s \in Slots, QuotaStep(s)
  PROVE  Writes(api[s].job) /\ UNCHANGED <<jobs, snapshot, memory, charges, paid>>
<1>1. UNCHANGED <<jobs, snapshot, memory, charges, paid>>
  BY DEF QuotaStep, UploadQuota, UploadRefused, UploadEnqueue, UploadEnqueueRaises, UploadRelease, PayQuota,
         PayRefused, PayDispatch, tableVars, redisVars, procVars, ghostVars
<1>2. rqQueue' = rqQueue \/ \E n : rqQueue' = [rqQueue EXCEPT ![api[s].job] = n]
  BY DEF QuotaStep, UploadQuota, UploadRefused, UploadEnqueue, UploadEnqueueRaises, UploadRelease, PayQuota,
         PayRefused, PayDispatch, redisVars
<1> QED
  BY <1>1, <1>2 DEF Writes

PayStep(s) == PayCredit(s) \/ PayLoad(s) \/ PayCommit(s)

LEMMA PayWrites ==
  ASSUME Shape, NEW s \in Slots, PayStep(s)
  PROVE  Writes(api[s].job) /\ UNCHANGED <<rqQueue, snapshot, memory, charges>>
<1>1. UNCHANGED <<rqQueue, snapshot, memory, charges>>
  BY DEF PayStep, PayCredit, PayLoad, PayCommit, redisVars, procVars, ghostVars
<1>2. jobs' = jobs \/ \E row : jobs' = [jobs EXCEPT ![api[s].job] = row]
  BY DEF PayStep, PayCredit, PayLoad, PayCommit, tableVars
<1>3. paid' = paid \/ \E b : paid' = [paid EXCEPT ![api[s].job] = b]
  BY DEF PayStep, PayCredit, PayLoad, PayCommit, ghostVars
<1> QED
  BY <1>1, <1>2, <1>3 DEF Writes

DashStep(s) == Dashboard(s) \/ PayMilestone(s)

LEMMA DashWrites ==
  ASSUME Shape, NEW s \in Slots, DashStep(s)
  PROVE  Writes(api[s].job) /\ UNCHANGED <<rqQueue, charges, paid>> /\ (SyncWrite(s) \/ UNCHANGED jobs)
<1>1. UNCHANGED <<rqQueue, charges, paid>>
  BY DEF DashStep, Dashboard, StoreUpload, Restore, EstimateCheck, EstimateStore, Start, ConfirmCheck, ConfirmBill,
         ConfirmAwait, ConfirmQueue, PreviewCheck, PreviewQuota, PreviewQueue, Poll, SyncRead, SyncWrite, PublishRead,
         PublishSet, SpawnThread, PayMilestone, ActivateMilestone, redisVars, ghostVars
<1>2. SyncWrite(s) \/ UNCHANGED jobs
  BY DEF DashStep, Dashboard, StoreUpload, Restore, EstimateCheck, EstimateStore, Start, ConfirmCheck, ConfirmBill,
         ConfirmAwait, ConfirmQueue, PreviewCheck, PreviewQuota, PreviewQueue, Poll, SyncRead, PublishRead,
         PublishSet, SpawnThread, PayMilestone, ActivateMilestone, tableVars
<1>3. jobs' = jobs \/ \E row : jobs' = [jobs EXCEPT ![api[s].job] = row]
  BY <1>2 DEF SyncWrite
<1>4. snapshot' = snapshot \/ \E st : snapshot' = [snapshot EXCEPT ![api[s].job] = st]
  BY DEF DashStep, Dashboard, StoreUpload, Restore, EstimateCheck, EstimateStore, Start, ConfirmCheck, ConfirmBill,
         ConfirmAwait, ConfirmQueue, PreviewCheck, PreviewQuota, PreviewQueue, Poll, SyncRead, SyncWrite, PublishRead,
         PublishSet, SpawnThread, PayMilestone, ActivateMilestone, redisVars
<1>5. memory' = memory \/ \E p, st : memory' = [memory EXCEPT ![p][api[s].job] = st]
  <2>1. CASE Dashboard(s)
    BY <2>1 DEF Dashboard, StoreUpload, Restore, EstimateCheck, EstimateStore, Start, ConfirmCheck, ConfirmBill,
         ConfirmAwait, ConfirmQueue, PreviewCheck, PreviewQuota, PreviewQueue, Poll, SyncRead, SyncWrite, PublishRead,
         PublishSet, SpawnThread, Remember, procVars
  <2>2. CASE PayMilestone(s)
    BY <2>2 DEF PayMilestone, ActivateMilestone
  <2> QED
    BY <2>1, <2>2 DEF DashStep
<1>6. rqQueue' = rqQueue /\ charges' = charges /\ paid' = paid
  BY <1>1
<1>7. Writes(api[s].job)
  BY <1>3, <1>4, <1>5, <1>6 DEF Writes
<1> QED
  BY <1>1, <1>2, <1>7

LEMMA ThreadWrites ==
  ASSUME Shape, NEW t \in Threads, Translate(t)
  PROVE  Writes(threads[t].job) /\ UNCHANGED <<rqQueue, paid>>
<1>1. UNCHANGED <<rqQueue, paid>>
  BY DEF Translate, ThreadBegin, ThreadPublishRead, ThreadPublishSet, ThreadPublishFails,
     ThreadRowProcessing, ThreadRun, ThreadRaises, ThreadRowFailed, ThreadRowPreview, ThreadSettle, ThreadSettleFails,
     ThreadBill, ThreadRowCompleted, ThreadRowFails, redisVars, ghostVars
<1>2. jobs' = jobs \/ \E row : jobs' = [jobs EXCEPT ![threads[t].job] = row]
  <2>1. CASE ThreadRowProcessing(t) \/ ThreadRowFailed(t) \/ ThreadRowPreview(t) \/ ThreadRowCompleted(t)
    BY <2>1 DEF ThreadRowProcessing, ThreadRowFailed, ThreadRowPreview, ThreadRowCompleted, UpdateRow, JobOf
  <2>2. CASE ~(ThreadRowProcessing(t) \/ ThreadRowFailed(t) \/ ThreadRowPreview(t) \/ ThreadRowCompleted(t))
    BY <2>2 DEF Translate, ThreadBegin, ThreadPublishRead, ThreadPublishSet, ThreadPublishFails, ThreadRun,
       ThreadRaises, ThreadSettle, ThreadSettleFails, ThreadBill, ThreadRowFails, tableVars
  <2> QED
    BY <2>1, <2>2
<1>3. snapshot' = snapshot \/ \E st : snapshot' = [snapshot EXCEPT ![threads[t].job] = st]
  BY DEF Translate, ThreadBegin, ThreadPublishRead, ThreadPublishSet, ThreadPublishFails,
     ThreadRowProcessing, ThreadRun, ThreadRaises, ThreadRowFailed, ThreadRowPreview, ThreadSettle, ThreadSettleFails,
     ThreadBill, ThreadRowCompleted, ThreadRowFails, redisVars, JobOf
<1>4. charges' = charges \/ \E n : charges' = [charges EXCEPT ![threads[t].job] = n]
  BY DEF Translate, ThreadBegin, ThreadPublishRead, ThreadPublishSet, ThreadPublishFails,
     ThreadRowProcessing, ThreadRun, ThreadRaises, ThreadRowFailed, ThreadRowPreview, ThreadSettle, ThreadSettleFails,
     ThreadBill, ThreadRowCompleted, ThreadRowFails, ghostVars, ChargeWords, JobOf
<1>5. memory' = memory \/ \E p, st : memory' = [memory EXCEPT ![p][threads[t].job] = st]
  BY DEF Translate, ThreadBegin, ThreadPublishRead, ThreadPublishSet, ThreadPublishFails,
     ThreadRowProcessing, ThreadRun, ThreadRaises, ThreadRowFailed, ThreadRowPreview, ThreadSettle, ThreadSettleFails,
     ThreadBill, ThreadRowCompleted, ThreadRowFails, Becomes, JobOf
<1> QED
  BY <1>1, <1>2, <1>3, <1>4, <1>5 DEF Writes

LEMMA HorseWrites ==
  ASSUME Shape, NEW h \in Horses, Process(h), ~RqTake(h)
  PROVE  Writes(horse[h].job) /\ ~HAt(h, "idle")
<1>1. UNCHANGED <<snapshot, memory, paid>>
  BY HorseLeaves
<1>2. ~HAt(h, "idle")
  BY DEF Process, ProcessLoad, ProcessMark, ProcessRun, ProcessRaises, ProcessCommit, CommitUnless,
     ProcessExcept, RetryOrFail, HorseDies, HAt
<1>3. jobs' = jobs \/ \E row : jobs' = [jobs EXCEPT ![horse[h].job] = row]
  <2>1. CASE ProcessExcept(h)
    <3>1. PICK j \in JobIds, old \in Row : j = horse[h].job /\ old = jobs[j]
      BY <1>2, Working
    <3>2. \/ jobs' = [jobs EXCEPT ![j].status = "pending", ![j].attempt = @ + 1]
          \/ jobs' = [jobs EXCEPT ![j].status = "failed"]
      BY <2>1, <3>1 DEF ProcessExcept, RetryOrFail
    <3>3. \/ jobs' = [jobs EXCEPT ![j] = [old EXCEPT !.status = "pending", !.attempt = old.attempt + 1]]
          \/ jobs' = [jobs EXCEPT ![j] = [old EXCEPT !.status = "failed"]]
      BY <3>1, <3>2 DEF Shape, DataOK, TablesOK
    <3> QED
      BY <3>1, <3>3
  <2>2. CASE ~ProcessExcept(h)
    BY <2>2 DEF Process, ProcessLoad, ProcessMark, ProcessRun, ProcessRaises, ProcessCommit, CommitUnless, HorseDies,
       tableVars
  <2> QED
    BY <2>1, <2>2
<1>4. rqQueue' = rqQueue \/ \E n : rqQueue' = [rqQueue EXCEPT ![horse[h].job] = n]
  BY DEF Process, ProcessLoad, ProcessMark, ProcessRun, ProcessRaises, ProcessCommit, CommitUnless,
     ProcessExcept, RetryOrFail, HorseDies, redisVars
<1>5. charges' = charges \/ \E n : charges' = [charges EXCEPT ![horse[h].job] = n]
  BY DEF Process, ProcessLoad, ProcessMark, ProcessRun, ProcessRaises, ProcessCommit, CommitUnless,
     ProcessExcept, RetryOrFail, HorseDies, ghostVars, ChargeWords
<1> QED
  BY <1>1, <1>2, <1>3, <1>4, <1>5 DEF Writes

-----------------------------------------------------------------------------
(* Uploads and the dashboard *)

\* The row of an upload remains one, of the same user and the same document.
RowKept(j) == /\ IsUpload(jobs'[j]) <=> IsUpload(jobs[j])
              /\ IsUpload(jobs[j]) => jobs'[j].user = jobs[j].user /\ jobs'[j].hash = jobs[j].hash
BlankAfter(j) == snapshot'[j] = NoState /\ \A p \in scenario.procs : memory'[p][j] = NoState

\* A step about one job, by one of its holders.
LEMMA KindsStep ==
  ASSUME Shape, KindsApart, PaidType', scenario' = scenario, NEW j,
         Others(j),
         j \in JobIds => /\ IsUpload(jobs[j]) => IsUpload(jobs'[j])
                         /\ IsUpload(jobs'[j]) => BlankAfter(j) /\ jobs'[j].status # "preview_ready"
                         /\ rqQueue'[j] > 0 => IsUpload(jobs'[j]),
         \A s \in Slots : api'[s] = api[s] => api[s].job # j \/ (RowKept(j) /\ ~At(s, "u_insert")),
         \A s \in Slots : api'[s] # api[s] => KindFits(api'[s], jobs'[api'[s].job], FALSE),
         \A s, k \in Slots : api'[s] # api[s] /\ k # s /\ At(k, "u_insert") => api'[s].job # api[k].job,
         \A h \in Horses : horse'[h] # horse[h] => horse'[h].pc = "idle" \/ (horse'[h].job \in JobIds /\ IsUpload(jobs[horse'[h].job])),
         \A t \in Threads : threads'[t] # threads[t] =>
           threads'[t].pc # "enqueue" \/ (threads'[t].job \in JobIds /\ IsUpload(jobs[threads'[t].job]))
  PROVE  KindsApart'
<1>1. \A k \in JobIds : IsUpload(jobs[k]) => IsUpload(jobs'[k])
  BY DEF Others
<1>2. \A k \in JobIds : Uploaded(k)' => Blank(k)' /\ jobs'[k].status # "preview_ready"
  <2> SUFFICES ASSUME NEW k \in JobIds, IsUpload(jobs'[k]) PROVE BlankAfter(k) /\ jobs'[k].status # "preview_ready"
    BY DEF Uploaded, Blank, BlankAfter
  <2>1. CASE k = j
    BY <2>1
  <2>2. CASE k # j
    <3>1. jobs'[k] = jobs[k] /\ snapshot'[k] = snapshot[k] /\ \A p \in scenario.procs : memory'[p][k] = memory[p][k]
      BY <2>2 DEF Others
    <3>2. IsUpload(jobs[k])
      BY <3>1
    <3>3. Blank(k) /\ jobs[k].status # "preview_ready"
      BY <3>2 DEF KindsApart, Uploaded
    <3> QED
      BY <3>1, <3>3 DEF Blank, BlankAfter
  <2> QED
    BY <2>1, <2>2
<1>3. \A s \in Slots : KindOf(api[s])'
  <2> TAKE s \in Slots
  <2>1. CASE api'[s] # api[s]
    BY <2>1 DEF KindOf, KindFits
  <2>2. CASE api'[s] = api[s]
    <3>1. PICK r : r = api[s]
      OBVIOUS
    <3>2. KindOf(r)
      BY <3>1 DEF KindsApart
    <3>3. r.pc \in DashPlaces \cup RowPlaces \cup {"u_insert"} => r.job \in JobIds
      BY <3>1, Served DEF At, Serving, DashPlaces, RowPlaces, UploadPlaces, Ops, DeepPlaces
    <3>4. CASE r.job = j
      <4>1. RowKept(j) /\ r.pc # "u_insert"
        BY <2>2, <3>1, <3>4 DEF At
      <4>2. KindFits(r, jobs'[r.job], FALSE)
        BY <3>2, <3>4, <4>1 DEF KindOf, KindFits, RowKept
      <4>3. KindFits(r, jobs'[r.job], FALSE) => KindOf(r)'
        BY DEF KindOf, KindFits
      <4> QED
        BY <2>2, <3>1, <4>2, <4>3
    <3>5. CASE r.job # j
      <4>1. r.job \in JobIds => /\ jobs'[r.job] = jobs[r.job] /\ snapshot'[r.job] = snapshot[r.job]
                                /\ charges'[r.job] = charges[r.job] /\ paid'[r.job] = paid[r.job]
                                /\ \A p \in scenario.procs : memory'[p][r.job] = memory[p][r.job]
        BY <3>5 DEF Others
      <4>2. KindOf(r)'
        BY <3>2, <3>3, <4>1 DEF KindOf, KindFits, IsNew, Blank
      <4> QED
        BY <2>2, <3>1, <4>2
    <3> QED
      BY <3>4, <3>5
  <2> QED
    BY <2>1, <2>2
<1>4. \A s, k \in Slots : At(s, "u_insert")' /\ k # s => api'[k].job # api'[s].job
  <2> SUFFICES ASSUME NEW s \in Slots, NEW k \in Slots, api'[s].pc = "u_insert", k # s PROVE api'[k].job # api'[s].job
    BY DEF At
  <2>1. api'[s] = api[s] /\ At(s, "u_insert")
    BY DEF At, KindFits
  <2>2. CASE api'[k] = api[k]
    BY <2>1, <2>2 DEF KindsApart
  <2>3. CASE api'[k] # api[k]
    BY <2>1, <2>3
  <2> QED
    BY <2>2, <2>3
<1>5. \A k \in JobIds : rqQueue'[k] > 0 => Uploaded(k)'
  <2> SUFFICES ASSUME NEW k \in JobIds, rqQueue'[k] > 0 PROVE IsUpload(jobs'[k])
    BY DEF Uploaded
  <2>1. CASE k = j
    BY <2>1
  <2>2. CASE k # j
    BY <2>2 DEF Others, KindsApart, Uploaded
  <2> QED
    BY <2>1, <2>2
<1>6. \A h \in Horses : horse'[h].pc # "idle" => IsUpload(jobs'[horse'[h].job])
  <2> SUFFICES ASSUME NEW h \in Horses, horse'[h].pc # "idle" PROVE IsUpload(jobs'[horse'[h].job])
    OBVIOUS
  <2>1. CASE horse'[h] = horse[h]
    <3>1. horse[h].job \in JobIds /\ IsUpload(jobs[horse[h].job])
      BY <2>1, Working DEF HAt, KindsApart, Uploaded
    <3> QED
      BY <1>1, <2>1, <3>1
  <2>2. CASE horse'[h] # horse[h]
    BY <1>1, <2>2
  <2> QED
    BY <2>1, <2>2
<1>7. \A t \in Threads : threads'[t].pc = "enqueue" => IsUpload(jobs'[threads'[t].job])
  <2> SUFFICES ASSUME NEW t \in Threads, threads'[t].pc = "enqueue" PROVE IsUpload(jobs'[threads'[t].job])
    OBVIOUS
  <2>1. CASE threads'[t] = threads[t]
    <3>1. threads[t].job \in JobIds
      BY <2>1 DEF Shape, ThreadsOK, ThreadFits, Translating, IdleThread, ThreadPlaces
    <3>2. IsUpload(jobs[threads[t].job])
      BY <2>1 DEF KindsApart, Uploaded
    <3> QED
      BY <1>1, <2>1, <3>1, <3>2
  <2>2. CASE threads'[t] # threads[t]
    BY <1>1, <2>2
  <2> QED
    BY <2>1, <2>2
<1> QED
  BY <1>2, <1>3, <1>4, <1>5, <1>6, <1>7 DEF KindsApart, Uploaded

\* With which request something begins, and what its job is.
BeginsWith(r, pc, j) ==
  \/ pc = "u_check" /\ r.op = "translate" /\ j = NoJob
  \/ pc = "upload" /\ r.op = "upload" /\ j \in Unused
  \/ pc = "restore" /\ r.op \in Ops /\ j \in JobIds /\ Known(j)
  \/ /\ pc = "credit" /\ r.op = "pay" /\ j \in JobIds /\ jobs[j] # NoRow /\ jobs[j].user = r.user
     /\ jobs[j].status = "awaiting_payment" \/ paid[j]

LEMMA AcceptIs ==
  ASSUME NEW s \in Slots, Accept(s)
  PROVE  \E pc : \E r \in scenario.requests : \E j : Begin(s, r, pc, j) /\ BeginsWith(r, pc, j)
<1> DEFINE Starts(pc) == \E r \in scenario.requests : \E j : Begin(s, r, pc, j) /\ BeginsWith(r, pc, j)
<1>1. EnqueueTranslate(s) => Starts("u_check")
  BY DEF EnqueueTranslate, Asked, BeginsWith
<1>2. Upload(s) => Starts("upload")
  BY FreshIdType DEF Upload, Asked, BeginsWith
<1>3. AskMilestone(s) => Starts("restore")
  BY DEF AskMilestone, BeginsWith, Ops
<1>4. Pay(s) => Starts("credit")
  BY DEF Pay, Asked, BeginsWith
<1> HIDE DEF Starts
<1>5. \E pc : Starts(pc)
  BY <1>1, <1>2, <1>3, <1>4 DEF Accept
<1> QED
  BY <1>5 DEF Starts

LEMMA FreshIsNew ==
  ASSUME Shape, NEW j \in Unused
  PROVE  /\ j \in JobIds /\ IsNew(j) /\ ~Uploaded(j) /\ rqQueue[j] = 0
         /\ \A s \in Slots : api[s].job # j
<1>1. j \in JobIds /\ IsNew(j)
  BY DEF Unused, IsNew, Blank, Shape, DataOK, MemoryOK
<1>2. ~(rqQueue[j] > 0) /\ rqQueue[j] \in Nat
  BY <1>1 DEF Shape, DataOK, RedisOK, IsNew
<1> QED
  BY <1>1, <1>2 DEF Unused, Uploaded, IsUpload, IsNew

LEMMA BeginIs ==
  ASSUME Shape, NEW s \in Slots, NEW r, NEW pc, NEW j, Begin(s, r, pc, j)
  PROVE  /\ \A k \in Slots \ {s} : api'[k] = api[k]
         /\ api'[s].pc = pc /\ api'[s].req = r /\ api'[s].job = j
         /\ api'[s].copy = NoState /\ api'[s].spawn = "none" /\ At(s, "idle")
         /\ UNCHANGED <<tableVars, redisVars, procVars, horse, ghostVars, scenario>>
BY DEF Begin, Shape, SlotsOK, IdleSlot

\* A step of request s that writes no data.
LEMMA KindsQuiet ==
  ASSUME Shape, KindsApart, NEW s \in Slots,
         UNCHANGED <<jobs, snapshot, memory, rqQueue, charges, paid, threads, horse, scenario>>,
         \A k \in Slots \ {s} : api'[k] = api[k],
         KindFits(api'[s], jobs[api'[s].job], FALSE),
         \A k \in Slots : k # s /\ At(k, "u_insert") => api'[s].job # api[k].job
  PROVE  KindsApart'
<1>1. Others(NoJob)
  BY DEF Others
<1>2. NoJob \notin JobIds
  BY StoreConstants DEF NoJob
<1>3. \A k \in Slots : api'[k] = api[k] => api[k].job # NoJob \/ (RowKept(NoJob) /\ ~At(k, "u_insert"))
  <2> TAKE k \in Slots
  <2>1. RowKept(NoJob)
    BY DEF RowKept
  <2>2. At(k, "u_insert") => api[k].job # NoJob
    BY <1>2, Served DEF At, Serving, UploadPlaces
  <2> QED
    BY <2>1, <2>2
<1>4. KindFits(api'[s], jobs'[api'[s].job], FALSE)
  OBVIOUS
<1> QED
  BY <1>1, <1>2, <1>3, <1>4, KindsStep DEF KindsApart, PaidType

LEMMA KindsAccept ==
  ASSUME Shape, KindsApart, NEW s \in Slots, Accept(s)
  PROVE  KindsApart'
<1>1. PICK pc, r, j : r \in scenario.requests /\ Begin(s, r, pc, j) /\ BeginsWith(r, pc, j)
  BY AcceptIs
<1>2. /\ \A k \in Slots \ {s} : api'[k] = api[k]
      /\ api'[s].pc = pc /\ api'[s].job = j
      /\ UNCHANGED <<jobs, snapshot, memory, rqQueue, charges, paid, threads, horse, scenario>>
  BY <1>1, BeginIs DEF tableVars, redisVars, procVars, ghostVars
<1>4. NoJob \notin JobIds
  BY StoreConstants DEF NoJob
<1>5. KindFits(api'[s], jobs[api'[s].job], FALSE)
  <2>1. pc \in DashPlaces => ~IsUpload(jobs[j])
    <3>1. pc = "upload" => ~IsUpload(jobs[j])
      BY <1>1, FreshIsNew DEF BeginsWith, Uploaded
    <3>2. pc = "restore" => ~IsUpload(jobs[j])
      <4> SUFFICES ASSUME j \in JobIds, Known(j), IsUpload(jobs[j]) PROVE FALSE
        BY <1>1 DEF BeginsWith
      <4>1. Blank(j)
        BY DEF KindsApart, Uploaded
      <4> QED
        BY <4>1 DEF Known, Blank, IsUpload, Shape, DataOK, MemoryOK
    <3> QED
      BY <1>1, <3>1, <3>2 DEF BeginsWith, DashPlaces, Ops, DeepPlaces
  <2> QED
    BY <1>1, <1>2, <2>1 DEF KindFits, BeginsWith, RowPlaces
<1>6. \A k \in Slots : k # s /\ At(k, "u_insert") => j # api[k].job
  <2> SUFFICES ASSUME NEW k \in Slots, At(k, "u_insert"), j = api[k].job PROVE FALSE
    OBVIOUS
  <2>1. j \in JobIds /\ IsNew(j)
    BY Served DEF At, Serving, UploadPlaces, KindsApart, KindOf, KindFits
  <2>2. ~Known(j)
    BY <2>1 DEF Known, IsNew, Blank, Shape, DataOK, MemoryOK
  <2> QED
    BY <1>1, <1>4, <2>1, <2>2, FreshIsNew DEF BeginsWith, IsNew
<1> QED
  BY <1>2, <1>5, <1>6, KindsQuiet

\* A step of request s about its job.
LEMMA KindsSlot ==
  ASSUME Shape, KindsApart, NEW s \in Slots, NEW j \in JobIds, api[s].job = j, Others(j),
         UNCHANGED <<horse, scenario>>, PaidType',
         \A k \in Slots \ {s} : api'[k] = api[k],
         api'[s] = IdleSlot \/ (api'[s].job = j /\ KindFits(api'[s], jobs'[j], FALSE)),
         RowKept(j) \/ (At(s, "u_insert") /\ IsUpload(jobs'[j])),
         IsUpload(jobs'[j]) => BlankAfter(j) /\ jobs'[j].status # "preview_ready",
         rqQueue'[j] > 0 => IsUpload(jobs'[j]),
         \A t \in Threads : threads'[t] # threads[t] =>
           threads'[t].pc # "enqueue" \/ (threads'[t].job = j /\ IsUpload(jobs[j]))
  PROVE  KindsApart'
<1>1. IsUpload(jobs[j]) => IsUpload(jobs'[j])
  BY DEF RowKept
<1>2. \A k \in Slots : At(k, "u_insert") => api[k].job \in JobIds
  BY Served DEF At, Serving, UploadPlaces
<1>3. NoJob \notin JobIds
  BY StoreConstants DEF NoJob
<1>4. KindFits(api'[s], jobs'[api'[s].job], FALSE)
  BY DEF KindFits, IdleSlot, DashPlaces, RowPlaces, Ops, DeepPlaces
<1>5. \A k \in Slots : k # s /\ At(k, "u_insert") => api[s].job # api[k].job /\ api'[s].job # api[k].job
  <2> SUFFICES ASSUME NEW k \in Slots, k # s, At(k, "u_insert")
               PROVE  api[s].job # api[k].job /\ api'[s].job # api[k].job
    OBVIOUS
  <2>1. api[s].job # api[k].job
    BY DEF KindsApart
  <2>2. api'[s].job = NoJob \/ api'[s].job = api[s].job
    <3>1. PICK q : q = api'[s]
      OBVIOUS
    <3>2. q = IdleSlot \/ q.job = j
      BY <3>1
    <3>3. IdleSlot.job = NoJob
      BY DEF IdleSlot
    <3> QED
      BY <3>1, <3>2, <3>3
  <2> QED
    BY <1>2, <1>3, <2>1, <2>2
<1>6. \A m, k \in Slots : api'[m] # api[m] /\ k # m /\ At(k, "u_insert") => api'[m].job # api[k].job
  BY <1>5
<1>7. \A m \in Slots : api'[m] # api[m] => KindFits(api'[m], jobs'[api'[m].job], FALSE)
  BY <1>4
<1>8. \A k \in Slots : api'[k] = api[k] => api[k].job # j \/ (RowKept(j) /\ ~At(k, "u_insert"))
  <2> SUFFICES ASSUME NEW k \in Slots, api'[k] = api[k], api[k].job = j PROVE RowKept(j) /\ ~At(k, "u_insert")
    OBVIOUS
  <2>1. CASE k = s
    <3>1. ~At(s, "u_insert")
      BY <1>4, <2>1 DEF KindFits, At
    <3> QED
      BY <2>1, <3>1
  <2>2. CASE k # s
    BY <1>5, <2>2 DEF KindsApart
  <2> QED
    BY <2>1, <2>2
<1>9. \A h \in Horses : horse'[h] # horse[h] =>
        horse'[h].pc = "idle" \/ (horse'[h].job \in JobIds /\ IsUpload(jobs[horse'[h].job]))
  OBVIOUS
<1>10. \A t \in Threads : threads'[t] # threads[t] =>
         threads'[t].pc # "enqueue" \/ (threads'[t].job \in JobIds /\ IsUpload(jobs[threads'[t].job]))
  OBVIOUS
<1>11. j \in JobIds => /\ IsUpload(jobs[j]) => IsUpload(jobs'[j])
                       /\ IsUpload(jobs'[j]) => BlankAfter(j) /\ jobs'[j].status # "preview_ready"
                       /\ rqQueue'[j] > 0 => IsUpload(jobs'[j])
  BY <1>1
<1> QED
  BY <1>6, <1>7, <1>8, <1>9, <1>10, <1>11, KindsStep

LEMMA KindsUpload ==
  ASSUME Shape, KindsApart, NEW s \in Slots, UploadStep(s)
  PROVE  KindsApart'
<1>1. api[s] \in Slot /\ Serving(api[s]) /\ ~At(s, "idle")
  BY Served DEF UploadStep, UploadCheck, UploadDuplicate, UploadCapacity, UploadFind, UploadInsert, UploadReset,
     UploadFail, At
<1>2. /\ \A k \in Slots \ {s} : api'[k] = api[k]
      /\ UNCHANGED <<rqQueue, snapshot, memory, charges, paid, threads, horse, scenario>>
  <2>1. UNCHANGED <<horse, threads, scenario>>
    BY DEF UploadStep, UploadCheck, UploadDuplicate, UploadCapacity, UploadFind, UploadInsert, UploadReset, UploadFail,
       procVars, countVars
  <2> QED
    BY <2>1, UploadAdvances, UploadWrites DEF Advances
<1>3. PICK j, r : j = api[s].job /\ r = api[s].req
  OBVIOUS
<1>4. \A k \in Slots : k # s /\ At(k, "u_insert") => api[s].job # api[k].job /\ api[k].job \in JobIds
  BY Served DEF At, Serving, UploadPlaces, KindsApart
<1>5. NoJob \notin JobIds
  BY StoreConstants DEF NoJob
<1>6. CASE UploadCheck(s) \/ UploadDuplicate(s) \/ UploadCapacity(s)
  <2>1. /\ UNCHANGED jobs
        /\ Answer(s) \/ Goto(s, "u_dup") \/ Goto(s, "u_capacity") \/ Goto(s, "u_find")
    BY <1>6 DEF UploadCheck, UploadDuplicate, UploadCapacity, tableVars
  <2>2. \/ api'[s] = IdleSlot
        \/ api'[s].pc \in UploadPlaces /\ api'[s].job = j
    BY <1>1, <1>3, <2>1 DEF Answer, Goto, Shape, SlotsOK, Slot, UploadPlaces
  <2>3. KindFits(api'[s], jobs[api'[s].job], FALSE)
    BY <2>2 DEF KindFits, IdleSlot, DashPlaces, RowPlaces, Ops, DeepPlaces, UploadPlaces
  <2>4. api'[s].job = NoJob \/ api'[s].job = api[s].job
    BY <1>3, <2>2 DEF IdleSlot
  <2> QED
    BY <1>2, <1>4, <1>5, <2>1, <2>3, <2>4, KindsQuiet
<1>7. CASE UploadFind(s)
  <2>1. UNCHANGED jobs /\ At(s, "u_find") /\ Of(s) = r
    BY <1>3, <1>7 DEF UploadFind, tableVars, Of
  <2>2. PICK failed : failed = RowsOf(r.user, r.doc, {"failed"})
    OBVIOUS
  <2>3. CASE failed # {}
    <3>1. PICK k \in failed : api' = [api EXCEPT ![s].pc = "u_reset", ![s].job = k]
      BY <1>7, <2>1, <2>2, <2>3 DEF UploadFind
    <3>2. api'[s].pc = "u_reset" /\ api'[s].job = k /\ api'[s].req = r
      BY <1>1, <1>3, <3>1 DEF Shape, SlotsOK, Slot
    <3>3. /\ k \in JobIds /\ jobs[k] # NoRow
          /\ IsUpload(jobs[k]) /\ jobs[k].user = r.user /\ jobs[k].hash = r.doc
      BY <2>2 DEF RowsOf, IsUpload
    <3>4. KindFits(api'[s], jobs[api'[s].job], FALSE)
      BY <3>2, <3>3 DEF KindFits, DashPlaces, Ops, DeepPlaces
    <3>5. \A m \in Slots : At(m, "u_insert") => api[m].job # k
      BY <3>3 DEF KindsApart, KindOf, KindFits, IsNew, At
    <3> QED
      BY <1>2, <2>1, <3>2, <3>4, <3>5, KindsQuiet
  <2>4. CASE failed = {}
    <3>1. Unused # {}
      BY <1>7, <2>1, <2>2, <2>4 DEF UploadFind
    <3>2. PICK k \in Unused : k = FreshId
      BY <3>1, FreshIdType
    <3>3. api' = [api EXCEPT ![s].pc = "u_insert", ![s].job = k]
      BY <1>7, <2>1, <2>2, <2>4, <3>2 DEF UploadFind
    <3>4. k \in JobIds /\ IsNew(k) /\ \A m \in Slots : api[m].job # k
      BY FreshIsNew
    <3>5. api'[s].pc = "u_insert" /\ api'[s].job = k
      BY <1>1, <3>3 DEF Shape, SlotsOK, Slot
    <3>6. IsNew(k)'
      BY <1>2, <2>1, <3>4 DEF IsNew, Blank
    <3>7. KindOf(api[s])'
      <4>1. PICK q : q = api'[s]
        OBVIOUS
      <4>2. KindOf(q)'
        BY <3>5, <3>6, <4>1 DEF KindOf, KindFits, DashPlaces, RowPlaces, Ops, DeepPlaces
      <4> QED
        BY <4>1, <4>2
    <3>8. \A m \in Slots : KindOf(api[m])'
      <4> TAKE m \in Slots
      <4>1. CASE m = s
        BY <3>7, <4>1
      <4>2. CASE m # s
        <5>1. PICK q : q = api[m]
          OBVIOUS
        <5>2. KindOf(q)
          BY <5>1 DEF KindsApart
        <5>3. KindOf(q)'
          BY <1>2, <2>1, <5>2 DEF KindOf, KindFits, IsNew, Blank
        <5> QED
          BY <1>2, <4>2, <5>1, <5>3
      <4> QED
        BY <4>1, <4>2
    <3>9. \A m, n \in Slots : At(m, "u_insert")' /\ n # m => api'[n].job # api'[m].job
      <4> SUFFICES ASSUME NEW m \in Slots, NEW n \in Slots, api'[m].pc = "u_insert", n # m
                   PROVE  api'[n].job # api'[m].job
        BY DEF At
      <4>1. CASE m = s \/ n = s
        BY <1>2, <3>4, <3>5, <4>1
      <4>2. CASE m # s /\ n # s
        BY <1>2, <4>2 DEF KindsApart, At
      <4> QED
        BY <4>1, <4>2
    <3> QED
      BY <1>2, <2>1, <3>8, <3>9 DEF KindsApart, Uploaded, Blank, PaidType
  <2> QED
    BY <2>3, <2>4
<1>8. CASE UploadInsert(s) \/ UploadReset(s) \/ UploadFail(s)
  <2>1. j \in JobIds /\ Others(j)
    <3>1. j \in JobIds
      BY <1>1, <1>3, <1>8 DEF Serving, UploadInsert, UploadReset, UploadFail, At, UploadPlaces
    <3>2. Writes(j)
      BY <1>3, UploadWrites
    <3> QED
      BY <3>1, <3>2, WritesOne DEF KindsApart
  <2>2. CASE UploadInsert(s)
    <3>1. PICK row : row = NewRow(r)
      OBVIOUS
    <3>2. At(s, "u_insert") /\ jobs' = [jobs EXCEPT ![j] = row] /\ (Answer(s) \/ Goto(s, "u_quota"))
      BY <1>3, <2>2, <3>1 DEF UploadInsert, Stored, Of
    <3>3. jobs'[j] = row /\ IsUpload(row) /\ row.status # "preview_ready" /\ row.user = r.user /\ row.hash = r.doc
      BY <2>1, <3>1, <3>2 DEF NewRow, NoRow, IsUpload, Shape, DataOK, TablesOK
    <3>4. IsNew(j)
      BY <1>3, <3>2 DEF KindsApart, KindOf, KindFits, At
    <3>5. BlankAfter(j)
      BY <1>2, <3>4 DEF IsNew, Blank, BlankAfter
    <3>6. api'[s] = IdleSlot \/ (api'[s].job = j /\ api'[s].pc = "u_quota" /\ api'[s].req = r)
      BY <1>1, <1>3, <3>2 DEF Answer, Goto, Shape, SlotsOK, Slot
    <3>7. api'[s] = IdleSlot \/ (api'[s].job = j /\ KindFits(api'[s], jobs'[j], FALSE))
      BY <3>3, <3>6 DEF KindFits, DashPlaces, Ops, DeepPlaces
    <3>8. PaidType'
      BY <1>2 DEF PaidType, KindsApart
    <3> QED
      BY <1>2, <1>3, <2>1, <3>2, <3>3, <3>5, <3>7, <3>8, KindsSlot
  <2>3. CASE UploadReset(s) \/ UploadFail(s)
    <3>1. api[s].pc \in RowPlaces
      BY <2>3 DEF UploadReset, UploadFail, At, RowPlaces
    <3>2. PICK old \in Row : old = jobs[j]
      BY <1>1, <1>3, <2>1, <3>1 DEF Serving, Shape, DataOK, TablesOK
    <3>3. IsUpload(old) /\ old.user = r.user /\ old.hash = r.doc
      BY <1>3, <3>1, <3>2 DEF KindsApart, KindOf, KindFits
    <3>4. \/ jobs' = [jobs EXCEPT ![j] = [old EXCEPT !.status = "pending", !.output = "none", !.attempt = 0, !.cost = 0]]
          \/ jobs' = [jobs EXCEPT ![j] = [old EXCEPT !.status = "failed"]]
      BY <1>3, <2>3, <3>2 DEF UploadReset, UploadFail, Shape, DataOK, TablesOK
    <3>5. PICK row : /\ jobs' = [jobs EXCEPT ![j] = row]
                     /\ \/ row = [old EXCEPT !.status = "pending", !.output = "none", !.attempt = 0, !.cost = 0]
                        \/ row = [old EXCEPT !.status = "failed"]
      BY <3>4
    <3>6. row # NoRow /\ row.user = old.user /\ row.hash = old.hash /\ row.path = old.path /\ row.status # "preview_ready"
      BY <3>5 DEF Row, NoRow
    <3>7. jobs'[j] = row /\ IsUpload(row)
      BY <2>1, <3>3, <3>5, <3>6 DEF IsUpload, Shape, DataOK, TablesOK
    <3>8. RowKept(j)
      BY <3>2, <3>3, <3>6, <3>7 DEF RowKept
    <3>9. Blank(j)
      BY <2>1, <3>2, <3>3 DEF KindsApart, Uploaded
    <3>10. BlankAfter(j)
      BY <1>2, <3>9 DEF Blank, BlankAfter
    <3>11. Answer(s) \/ Goto(s, "u_quota")
      BY <2>3 DEF UploadReset, UploadFail, Stored
    <3>12. api'[s] = IdleSlot \/ (api'[s].job = j /\ api'[s].pc = "u_quota" /\ api'[s].req = r)
      BY <1>1, <1>3, <3>11 DEF Answer, Goto, Shape, SlotsOK, Slot
    <3>13. api'[s] = IdleSlot \/ (api'[s].job = j /\ KindFits(api'[s], jobs'[j], FALSE))
      BY <3>3, <3>6, <3>7, <3>12 DEF KindFits, DashPlaces, Ops, DeepPlaces
    <3>14. PaidType'
      BY <1>2 DEF PaidType, KindsApart
    <3> QED
      BY <1>2, <1>3, <2>1, <3>6, <3>7, <3>8, <3>10, <3>13, <3>14, KindsSlot
  <2> QED
    BY <1>8, <2>2, <2>3
<1> QED
  BY <1>6, <1>7, <1>8 DEF UploadStep

LEMMA KindsQuota ==
  ASSUME Shape, KindsApart, NEW s \in Slots, QuotaStep(s)
  PROVE  KindsApart'
<1>1. /\ ~At(s, "idle") /\ api[s].pc \in RowPlaces \cup {"pay_quota", "pay_refused", "dispatch"}
      /\ UNCHANGED <<horse, scenario>>
  BY DEF QuotaStep, UploadQuota, UploadRefused, UploadEnqueue, UploadEnqueueRaises, UploadRelease, PayQuota,
         PayRefused, PayDispatch, At, RowPlaces, countVars
<1>2. api[s] \in Slot /\ Serving(api[s])
  BY <1>1, Served
<1>3. PICK j, r : j = api[s].job /\ r = api[s].req
  OBVIOUS
<1>4. PICK row \in Row : row = jobs[j]
  BY <1>1, <1>2, <1>3 DEF Serving, RowPlaces, PayPlaces, UploadPlaces, Shape, DataOK, TablesOK
<1>5. j \in JobIds
  BY <1>1, <1>2, <1>3 DEF Serving, RowPlaces, UploadPlaces
<1>6. /\ Writes(j) /\ \A k \in Slots \ {s} : api'[k] = api[k]
      /\ UNCHANGED <<jobs, snapshot, memory, charges, paid>>
  BY <1>3, QuotaAdvances, QuotaWrites DEF Advances
<1>7. Others(j) /\ PaidType'
  BY <1>5, <1>6, WritesOne DEF KindsApart, PaidType
<1>8. RowKept(j)
  BY <1>6 DEF RowKept
<1>9. IsUpload(jobs'[j]) => BlankAfter(j) /\ jobs'[j].status # "preview_ready"
  BY <1>5, <1>6 DEF KindsApart, Uploaded, Blank, BlankAfter
<1>10. rqQueue'[j] > 0 => IsUpload(jobs'[j])
  <2>1. CASE rqQueue' = rqQueue
    BY <1>5, <1>6, <2>1 DEF KindsApart, Uploaded
  <2>2. CASE ~(rqQueue' = rqQueue)
    <3>1. api[s].pc \in RowPlaces
      BY <2>2 DEF QuotaStep, UploadQuota, UploadRefused, UploadEnqueue, UploadEnqueueRaises, UploadRelease, PayQuota,
         PayRefused, PayDispatch, At, RowPlaces, redisVars
    <3> QED
      BY <1>3, <1>6, <3>1 DEF KindsApart, KindOf, KindFits
  <2> QED
    BY <2>1, <2>2
<1>11. api'[s] = IdleSlot \/ (api'[s].job = j /\ KindFits(api'[s], jobs'[j], FALSE))
  <2>1. CASE Answer(s)
    BY <2>1 DEF Answer, Shape, SlotsOK
  <2>2. CASE ~Answer(s) /\ api[s].pc \in RowPlaces
    <3>1. Goto(s, "u_enqueue") \/ Goto(s, "u_refused") \/ Goto(s, "u_release") \/ Goto(s, "u_fail")
      BY <2>2 DEF QuotaStep, UploadQuota, UploadRefused, UploadEnqueue, UploadEnqueueRaises, UploadRelease, PayQuota,
         PayRefused, PayDispatch, At, RowPlaces, Reserve
    <3>2. api'[s].pc \in RowPlaces /\ api'[s].job = j /\ api'[s].req = r
      BY <1>2, <1>3, <3>1 DEF Goto, Shape, SlotsOK, Slot, RowPlaces
    <3>3. IsUpload(jobs[j]) /\ jobs[j].user = r.user /\ jobs[j].hash = r.doc
      BY <1>3, <2>2 DEF KindsApart, KindOf, KindFits
    <3> QED
      BY <1>6, <3>2, <3>3 DEF KindFits, RowPlaces, DashPlaces, Ops, DeepPlaces
  <2>3. CASE ~Answer(s) /\ api[s].pc \notin RowPlaces
    <3>1. PICK pc \in {"pay_refused", "dispatch", "restore"} :
            Goto(s, pc) /\ (pc = "restore" => jobs[j].path = "milestone")
      BY <1>3, <2>3 DEF QuotaStep, UploadQuota, UploadRefused, UploadEnqueue, UploadEnqueueRaises, UploadRelease, PayQuota,
         PayRefused, PayDispatch, At, RowPlaces, Reserve
    <3>2. api'[s].pc = pc /\ api'[s].job = j
      BY <1>2, <1>3, <3>1 DEF Goto, Shape, SlotsOK, Slot
    <3> QED
      BY <1>6, <3>1, <3>2 DEF KindFits, RowPlaces, DashPlaces, Ops, DeepPlaces, IsUpload
  <2> QED
    BY <2>1, <2>2, <2>3
<1>12. \A t \in Threads : threads'[t] # threads[t] =>
         threads'[t].pc # "enqueue" \/ (threads'[t].job = j /\ IsUpload(jobs[j]))
  <2>1. CASE threads' = threads
    BY <2>1
  <2>2. CASE threads' # threads
    <3>1. Spawn(s, "enqueue") /\ jobs[j].path # "milestone"
      BY <1>3, <2>2 DEF QuotaStep, UploadQuota, UploadRefused, UploadEnqueue, UploadEnqueueRaises, UploadRelease, PayQuota,
         PayRefused, PayDispatch, procVars
    <3>2. IsUpload(jobs[j])
      BY <1>4, <3>1, Distinct DEF IsUpload, Row
    <3>3. PICK q : q = Begun(s, "enqueue")
      OBVIOUS
    <3>4. q.job = j
      BY <1>3, <3>3 DEF Begun, IdleThread
    <3>5. PICK t \in Threads : threads' = [threads EXCEPT ![t] = q]
      BY <3>1, <3>3, SpawnIs
    <3> QED
      BY <3>2, <3>4, <3>5 DEF Shape, ThreadsOK
  <2> QED
    BY <2>1, <2>2
<1> QED
  BY <1>1, <1>3, <1>5, <1>6, <1>7, <1>8, <1>9, <1>10, <1>11, <1>12, KindsSlot

LEMMA KindsPay ==
  ASSUME Shape, KindsApart, NEW s \in Slots, PayStep(s)
  PROVE  KindsApart'
<1>1. /\ ~At(s, "idle") /\ api[s].pc \in PayPlaces
      /\ UNCHANGED <<horse, threads, scenario>>
  BY DEF PayStep, PayCredit, PayLoad, PayCommit, At, PayPlaces, procVars, countVars
<1>2. api[s] \in Slot /\ Serving(api[s])
  BY <1>1, Served
<1>3. PICK j : j = api[s].job
  OBVIOUS
<1>4. j \in JobIds
  BY <1>1, <1>2, <1>3 DEF Serving, PayPlaces, UploadPlaces
<1>5. PICK old \in Row : old = jobs[j]
  BY <1>1, <1>2, <1>3, <1>4 DEF Serving, Shape, DataOK, TablesOK
<1>6. Writes(j) /\ UNCHANGED <<rqQueue, snapshot, memory, charges>>
  BY <1>3, PayWrites
<1>7. Others(j) /\ PaidType'
  <2>1. paid' = paid \/ paid' = [paid EXCEPT ![j] = TRUE]
    BY <1>3 DEF PayStep, PayCredit, PayLoad, PayCommit, ghostVars
  <2> QED
    BY <1>4, <1>6, <2>1, WritesOne DEF KindsApart, PaidType
<1>8. jobs' = jobs \/ jobs' = [jobs EXCEPT ![j] = [old EXCEPT !.status = "pending", !.attempt = 0]]
  BY <1>3, <1>5 DEF PayStep, PayCredit, PayLoad, PayCommit, tableVars
<1>9. PICK row : row = jobs'[j]
  OBVIOUS
<1>10. row = old \/ row = [old EXCEPT !.status = "pending", !.attempt = 0]
  BY <1>4, <1>5, <1>8, <1>9 DEF Shape, DataOK, TablesOK
<1>11. /\ row # NoRow /\ row.path = old.path /\ row.user = old.user /\ row.hash = old.hash
       /\ row.status # "preview_ready" \/ row = old
  <2>1. CASE row = old
    BY <2>1, Distinct
  <2>2. CASE row = [old EXCEPT !.status = "pending", !.attempt = 0]
    BY <2>2 DEF Row, NoRow
  <2> QED
    BY <1>10, <2>1, <2>2
<1>12. RowKept(j)
  BY <1>5, <1>9, <1>11, Distinct DEF RowKept, IsUpload
<1>13. IsUpload(jobs'[j]) => BlankAfter(j) /\ jobs'[j].status # "preview_ready"
  <2> SUFFICES ASSUME IsUpload(jobs'[j]) PROVE BlankAfter(j) /\ row.status # "preview_ready"
    BY <1>9
  <2>1. Blank(j) /\ old.status # "preview_ready"
    BY <1>4, <1>5, <1>12 DEF KindsApart, Uploaded, RowKept
  <2> QED
    BY <1>1, <1>6, <1>11, <2>1 DEF Blank, BlankAfter
<1>14. rqQueue'[j] > 0 => IsUpload(jobs'[j])
  BY <1>4, <1>6, <1>12 DEF KindsApart, Uploaded, RowKept
<1>15. Answer(s) \/ Goto(s, "activate") \/ Goto(s, "pending") \/ Goto(s, "pay_quota")
  BY DEF PayStep, PayCredit, PayLoad, PayCommit
<1>16. \A k \in Slots \ {s} : api'[k] = api[k]
  BY <1>2, <1>15 DEF Answer, Goto, Shape, SlotsOK
<1>17. api'[s] = IdleSlot \/ (api'[s].job = j /\ api'[s].pc \in {"activate", "pending", "pay_quota"})
  BY <1>2, <1>3, <1>15 DEF Answer, Goto, Shape, SlotsOK, Slot
<1>18. api'[s] = IdleSlot \/ (api'[s].job = j /\ KindFits(api'[s], jobs'[j], FALSE))
  BY <1>17 DEF KindFits, RowPlaces, DashPlaces, Ops, DeepPlaces
<1> QED
  BY <1>1, <1>3, <1>4, <1>7, <1>12, <1>13, <1>14, <1>16, <1>18, KindsSlot

\* A request of the dashboard is about one of its jobs, and remains so.
LEMMA DashApart ==
  ASSUME Shape, KindsApart, NEW s \in Slots, DashStep(s)
  PROVE  \E j \in JobIds :
           /\ j = api[s].job /\ ~IsUpload(jobs[j]) /\ ~IsUpload(jobs'[j])
           /\ Others(j) /\ PaidType' /\ UNCHANGED <<rqQueue, charges, paid, horse, scenario>>
           /\ api'[s] = IdleSlot \/ (api'[s].job = j /\ api'[s].req = api[s].req /\ api'[s].pc \in DashPlaces)
           /\ \A k \in Slots \ {s} : api'[k] = api[k]
           /\ \A t \in Threads : threads'[t] # threads[t] => threads'[t].pc # "enqueue"
<1>1. ~At(s, "idle") /\ api[s].pc \in DashPlaces
  BY DEF DashStep, Dashboard, StoreUpload, Restore, EstimateCheck, EstimateStore, Start, ConfirmCheck, ConfirmBill,
         ConfirmAwait, ConfirmQueue, PreviewCheck, PreviewQuota, PreviewQueue, Poll, SyncRead, SyncWrite, PublishRead,
         PublishSet, SpawnThread, PayMilestone, ActivateMilestone, At, DashPlaces, Ops, DeepPlaces
<1>2. UNCHANGED <<horse, scenario>>
  BY DEF DashStep, Dashboard, StoreUpload, Restore, EstimateCheck, EstimateStore, Start, ConfirmCheck, ConfirmBill,
         ConfirmAwait, ConfirmQueue, PreviewCheck, PreviewQuota, PreviewQueue, Poll, SyncRead, SyncWrite, PublishRead,
         PublishSet, SpawnThread, PayMilestone, ActivateMilestone, countVars
<1>3. PICK j : j = api[s].job
  OBVIOUS
<1>4. j \in JobIds /\ ~IsUpload(jobs[j])
  BY <1>1, <1>3, Served DEF Serving, DashPlaces, UploadPlaces, Ops, DeepPlaces, KindsApart, KindOf, KindFits
<1>5. Writes(j) /\ UNCHANGED <<rqQueue, charges, paid>> /\ (SyncWrite(s) \/ UNCHANGED jobs)
  BY <1>3, DashWrites
<1>6. Others(j) /\ PaidType'
  BY <1>4, <1>5, WritesOne DEF KindsApart, PaidType
<1>7. ~IsUpload(jobs'[j])
  <2>1. CASE UNCHANGED jobs
    BY <1>4, <2>1
  <2>2. CASE SyncWrite(s) /\ ~UNCHANGED jobs
    <3>1. PICK old, st, u : old = jobs[j] /\ st = api[s].copy /\ u = Of(s).user
      OBVIOUS
    <3>2. PICK row : row = SyncedRow(old, st, u)
      OBVIOUS
    <3>3. jobs' = [jobs EXCEPT ![j] = row]
      BY <1>3, <2>2, <3>1, <3>2 DEF SyncWrite
    <3>4. row.path = "milestone" /\ jobs'[j] = row
      BY <1>4, <3>2, <3>3 DEF SyncedRow, Shape, DataOK, TablesOK
    <3> QED
      BY <3>4 DEF IsUpload
  <2> QED
    BY <1>5, <2>1, <2>2
<1>8. \E pc \in DashPlaces : InPlace(s, pc)
  <2>1. CASE Restore(s)
    <3>1. api[s].req.op \in Ops \cup {"pay"} /\ Goto(s, api[s].req.op)
      BY <2>1, Served DEF Restore, At, Of, Serving, Serves
    <3> QED
      BY <3>1 DEF InPlace, DashPlaces
  <2>2. CASE ~Restore(s)
    BY <2>2 DEF DashStep, Dashboard, StoreUpload, EstimateCheck, EstimateStore, Start, ConfirmCheck, ConfirmBill,
         ConfirmAwait, ConfirmQueue, PreviewCheck, PreviewQuota, PreviewQueue, Poll, SyncRead, SyncWrite, PublishRead,
         PublishSet, SpawnThread, PayMilestone, ActivateMilestone, InPlace, DashPlaces, Ops, DeepPlaces, Commits
  <2> QED
    BY <2>1, <2>2
<1>9. OtherStep(s)
  BY DEF DashStep, OtherStep
<1>10. PICK pc \in DashPlaces : InPlace(s, pc)
  BY <1>8
<1>11. \A k \in Slots \ {s} : api'[k] = api[k]
  BY <1>9, OtherAdvances DEF Advances
<1>12. api'[s] = IdleSlot \/ (api'[s].job = j /\ api'[s].req = api[s].req /\ api'[s].pc = pc)
  BY <1>3, <1>10 DEF InPlace, Answer, Goto, Shape, SlotsOK, Slot
<1>13. \A t \in Threads : threads'[t] # threads[t] => threads'[t].pc # "enqueue"
  <2>1. CASE threads' = threads
    BY <2>1
  <2>2. CASE threads' # threads
    <3>1. SpawnThread(s)
      BY <2>2 DEF DashStep, Dashboard, StoreUpload, Restore, EstimateCheck, EstimateStore, Start, ConfirmCheck, ConfirmBill,
         ConfirmAwait, ConfirmQueue, PreviewCheck, PreviewQuota, PreviewQueue, Poll, SyncRead, SyncWrite, PublishRead,
         PublishSet, PayMilestone, ActivateMilestone, procVars
    <3>2. PICK kind, q : kind = api[s].spawn /\ q = Begun(s, kind)
      OBVIOUS
    <3>3. kind \in Kinds
      BY <1>1, <3>2, Served DEF Slot
    <3>4. q.pc = "begin"
      BY <3>2, <3>3 DEF Begun, IdleThread, Kinds
    <3>5. PICK t \in Threads : threads' = [threads EXCEPT ![t] = q]
      BY <3>1, <3>2, SpawnIs DEF SpawnThread
    <3> QED
      BY <3>4, <3>5 DEF Shape, ThreadsOK
  <2> QED
    BY <2>1, <2>2
<1> QED
  BY <1>2, <1>3, <1>4, <1>5, <1>6, <1>7, <1>10, <1>11, <1>12, <1>13

LEMMA KindsDash ==
  ASSUME Shape, KindsApart, NEW s \in Slots, DashStep(s)
  PROVE  KindsApart'
<1>1. PICK j \in JobIds :
        /\ j = api[s].job /\ ~IsUpload(jobs[j]) /\ ~IsUpload(jobs'[j])
        /\ Others(j) /\ PaidType' /\ UNCHANGED <<rqQueue, charges, paid, horse, scenario>>
        /\ api'[s] = IdleSlot \/ (api'[s].job = j /\ api'[s].req = api[s].req /\ api'[s].pc \in DashPlaces)
        /\ \A k \in Slots \ {s} : api'[k] = api[k]
        /\ \A t \in Threads : threads'[t] # threads[t] => threads'[t].pc # "enqueue"
  BY DashApart
<1>2. RowKept(j) /\ ~(rqQueue'[j] > 0)
  BY <1>1 DEF RowKept, KindsApart, Uploaded
<1>3. api'[s] = IdleSlot \/ (api'[s].job = j /\ KindFits(api'[s], jobs'[j], FALSE))
  BY <1>1 DEF KindFits, RowPlaces, DashPlaces, Ops, DeepPlaces
<1> QED
  BY <1>1, <1>2, <1>3, KindsSlot

\* A translation is about a job of the dashboard, and remains so.
LEMMA TranslateApart ==
  ASSUME Shape, KindsApart, NEW t \in Threads, Translate(t)
  PROVE  \E j \in JobIds :
           /\ j = threads[t].job /\ ~IsUpload(jobs[j]) /\ ~IsUpload(jobs'[j]) /\ ~Blank(j)
           /\ Others(j) /\ PaidType' /\ UNCHANGED <<rqQueue, paid, api, horse, scenario>>
           /\ \A d \in Threads : threads'[d] # threads[d] => threads'[d].pc # "enqueue"
<1>1. threads[t].pc \in ThreadPlaces /\ UNCHANGED <<api, horse, scenario>>
  BY DEF Translate, ThreadBegin, ThreadPublishRead, ThreadPublishSet, ThreadPublishFails,
     ThreadRowProcessing, ThreadRun, ThreadRaises, ThreadRowFailed, ThreadRowPreview, ThreadSettle, ThreadSettleFails,
     ThreadBill, ThreadRowCompleted, ThreadRowFails, TAt, ThreadPlaces, countVars, noFault
<1>2. PICK j \in JobIds, st \in State : j = JobOf(t) /\ st = Held(t)
  BY <1>1, Running DEF JobOf
<1>3. threads[t].proc \in scenario.procs /\ memory[threads[t].proc][j] # NoState /\ threads[t].job = j
  BY <1>1, <1>2, Running, Distinct DEF Held, JobOf
<1>4. ~Blank(j)
  BY <1>3 DEF Blank
<1>5. ~IsUpload(jobs[j])
  BY <1>2, <1>4 DEF KindsApart, Uploaded
<1>6. Writes(j) /\ UNCHANGED <<rqQueue, paid>>
  BY <1>3, ThreadWrites
<1>7. Others(j) /\ PaidType'
  BY <1>2, <1>6, WritesOne DEF KindsApart, PaidType
<1>8. ~IsUpload(jobs'[j])
  <2>1. CASE UNCHANGED jobs
    BY <1>5, <2>1
  <2>2. CASE ~UNCHANGED jobs
    <3>1. PICK status, output, cost : UpdateRow(t, status, output, cost)
      BY <2>2 DEF Translate, ThreadBegin, ThreadPublishRead, ThreadPublishSet, ThreadPublishFails,
     ThreadRowProcessing, ThreadRun, ThreadRaises, ThreadRowFailed, ThreadRowPreview, ThreadSettle, ThreadSettleFails,
     ThreadBill, ThreadRowCompleted, ThreadRowFails, tableVars
    <3>2. PICK row : row = IF jobs[j] # NoRow THEN jobs[j]
                           ELSE [SyncedRow(NoRow, st, st.user) EXCEPT !.quote = 0]
      OBVIOUS
    <3>3. PICK new : new = [row EXCEPT !.status = status, !.output = IF output = "none" THEN @ ELSE output,
                                       !.cost = cost]
      OBVIOUS
    <3>4. jobs' = jobs \/ jobs' = [jobs EXCEPT ![j] = new]
      BY <1>2, <3>1, <3>2, <3>3 DEF UpdateRow
    <3>5. row.path # "jobs"
      <4>1. CASE jobs[j] # NoRow
        BY <1>5, <3>2, <4>1 DEF IsUpload
      <4>2. CASE jobs[j] = NoRow
        BY <3>2, <4>2 DEF SyncedRow
      <4> QED
        BY <4>1, <4>2
    <3>6. new.path = row.path
      <4>1. CASE jobs[j] # NoRow
        BY <1>2, <3>2, <3>3, <4>1 DEF Shape, DataOK, TablesOK, Row
      <4>2. CASE jobs[j] = NoRow
        BY <3>2, <3>3, <4>2 DEF SyncedRow
      <4> QED
        BY <4>1, <4>2
    <3>7. jobs'[j] = new
      BY <1>2, <2>2, <3>4 DEF Shape, DataOK, TablesOK
    <3> QED
      BY <3>5, <3>6, <3>7 DEF IsUpload
  <2> QED
    BY <2>1, <2>2
<1>9. \A d \in Threads : threads'[d] # threads[d] => threads'[d].pc # "enqueue"
  <2>1. \A d \in Threads : threads'[d] # threads[d] => d = t
    BY ThreadContinues DEF Continues
  <2>2. threads'[t].pc # "enqueue"
    <3>1. threads[t].after # "enqueue"
      BY <1>1, Running DEF Thread
    <3>2. \/ \E pc \in ThreadPlaces : TGoto(t, pc)
          \/ \E after : Publishes(t, after)
          \/ Ends(t, threads[t].after)
          \/ \E cell : threads' = [threads EXCEPT ![t].pc = "set", ![t].copy = cell]
          \/ \E cost : threads' = [threads EXCEPT ![t].pc = "bill", ![t].cost = cost]
      BY DEF Translate, ThreadBegin, ThreadPublishRead, ThreadPublishSet, ThreadPublishFails,
     ThreadRowProcessing, ThreadRun, ThreadRaises, ThreadRowFailed, ThreadRowPreview, ThreadSettle, ThreadSettleFails,
     ThreadBill, ThreadRowCompleted, ThreadRowFails, ThreadPlaces
    <3>3. threads \in [Threads -> Thread]
      BY DEF Shape, ThreadsOK
    <3>4. ASSUME NEW pc \in ThreadPlaces, TGoto(t, pc) PROVE threads'[t].pc # "enqueue"
      BY <3>3, <3>4 DEF TGoto, Thread, ThreadPlaces
    <3>5. ASSUME NEW after, Publishes(t, after) PROVE threads'[t].pc # "enqueue"
      BY <3>3, <3>5 DEF Publishes, Thread
    <3>6. CASE Ends(t, threads[t].after)
      BY <3>1, <3>3, <3>6 DEF Ends, Thread, IdleThread
    <3>7. ASSUME NEW cell, threads' = [threads EXCEPT ![t].pc = "set", ![t].copy = cell] PROVE threads'[t].pc # "enqueue"
      BY <3>3, <3>7 DEF Thread
    <3>8. ASSUME NEW cost, threads' = [threads EXCEPT ![t].pc = "bill", ![t].cost = cost] PROVE threads'[t].pc # "enqueue"
      BY <3>3, <3>8 DEF Thread
    <3> QED
      BY <3>2, <3>4, <3>5, <3>6, <3>7, <3>8
  <2> QED
    BY <2>1, <2>2
<1> QED
  BY <1>1, <1>2, <1>3, <1>4, <1>5, <1>6, <1>7, <1>8, <1>9

LEMMA KindsTranslate ==
  ASSUME Shape, KindsApart, NEW t \in Threads, Translate(t)
  PROVE  KindsApart'
<1>1. PICK j \in JobIds :
        /\ j = threads[t].job /\ ~IsUpload(jobs[j]) /\ ~IsUpload(jobs'[j]) /\ ~Blank(j)
        /\ Others(j) /\ PaidType' /\ UNCHANGED <<rqQueue, paid, api, horse, scenario>>
        /\ \A d \in Threads : threads'[d] # threads[d] => threads'[d].pc # "enqueue"
  BY TranslateApart
<1>2. RowKept(j) /\ ~(rqQueue'[j] > 0)
  BY <1>1 DEF RowKept, KindsApart, Uploaded
<1>3. \A s \in Slots : At(s, "u_insert") => api[s].job # j
  BY <1>1 DEF KindsApart, KindOf, KindFits, IsNew, At
<1>4. /\ \A s \in Slots : api'[s] = api[s] => api[s].job # j \/ (RowKept(j) /\ ~At(s, "u_insert"))
      /\ \A s \in Slots : api'[s] = api[s]
      /\ \A h \in Horses : horse'[h] = horse[h]
  BY <1>1, <1>2, <1>3
<1> QED
  BY <1>1, <1>2, <1>4, KindsStep

\* A daemon thread puts its job on a list.
LEMMA Enqueuing ==
  ASSUME Shape, NEW t \in Threads, EnqueueThread(t)
  PROVE  \E j \in JobIds : /\ j = threads[t].job /\ jobs[j] # NoRow /\ TAt(t, "enqueue")
                           /\ threads' = [threads EXCEPT ![t] = IdleThread]
                           /\ rqQueue' = rqQueue \/ rqQueue' = [rqQueue EXCEPT ![j] = @ + 1]
                           /\ UNCHANGED <<tableVars, quota, snapshot, memory, api, horse, paid, charges, scenario, raced>>
<1>1. TAt(t, "enqueue") /\ threads[t] # IdleThread /\ threads[t].pc \notin ThreadPlaces
  BY DEF EnqueueThread, TAt, IdleThread, ThreadPlaces
<1>2. threads[t].job \in JobIds /\ jobs[threads[t].job] # NoRow
  BY <1>1 DEF Shape, ThreadsOK, ThreadFits, Translating
<1> QED
  BY <1>1, <1>2 DEF EnqueueThread, ghostVars, noFault

LEMMA KindsEnqueue ==
  ASSUME Shape, KindsApart, NEW t \in Threads, EnqueueThread(t)
  PROVE  KindsApart'
<1>1. PICK j \in JobIds : /\ j = threads[t].job /\ jobs[j] # NoRow /\ TAt(t, "enqueue")
                          /\ threads' = [threads EXCEPT ![t] = IdleThread]
                          /\ rqQueue' = rqQueue \/ rqQueue' = [rqQueue EXCEPT ![j] = @ + 1]
                          /\ UNCHANGED <<tableVars, quota, snapshot, memory, api, horse, paid, charges, scenario, raced>>
  BY Enqueuing
<1>2. UNCHANGED <<jobs, snapshot, memory, charges, paid, api, horse, scenario>>
  BY <1>1 DEF tableVars
<1>3. IsUpload(jobs[j])
  BY <1>1 DEF KindsApart, Uploaded, TAt
<1>4. PaidType /\ PaidType'
  BY <1>1 DEF KindsApart, PaidType
<1>5. Others(j)
  BY <1>1, <1>2 DEF Others, Shape, DataOK, RedisOK
<1>6. RowKept(j) /\ IsUpload(jobs'[j])
  BY <1>2, <1>3 DEF RowKept
<1>7. BlankAfter(j) /\ jobs'[j].status # "preview_ready"
  BY <1>2, <1>3 DEF KindsApart, Uploaded, Blank, BlankAfter
<1>8. \A s \in Slots : At(s, "u_insert") => api[s].job # j
  BY <1>1 DEF KindsApart, KindOf, KindFits, IsNew, At
<1>9. \A d \in Threads : threads'[d] # threads[d] => threads'[d].pc # "enqueue"
  BY <1>1 DEF Shape, ThreadsOK, IdleThread
<1>10. /\ \A s \in Slots : api'[s] = api[s] => api[s].job # j \/ (RowKept(j) /\ ~At(s, "u_insert"))
       /\ \A s \in Slots : api'[s] = api[s]
       /\ \A h \in Horses : horse'[h] = horse[h]
  BY <1>2, <1>6, <1>8
<1> QED
  BY <1>2, <1>4, <1>5, <1>6, <1>7, <1>9, <1>10, KindsStep

\* What a work horse makes of the row of its job.
Worked(old, row) ==
  \/ row = old
  \/ row = [old EXCEPT !.status = "processing"]
  \/ row = [old EXCEPT !.status = "failed"]
  \/ row = [old EXCEPT !.status = "pending", !.attempt = old.attempt + 1]
  \/ \E cost : row = [old EXCEPT !.status = "completed", !.output = "full", !.cost = cost]

LEMMA HorseRow ==
  ASSUME Shape, NEW h \in Horses, Process(h), ~RqTake(h), NEW j, j = horse[h].job
  PROVE  /\ jobs[j] \in Row /\ Worked(jobs[j], jobs'[j])
         /\ ProcessMark(h) => jobs'[j] = [jobs[j] EXCEPT !.status = "processing"]
         /\ ~ProcessMark(h) /\ ~ProcessCommit(h) /\ ~ProcessExcept(h) => jobs'[j] = jobs[j]
<1>1. ~HAt(h, "idle")
  BY HorseWrites
<1>2. PICK old \in Row : old = jobs[j] /\ j \in JobIds
  BY <1>1, Working
<1>3. jobs \in [JobIds -> Row \cup {NoRow}]
  BY DEF Shape, DataOK, TablesOK
<1>4. CASE ProcessMark(h)
  <2>1. jobs' = [jobs EXCEPT ![j] = [old EXCEPT !.status = "processing"]]
    BY <1>2, <1>3, <1>4 DEF ProcessMark
  <2> QED
    BY <1>2, <1>3, <1>4, <2>1 DEF Worked
<1>5. CASE ProcessCommit(h) /\ ~ProcessMark(h)
  <2>1. jobs' = jobs \/ \E cost : jobs' = [jobs EXCEPT ![j] = [old EXCEPT !.status = "completed", !.output = "full", !.cost = cost]]
    BY <1>2, <1>3, <1>5 DEF ProcessCommit, CommitUnless
  <2>2. CASE jobs' = jobs
    BY <1>2, <1>5, <2>2 DEF Worked
  <2>3. ASSUME NEW cost, jobs' = [jobs EXCEPT ![j] = [old EXCEPT !.status = "completed", !.output = "full", !.cost = cost]]
        PROVE  Worked(jobs[j], jobs'[j])
    BY <1>2, <1>3, <2>3 DEF Worked
  <2> QED
    BY <1>2, <1>5, <2>1, <2>2, <2>3
<1>6. CASE ProcessExcept(h) /\ ~ProcessMark(h)
  <2>1. \/ jobs' = [jobs EXCEPT ![j].status = "pending", ![j].attempt = @ + 1]
        \/ jobs' = [jobs EXCEPT ![j].status = "failed"]
    BY <1>2, <1>6 DEF ProcessExcept, RetryOrFail
  <2>2. \/ jobs'[j] = [old EXCEPT !.status = "pending", !.attempt = old.attempt + 1]
        \/ jobs'[j] = [old EXCEPT !.status = "failed"]
    BY <1>2, <1>3, <2>1
  <2> QED
    BY <1>2, <1>6, <2>2 DEF Worked
<1>7. CASE ~ProcessMark(h) /\ ~ProcessCommit(h) /\ ~ProcessExcept(h)
  <2>1. UNCHANGED jobs
    BY <1>7 DEF Process, ProcessLoad, ProcessRun, ProcessRaises, HorseDies, tableVars
  <2> QED
    BY <1>2, <1>7, <2>1 DEF Worked
<1> QED
  BY <1>4, <1>5, <1>6, <1>7

LEMMA WorkedRow ==
  ASSUME NEW old \in Row, NEW row, Worked(old, row)
  PROVE  /\ row # NoRow /\ row.user = old.user /\ row.hash = old.hash /\ row.path = old.path
         /\ row.quote = old.quote
         /\ row.status # "preview_ready" \/ row.status = old.status
<1>1. CASE row = old
  BY <1>1, Distinct
<1>2. CASE row = [old EXCEPT !.status = "processing"]
  BY <1>2 DEF Row, NoRow
<1>3. CASE row = [old EXCEPT !.status = "failed"]
  BY <1>3 DEF Row, NoRow
<1>4. CASE row = [old EXCEPT !.status = "pending", !.attempt = old.attempt + 1]
  BY <1>4 DEF Row, NoRow
<1>5. ASSUME NEW cost, row = [old EXCEPT !.status = "completed", !.output = "full", !.cost = cost]
      PROVE  /\ row # NoRow /\ row.user = old.user /\ row.hash = old.hash /\ row.path = old.path
             /\ row.quote = old.quote /\ row.status # "preview_ready"
  BY <1>5 DEF Row, NoRow
<1> QED
  BY <1>1, <1>2, <1>3, <1>4, <1>5 DEF Worked

LEMMA KindsProcess ==
  ASSUME Shape, KindsApart, NEW h \in Horses, Process(h)
  PROVE  KindsApart'
<1>1. UNCHANGED <<api, threads, memory, snapshot, scenario, paid>>
  BY HorseLeaves
<1>2. PaidType /\ PaidType'
  BY <1>1 DEF KindsApart, PaidType
<1>3. CASE RqTake(h)
  <2>1. PICK j \in JobIds : /\ rqQueue[j] > 0
                            /\ rqQueue' = [rqQueue EXCEPT ![j] = @ - 1]
                            /\ horse' = [horse EXCEPT ![h] = [pc |-> "load", job |-> j]]
                            /\ UNCHANGED <<jobs, charges>>
    BY <1>3 DEF RqTake, tableVars, ghostVars
  <2>2. IsUpload(jobs[j]) /\ jobs[j] # NoRow
    BY <2>1 DEF KindsApart, Uploaded, IsUpload
  <2>3. Others(j)
    BY <1>1, <2>1 DEF Others, Shape, DataOK, RedisOK
  <2>4. RowKept(j) /\ IsUpload(jobs'[j])
    BY <2>1, <2>2 DEF RowKept
  <2>5. BlankAfter(j) /\ jobs'[j].status # "preview_ready"
    BY <1>1, <2>1, <2>2 DEF KindsApart, Uploaded, Blank, BlankAfter
  <2>6. \A s \in Slots : At(s, "u_insert") => api[s].job # j
    BY <2>2 DEF KindsApart, KindOf, KindFits, IsNew, At
  <2>7. \A k \in Horses : horse'[k] # horse[k] =>
          horse'[k].pc = "idle" \/ (horse'[k].job \in JobIds /\ IsUpload(jobs[horse'[k].job]))
    BY <2>1, <2>2 DEF Shape, HorsesOK
  <2>8. /\ \A s \in Slots : api'[s] = api[s] => api[s].job # j \/ (RowKept(j) /\ ~At(s, "u_insert"))
        /\ \A s \in Slots : api'[s] = api[s]
        /\ \A t \in Threads : threads'[t] = threads[t]
    BY <1>1, <2>4, <2>6
  <2> QED
    BY <1>1, <1>2, <2>3, <2>4, <2>5, <2>7, <2>8, KindsStep
<1>4. CASE ~RqTake(h)
  <2>1. PICK j : j = horse[h].job
    OBVIOUS
  <2>2. ~HAt(h, "idle") /\ Writes(j)
    BY <1>4, <2>1, HorseWrites
  <2>3. j \in JobIds /\ IsUpload(jobs[j])
    BY <2>1, <2>2, Working DEF KindsApart, Uploaded, HAt
  <2>4. PICK old \in Row : old = jobs[j] /\ Worked(old, jobs'[j])
    BY <1>4, <2>1, HorseRow
  <2>5. PICK row : row = jobs'[j]
    OBVIOUS
  <2>6. /\ row # NoRow /\ row.user = old.user /\ row.hash = old.hash /\ row.path = old.path
        /\ row.status # "preview_ready" \/ row.status = old.status
    BY <2>4, <2>5, WorkedRow
  <2>7. RowKept(j) /\ IsUpload(jobs'[j])
    BY <2>3, <2>4, <2>5, <2>6 DEF RowKept, IsUpload
  <2>8. BlankAfter(j) /\ jobs'[j].status # "preview_ready"
    <3>1. Blank(j) /\ old.status # "preview_ready"
      BY <2>3, <2>4 DEF KindsApart, Uploaded
    <3> QED
      BY <1>1, <2>5, <2>6, <3>1 DEF Blank, BlankAfter
  <2>9. Others(j)
    BY <1>2, <2>2, <2>3, WritesOne
  <2>10. \A s \in Slots : At(s, "u_insert") => api[s].job # j
    BY <2>3 DEF KindsApart, KindOf, KindFits, IsNew, At, IsUpload
  <2>11. \A k \in Horses : horse'[k] # horse[k] =>
          horse'[k].pc = "idle" \/ (horse'[k].job \in JobIds /\ IsUpload(jobs[horse'[k].job]))
    <3>1. horse' = [horse EXCEPT ![h] = IdleHorse] \/ \E pc : horse' = [horse EXCEPT ![h].pc = pc]
      BY <1>4 DEF Process, ProcessLoad, ProcessMark, ProcessRun, ProcessRaises, ProcessCommit, CommitUnless,
         ProcessExcept, RetryOrFail, HorseDies, HDone, HGoto
    <3>2. horse = [k \in Horses |-> horse[k]] /\ horse[h] = [pc |-> horse[h].pc, job |-> j]
      BY <2>1, <2>2, Working DEF Shape, HorsesOK
    <3>3. CASE horse' = [horse EXCEPT ![h] = IdleHorse]
      BY <3>2, <3>3 DEF IdleHorse
    <3>4. ASSUME NEW pc, horse' = [horse EXCEPT ![h].pc = pc]
          PROVE  \A k \in Horses : horse'[k] # horse[k] =>
                   horse'[k].pc = "idle" \/ (horse'[k].job \in JobIds /\ IsUpload(jobs[horse'[k].job]))
      <4>1. PICK q : q = horse[h]
        OBVIOUS
      <4>2. PICK n : n = [q EXCEPT !.pc = pc]
        OBVIOUS
      <4>3. horse' = [horse EXCEPT ![h] = n]
        BY <3>2, <3>4, <4>1, <4>2
      <4>4. n.job = j
        BY <3>2, <4>1, <4>2
      <4> QED
        BY <2>3, <3>2, <4>3, <4>4
    <3> QED
      BY <3>1, <3>3, <3>4
  <2>12. /\ \A s \in Slots : api'[s] = api[s] => api[s].job # j \/ (RowKept(j) /\ ~At(s, "u_insert"))
         /\ \A s \in Slots : api'[s] = api[s]
         /\ \A t \in Threads : threads'[t] = threads[t]
    BY <1>1, <2>7, <2>10
  <2> QED
    BY <1>1, <1>2, <2>7, <2>8, <2>9, <2>11, <2>12, KindsStep
<1> QED
  BY <1>3, <1>4

LEMMA KindsCrash ==
  ASSUME Shape, KindsApart, NEW p \in scenario.procs, Crash(p)
  PROVE  KindsApart'
<1>1. UNCHANGED <<jobs, snapshot, rqQueue, horse, charges, paid, scenario>>
  BY DEF Crash, tableVars, redisVars, ghostVars
<1>2. \A s \in Slots : api'[s] = api[s] \/ api'[s] = IdleSlot
  BY DEF Crash
<1>3. \A t \in Threads : threads'[t] = threads[t] \/ threads'[t] = IdleThread
  BY DEF Crash
<1>4. \A q \in scenario.procs : \A j \in JobIds : memory'[q][j] = memory[q][j] \/ memory'[q][j] = NoState
  BY DEF Crash, Shape, DataOK, MemoryOK
<1>5. \A j \in JobIds : Blank(j) => Blank(j)'
  BY <1>1, <1>4 DEF Blank
<1>6. \A s \in Slots : KindOf(api[s])'
  <2> TAKE s \in Slots
  <2>1. PICK r : r = api[s]
    OBVIOUS
  <2>2. KindOf(r)'
    <3>1. KindOf(r)
      BY <2>1 DEF KindsApart
    <3>2. r.pc = "u_insert" => r.job \in JobIds
      BY <2>1, Served DEF At, Serving, UploadPlaces
    <3> QED
      BY <1>1, <1>5, <3>1, <3>2 DEF KindOf, KindFits, IsNew
  <2>3. KindOf(IdleSlot)'
    BY DEF KindOf, KindFits, IdleSlot, DashPlaces, RowPlaces, Ops, DeepPlaces
  <2> QED
    BY <1>2, <2>1, <2>2, <2>3
<1>7. \A s, k \in Slots : At(s, "u_insert")' /\ k # s => api'[k].job # api'[s].job
  <2> SUFFICES ASSUME NEW s \in Slots, NEW k \in Slots, api'[s].pc = "u_insert", k # s PROVE api'[k].job # api'[s].job
    BY DEF At
  <2>1. api'[s] = api[s] /\ At(s, "u_insert")
    BY <1>2 DEF IdleSlot, At
  <2>2. api[s].job \in JobIds /\ NoJob \notin JobIds
    BY <2>1, Served, StoreConstants DEF At, Serving, UploadPlaces, NoJob
  <2>3. api'[k].job = NoJob \/ api'[k].job = api[k].job
    <3>1. IdleSlot.job = NoJob
      BY DEF IdleSlot
    <3> QED
      BY <1>2, <3>1
  <2> QED
    BY <2>1, <2>2, <2>3 DEF KindsApart
<1>8. \A t \in Threads : threads'[t].pc = "enqueue" => IsUpload(jobs'[threads'[t].job])
  BY <1>1, <1>3 DEF KindsApart, IdleThread, Uploaded
<1> QED
  BY <1>1, <1>5, <1>6, <1>7, <1>8 DEF KindsApart, Uploaded, PaidType

LEMMA KindsExpire ==
  ASSUME Shape, KindsApart, NEW j \in JobIds, SnapshotExpires(j)
  PROVE  KindsApart'
<1>1. UNCHANGED <<jobs, memory, rqQueue, horse, threads, api, charges, paid, scenario>>
  BY DEF SnapshotExpires, tableVars, procVars, ghostVars, noFault
<1>2. \A k \in JobIds : Blank(k) => Blank(k)'
  BY <1>1 DEF SnapshotExpires, Blank, Shape, DataOK, RedisOK
<1>3. \A s \in Slots : KindOf(api[s])'
  <2> TAKE s \in Slots
  <2>1. PICK r : r = api[s]
    OBVIOUS
  <2>2. KindOf(r)'
    <3>1. KindOf(r)
      BY <2>1 DEF KindsApart
    <3>2. r.pc = "u_insert" => r.job \in JobIds
      BY <2>1, Served DEF At, Serving, UploadPlaces
    <3> QED
      BY <1>1, <1>2, <3>1, <3>2 DEF KindOf, KindFits, IsNew
  <2> QED
    BY <1>1, <2>1, <2>2
<1> QED
  BY <1>1, <1>2, <1>3 DEF KindsApart, Uploaded, PaidType, At

LEMMA KindsInit == Init => KindsApart
<1> SUFFICES ASSUME Init PROVE KindsApart
  OBVIOUS
<1>1. \A s \in Slots : KindOf(api[s])
  BY DEF Init, KindOf, KindFits, IdleSlot, DashPlaces, RowPlaces, Ops, DeepPlaces
<1>2. \A s \in Slots : ~At(s, "u_insert")
  BY DEF Init, At, IdleSlot
<1>3. PaidType /\ \A j \in JobIds : ~Uploaded(j) /\ ~(rqQueue[j] > 0)
  BY DEF Init, PaidType, Uploaded, IsUpload
<1>4. /\ \A h \in Horses : horse[h].pc = "idle"
      /\ \A t \in Threads : threads[t].pc # "enqueue"
  BY DEF Init, IdleHorse, IdleThread
<1> QED
  BY <1>1, <1>2, <1>3, <1>4 DEF KindsApart

LEMMA KindsNext == Shape /\ KindsApart /\ [Next]_vars => KindsApart'
<1> SUFFICES ASSUME Shape, KindsApart, [Next]_vars PROVE KindsApart'
  OBVIOUS
<1>1. CASE UNCHANGED vars
  <2>1. UNCHANGED <<jobs, memory, snapshot, rqQueue, horse, threads, api, charges, paid, scenario>>
    BY <1>1 DEF vars, tableVars, redisVars, procVars, ghostVars, countVars
  <2> QED
    BY <2>1 DEF KindsApart, KindOf, KindFits, IsNew, Blank, Uploaded, PaidType, At
<1>2. ASSUME NEW s \in Slots, Serve(s) PROVE KindsApart'
  <2>1. UploadStep(s) \/ QuotaStep(s) \/ PayStep(s) \/ DashStep(s)
    BY <1>2 DEF Serve, Admit, UploadStep, QuotaStep, PayStep, DashStep
  <2> QED
    BY <2>1, KindsUpload, KindsQuota, KindsPay, KindsDash
<1> QED
  BY <1>1, <1>2, KindsAccept, KindsTranslate, KindsEnqueue, KindsProcess, KindsCrash, KindsExpire DEF Next

-----------------------------------------------------------------------------
(* One run of an upload at a time *)

LEMMA HasBounds ==
  ASSUME NEW a, NEW m, NEW j, Has(a, m, j)
  PROVE  a \in HolderKinds /\ m \in Nth(j)
BY DEF Has, HolderKinds, Nth

LEMMA HeldByOne ==
  ASSUME NEW j, OneHolder(j), NEW a, NEW b, NEW m, NEW n, Has(a, m, j), Has(b, n, j)
  PROVE  a = b /\ m = n
BY HasBounds DEF OneHolder

LEMMA HeldByNone ==
  ASSUME NEW j, Unheld(j), NEW a, NEW m
  PROVE  ~Has(a, m, j)
BY HasBounds DEF Unheld

\* No holder comes by a job, or one does in the place of another.
NoHolderMore(j) == \A a, m : Has(a, m, j)' => Has(a, m, j)
HandsOn(j) == \E c, p : /\ \A a, m : Has(a, m, j)' => Has(a, m, j) \/ (a = c /\ m = p)
                        /\ \/ Unheld(j)
                           \/ \E d, q : Has(d, q, j) /\ ~Has(d, q, j)'

LEMMA HeldByOneAfter ==
  ASSUME NEW j, OneHolder(j), NoHolderMore(j) \/ HandsOn(j)
  PROVE  OneHolder(j)'
<1>1. CASE NoHolderMore(j)
  BY <1>1, HeldByOne DEF NoHolderMore, OneHolder
<1>2. CASE HandsOn(j)
  <2>1. PICK c, p : /\ \A a, m : Has(a, m, j)' => Has(a, m, j) \/ (a = c /\ m = p)
                    /\ \/ Unheld(j)
                       \/ \E d, q : Has(d, q, j) /\ ~Has(d, q, j)'
    BY <1>2 DEF HandsOn
  <2>2. \A a, m : Has(a, m, j)' => a = c /\ m = p
    <3>1. CASE Unheld(j)
      BY <2>1, <3>1, HeldByNone
    <3>2. ASSUME NEW d, NEW q, Has(d, q, j), ~Has(d, q, j)' PROVE \A a, m : Has(a, m, j)' => a = c /\ m = p
      <4> SUFFICES ASSUME NEW a, NEW m, Has(a, m, j)', ~(a = c /\ m = p) PROVE FALSE
        OBVIOUS
      <4>1. Has(a, m, j)
        BY <2>1
      <4>2. a = d /\ m = q
        BY <3>2, <4>1, HeldByOne
      <4> QED
        BY <3>2, <4>2
    <3> QED
      BY <2>1, <3>1, <3>2
  <2> QED
    BY <2>2 DEF OneHolder
<1> QED
  BY <1>1, <1>2

LEMMA UnheldAfter ==
  ASSUME NEW j, Unheld(j), NoHolderMore(j)
  PROVE  Unheld(j)'
BY HeldByNone DEF NoHolderMore, Unheld

\* A job whose row, payment and charges stay as they were.
LEMMA JobKept ==
  ASSUME NEW j, JobStands(j), NoHolderMore(j), jobs'[j] = jobs[j], charges'[j] = charges[j],
         paid[j] => paid'[j]
  PROVE  JobStands(j)'
<1>1. OneHolder(j)' /\ (Unheld(j) => Unheld(j)')
  BY HeldByOneAfter, UnheldAfter DEF JobStands
<1> QED
  BY <1>1 DEF JobStands, Uploaded

\* No holder of a job but j comes or goes, other than by letting go of it.
HoldersElse(j) ==
  /\ \A h \in Horses : horse'[h] = horse[h] \/ horse'[h].pc = "idle" \/ horse'[h].job = j
  /\ \A t \in Threads : threads'[t] = threads[t] \/ threads'[t].pc # "enqueue" \/ threads'[t].job = j
  /\ \A s \in Slots : api'[s] = api[s] \/ api'[s].pc \notin SlotHolds \/ api'[s].job = j

LEMMA NoMoreElse ==
  ASSUME NEW j, NEW k, k # j, rqQueue'[k] = rqQueue[k], HoldersElse(j)
  PROVE  NoHolderMore(k)
<1> SUFFICES ASSUME NEW a, NEW m, Has(a, m, k)' PROVE Has(a, m, k)
  BY DEF NoHolderMore
<1>1. CASE a = "queue"
  BY <1>1 DEF Has
<1>2. CASE a = "horse"
  BY <1>2 DEF Has, HoldersElse
<1>3. CASE a = "thread"
  BY <1>3 DEF Has, HoldersElse
<1>4. CASE a = "slot"
  BY <1>4 DEF Has, HoldersElse
<1> QED
  BY <1>1, <1>2, <1>3, <1>4 DEF Has

LEMMA JobsElse ==
  ASSUME NEW j, Others(j), HoldersElse(j), \A k \in JobIds : JobStands(k)
  PROVE  \A k \in JobIds \ {j} : JobStands(k)'
<1> TAKE k \in JobIds \ {j}
<1>1. NoHolderMore(k)
  BY NoMoreElse DEF Others
<1> QED
  BY <1>1, JobKept DEF Others

\* The rows of uploads stay: none comes, and each keeps its user and its document.
RowsKept == \A k \in JobIds : RowKept(k)

LEMMA OneRowKept ==
  ASSUME OneRow, RowsKept
  PROVE  OneRow'
BY DEF OneRow, RowsKept, RowKept, Sent, Uploaded

LEMMA RowsElse ==
  ASSUME NEW j, Others(j), j \in JobIds => RowKept(j)
  PROVE  RowsKept
BY DEF RowsKept, RowKept, Others

\* A request that rests while another process of the system writes job j.
LEMMA SlotKept ==
  ASSUME NEW j, Others(j), RowsKept, HoldersElse(j), NEW r, SlotStands(r), r.pc \notin UploadPlaces => r.job \in JobIds,
         j \in JobIds => (paid[j] => paid'[j]) /\ (jobs'[j].status = jobs[j].status \/ jobs[j].status # "failed" \/ ~IsUpload(jobs[j])),
         r.pc \in {"u_reset", "pending", "u_quota", "u_enqueue", "u_release", "u_fail"} => r.job # j
  PROVE  SlotStands(r)'
<1>1. \A k \in JobIds : paid[k] => paid'[k]
  BY DEF Others
<1>2. \A k \in JobIds : \A u, d : Sent(k, u, d)' => Sent(k, u, d)
  BY DEF RowsKept, RowKept, Sent, Uploaded
<1>3. \A k \in JobIds : Uploaded(k) /\ jobs[k].status = "failed" => jobs'[k].status = "failed"
  BY DEF Others, Uploaded
<1>4. r.pc \in {"u_reset", "pending", "u_quota", "u_enqueue", "u_release", "u_fail"} =>
        /\ jobs'[r.job] = jobs[r.job]
        /\ Unheld(r.job) => Unheld(r.job)'
  <2> HAVE r.pc \in {"u_reset", "pending", "u_quota", "u_enqueue", "u_release", "u_fail"}
  <2>1. r.job \in JobIds \ {j}
    BY DEF UploadPlaces
  <2>2. NoHolderMore(r.job)
    BY <2>1, NoMoreElse DEF Others
  <2> QED
    BY <2>1, <2>2, UnheldAfter DEF Others
<1>5. r.pc \in PayPlaces => r.job \in JobIds
  BY DEF PayPlaces, UploadPlaces
<1>6. /\ r.pc = "u_reset" => jobs'[r.job].status = "failed"
      /\ r.pc = "pending" => jobs'[r.job].status = "awaiting_payment"
      /\ r.pc \in {"u_quota", "u_enqueue", "u_release", "u_fail"} => jobs'[r.job].status = "pending"
      /\ r.pc \in {"u_release", "u_fail"} => Unheld(r.job)'
  BY <1>4 DEF SlotStands
<1>7. r.pc \in PayPlaces \ {"credit"} => paid'[r.job]
  BY <1>1, <1>5 DEF SlotStands
<1>8. r.pc \in {"u_capacity", "u_find"} =>
        \A k \in JobIds : Sent(k, r.req.user, r.req.doc)' => jobs'[k].status = "failed"
  BY <1>2, <1>3 DEF SlotStands, Sent
<1>9. r.pc = "u_insert" => \A k \in JobIds : ~Sent(k, r.req.user, r.req.doc)'
  BY <1>2 DEF SlotStands
<1> QED
  BY <1>6, <1>7, <1>8, <1>9 DEF SlotStands

\* While a request is served the others rest where nothing is known.
LEMMA SlotsIdle ==
  ASSUME NEW s \in Slots, \A k \in Slots \ {s} : api'[k].pc = "idle", NEW r, api'[s] = r, SlotStands(r)'
  PROVE  \A k \in Slots : SlotStands(api[k])'
<1> TAKE k \in Slots
<1>1. CASE k = s
  BY <1>1
<1>2. CASE k # s
  <2>1. PICK q : q = api'[k]
    OBVIOUS
  <2>2. SlotStands(q)'
    BY <1>2, <2>1 DEF SlotStands, PayPlaces
  <2> QED
    BY <2>1, <2>2
<1> QED
  BY <1>1, <1>2

\* Nobody has a job of the dashboard run but the request that was paid for it.
LEMMA UnheldDash ==
  ASSUME Shape, KindsApart, NEW j \in JobIds, ~IsUpload(jobs[j]),
         \A s \in Slots : api[s].pc \in {"pay_quota", "dispatch"} => api[s].job # j
  PROVE  Unheld(j)
<1> SUFFICES ASSUME NEW a, NEW m, Has(a, m, j) PROVE FALSE
  BY DEF Unheld
<1>1. CASE a = "queue"
  <2>1. rqQueue[j] > 0
    BY <1>1 DEF Has, Shape, DataOK, RedisOK
  <2> QED
    BY <2>1 DEF KindsApart, Uploaded
<1>2. CASE a = "horse"
  BY <1>2 DEF Has, KindsApart, Uploaded
<1>3. CASE a = "thread"
  BY <1>3 DEF Has, KindsApart, Uploaded
<1>4. CASE a = "slot"
  BY <1>4 DEF Has, SlotHolds, KindsApart, KindOf, KindFits, RowPlaces
<1> QED
  BY <1>1, <1>2, <1>3, <1>4 DEF Has

\* Where a request stands that relies on the status of its row.
Relying == {"u_reset", "pending", "u_quota", "u_enqueue", "u_release", "u_fail"}

\* A step that no request takes, on a job that none relies on.
LEMMA StandingElse ==
  ASSUME Shape, Standing, NEW j \in JobIds, Others(j), RowKept(j), HoldersElse(j), JobStands(j)',
         paid[j] => paid'[j],
         jobs'[j].status = jobs[j].status \/ jobs[j].status # "failed" \/ ~IsUpload(jobs[j]),
         \A s \in Slots : api[s].pc \in Relying => api[s].job # j,
         UNCHANGED api
  PROVE  Standing'
<1>1. RowsKept
  BY RowsElse
<1>2. \A k \in JobIds : JobStands(k)'
  BY JobsElse DEF Standing
<1>3. OneRow'
  BY <1>1, OneRowKept DEF Standing
<1>4. \A s \in Slots : SlotStands(api[s])'
  <2> TAKE s \in Slots
  <2>1. PICK r : r = api[s]
    OBVIOUS
  <2>2. SlotStands(r) /\ (r.pc \notin UploadPlaces => r.job \in JobIds \/ r.pc = "idle")
    BY <2>1, Served DEF Standing, At, Serving
  <2>3. r.pc \in Relying => r.job # j
    BY <2>1
  <2>4. CASE r.pc = "idle"
    <3>1. SlotStands(r)'
      BY <2>4 DEF SlotStands, PayPlaces
    <3> QED
      BY <2>1, <3>1
  <2>5. CASE r.pc # "idle"
    <3>1. SlotStands(r)'
      BY <1>1, <2>2, <2>3, <2>5, SlotKept DEF Relying
    <3> QED
      BY <2>1, <3>1
  <2> QED
    BY <2>4, <2>5
<1> QED
  BY <1>2, <1>3, <1>4 DEF Standing

LEMMA StandingTranslate ==
  ASSUME Shape, KindsApart, Alone, Standing, NEW t \in Threads, Translate(t)
  PROVE  Standing'
<1>1. PICK j \in JobIds :
        /\ j = threads[t].job /\ ~IsUpload(jobs[j]) /\ ~IsUpload(jobs'[j]) /\ ~Blank(j)
        /\ Others(j) /\ PaidType' /\ UNCHANGED <<rqQueue, paid, api, horse, scenario>>
        /\ \A d \in Threads : threads'[d] # threads[d] => threads'[d].pc # "enqueue"
  BY TranslateApart
<1>2. \A s \in Slots : api[s].pc \in PayPlaces \ {"credit"} => api[s].job # j
  BY <1>1, Served DEF Alone, Busy, At, Serving, Serves, Asking, PayPlaces
<1>3. \A s \in Slots : api[s].pc \in Relying => api[s].job # j
  BY <1>1, <1>2 DEF Relying, PayPlaces, RowPlaces, KindsApart, KindOf, KindFits
<1>4. Unheld(j)
  BY <1>1, <1>2, UnheldDash DEF PayPlaces
<1>5. RowKept(j)
  BY <1>1 DEF RowKept
<1>6. HoldersElse(j)
  BY <1>1 DEF HoldersElse
<1>7. NoHolderMore(j)
  <2> SUFFICES ASSUME NEW a, NEW m, Has(a, m, j)' PROVE Has(a, m, j)
    BY DEF NoHolderMore
  <2> QED
    BY <1>1 DEF Has
<1>8. JobStands(j)'
  <2>1. OneHolder(j)' /\ Unheld(j)'
    BY <1>1, <1>4, <1>7, HeldByOneAfter, UnheldAfter DEF Standing, JobStands
  <2> QED
    BY <1>1, <2>1 DEF JobStands, Uploaded
<1> QED
  BY <1>1, <1>3, <1>5, <1>6, <1>8, StandingElse

LEMMA StandingEnqueue ==
  ASSUME Shape, KindsApart, Standing, NEW t \in Threads, EnqueueThread(t)
  PROVE  Standing'
<1>1. PICK j \in JobIds : /\ j = threads[t].job /\ jobs[j] # NoRow /\ TAt(t, "enqueue")
                          /\ threads' = [threads EXCEPT ![t] = IdleThread]
                          /\ rqQueue' = rqQueue \/ rqQueue' = [rqQueue EXCEPT ![j] = @ + 1]
                          /\ UNCHANGED <<tableVars, quota, snapshot, memory, api, horse, paid, charges, scenario, raced>>
  BY Enqueuing
<1>2. UNCHANGED <<jobs, snapshot, memory, charges, paid, api, horse, scenario>>
  BY <1>1 DEF tableVars
<1>3. Has("thread", t, j) /\ ~Has("thread", t, j)'
  <2>1. threads'[t].pc = "idle"
    BY <1>1 DEF Shape, ThreadsOK, IdleThread
  <2> QED
    BY <1>1, <2>1 DEF Has, TAt
<1>4. OneHolder(j) /\ jobs[j].status \in {"pending", "processing"}
  BY <1>3, HeldByNone DEF Standing, JobStands
<1>5. rqQueue[j] = 0
  <2>1. rqQueue[j] \in Nat
    BY DEF Shape, DataOK, RedisOK
  <2>2. ~Has("queue", 1, j)
    BY <1>3, <1>4, HeldByOne
  <2> QED
    BY <2>1, <2>2 DEF Has
<1>6. rqQueue'[j] \in {0, 1}
  BY <1>1, <1>5 DEF Shape, DataOK, RedisOK
<1>7. HoldersElse(j)
  BY <1>1 DEF HoldersElse, Shape, ThreadsOK, IdleThread
<1>8. HandsOn(j)
  <2>1. \A a, m : Has(a, m, j)' => Has(a, m, j) \/ (a = "queue" /\ m = 1)
    <3> SUFFICES ASSUME NEW a, NEW m, Has(a, m, j)' PROVE Has(a, m, j) \/ (a = "queue" /\ m = 1)
      OBVIOUS
    <3>1. CASE a = "queue"
      BY <1>6, <3>1 DEF Has
    <3>2. CASE a = "thread"
      BY <1>1, <3>2 DEF Has, Shape, ThreadsOK, IdleThread
    <3>3. CASE a = "horse" \/ a = "slot"
      BY <1>2, <3>3 DEF Has
    <3> QED
      BY <3>1, <3>2, <3>3 DEF Has
  <2> QED
    BY <1>3, <2>1 DEF HandsOn
<1>9. JobStands(j)'
  <2>1. OneHolder(j)'
    BY <1>4, <1>8, HeldByOneAfter
  <2> QED
    BY <1>2, <1>4, <2>1 DEF Standing, JobStands, Uploaded
<1>10. \A s \in Slots : api[s].pc \in Relying => api[s].job # j
  <2> SUFFICES ASSUME NEW s \in Slots, api[s].pc \in Relying, api[s].job = j PROVE FALSE
    OBVIOUS
  <2>1. ~Has("slot", s, j) /\ ~Unheld(j)
    BY <1>3, <1>4, HeldByOne, HeldByNone
  <2> QED
    BY <1>4, <2>1 DEF Relying, SlotHolds, Has, Standing, SlotStands
<1>11. Others(j) /\ RowKept(j)
  BY <1>1, <1>2 DEF Others, RowKept, Shape, DataOK, RedisOK
<1> QED
  BY <1>2, <1>7, <1>9, <1>10, <1>11, StandingElse

\* A job that is held can only be taken over from its holder, and no request relies on it.
LEMMA HeldUnrelied ==
  ASSUME Shape, Standing, NEW j \in JobIds, NEW a, NEW m, Has(a, m, j), a # "slot"
  PROVE  /\ OneHolder(j) /\ jobs[j].status \in {"pending", "processing"}
         /\ \A s \in Slots : api[s].pc \in Relying => api[s].job # j
<1>1. OneHolder(j) /\ jobs[j].status \in {"pending", "processing"}
  BY HeldByNone DEF Standing, JobStands
<1>2. ASSUME NEW s \in Slots, api[s].pc \in Relying, api[s].job = j PROVE FALSE
  <2>1. ~Has("slot", s, j) /\ ~Unheld(j)
    BY <1>1, HeldByOne, HeldByNone
  <2> QED
    BY <1>1, <1>2, <2>1 DEF Relying, SlotHolds, Has, Standing, SlotStands
<1> QED
  BY <1>1, <1>2

LEMMA StandingTake ==
  ASSUME Shape, KindsApart, Standing, NEW h \in Horses, RqTake(h)
  PROVE  Standing'
<1>1. PICK j \in JobIds : /\ HAt(h, "idle") /\ rqQueue[j] > 0
                          /\ rqQueue' = [rqQueue EXCEPT ![j] = @ - 1]
                          /\ horse' = [horse EXCEPT ![h] = [pc |-> "load", job |-> j]]
                          /\ UNCHANGED <<jobs, snapshot, memory, charges, paid, api, threads, scenario>>
  BY DEF RqTake, tableVars, procVars, ghostVars, countVars
<1>2. Has("queue", rqQueue[j], j)
  BY <1>1 DEF Has, Shape, DataOK, RedisOK
<1>3. /\ OneHolder(j) /\ jobs[j].status \in {"pending", "processing"}
      /\ \A s \in Slots : api[s].pc \in Relying => api[s].job # j
  BY <1>2, HeldUnrelied
<1>4. rqQueue[j] = 1 /\ rqQueue'[j] = 0
  <2>1. rqQueue[j] \in Nat
    BY DEF Shape, DataOK, RedisOK
  <2>2. Has("queue", 1, j)
    BY <1>1, <2>1 DEF Has
  <2>3. rqQueue[j] = 1
    BY <1>2, <1>3, <2>2, HeldByOne
  <2> QED
    BY <1>1, <2>3 DEF Shape, DataOK, RedisOK
<1>5. HandsOn(j)
  <2>1. \A a, m : Has(a, m, j)' => Has(a, m, j) \/ (a = "horse" /\ m = h)
    <3> SUFFICES ASSUME NEW a, NEW m, Has(a, m, j)' PROVE Has(a, m, j) \/ (a = "horse" /\ m = h)
      OBVIOUS
    <3>1. CASE a = "queue"
      BY <1>4, <3>1 DEF Has
    <3>2. CASE a = "horse"
      BY <1>1, <3>2 DEF Has, Shape, HorsesOK
    <3>3. CASE a = "thread" \/ a = "slot"
      BY <1>1, <3>3 DEF Has
    <3> QED
      BY <3>1, <3>2, <3>3 DEF Has
  <2>2. ~Has("queue", 1, j)'
    BY <1>4 DEF Has
  <2> QED
    BY <1>2, <1>4, <2>1, <2>2 DEF HandsOn
<1>6. JobStands(j)'
  <2>1. OneHolder(j)'
    BY <1>3, <1>5, HeldByOneAfter
  <2> QED
    BY <1>1, <1>3, <2>1 DEF Standing, JobStands, Uploaded
<1>7. HoldersElse(j)
  BY <1>1 DEF HoldersElse, Shape, HorsesOK
<1>8. Others(j) /\ RowKept(j)
  BY <1>1 DEF Others, RowKept, Shape, DataOK, RedisOK
<1> QED
  BY <1>1, <1>3, <1>6, <1>7, <1>8, StandingElse

\* What a work horse does for the job j it has.
HorseDoes(h, j, old) ==
  /\ HDone(h) \/ \E pc : HGoto(h, pc)
  /\ \/ /\ jobs'[j] = old \/ jobs'[j] = [old EXCEPT !.status = "processing"]
        /\ charges'[j] = charges[j] /\ rqQueue' = rqQueue
     \/ /\ jobs'[j] = [old EXCEPT !.status = "pending", !.attempt = old.attempt + 1] /\ HDone(h)
        /\ charges'[j] = charges[j]
        /\ rqQueue' = rqQueue \/ rqQueue' = [rqQueue EXCEPT ![j] = @ + 1]
     \/ /\ jobs'[j] = [old EXCEPT !.status = "failed"] /\ HDone(h)
        /\ charges'[j] = charges[j] /\ rqQueue' = rqQueue
     \/ /\ \E cost : jobs'[j] = [old EXCEPT !.status = "completed", !.output = "full", !.cost = cost]
        /\ charges'[j] = charges[j] + 1 /\ rqQueue' = rqQueue /\ HDone(h)

LEMMA HorseRuns ==
  ASSUME Shape, NEW h \in Horses, Process(h), ~RqTake(h), NEW j \in JobIds, j = horse[h].job, NEW old \in Row, old = jobs[j]
  PROVE  HorseDoes(h, j, old)
<1>1. HDone(h) \/ \E pc : HGoto(h, pc)
  BY DEF Process, ProcessLoad, ProcessMark, ProcessRun, ProcessRaises, ProcessCommit, CommitUnless,
     ProcessExcept, RetryOrFail, HorseDies
<1>2. jobs \in [JobIds -> Row \cup {NoRow}] /\ charges \in [JobIds -> Nat]
  BY DEF Shape, DataOK, TablesOK, GhostsOK
<1>3. CASE ProcessMark(h)
  <2>1. jobs' = [jobs EXCEPT ![j] = [old EXCEPT !.status = "processing"]] /\ UNCHANGED <<charges, rqQueue>>
    BY <1>2, <1>3 DEF ProcessMark, redisVars, ghostVars
  <2> QED
    BY <1>1, <1>2, <2>1 DEF HorseDoes
<1>4. CASE ProcessCommit(h)
  <2>1. CASE jobs' = jobs /\ charges' = charges
    BY <1>1, <1>4, <2>1 DEF ProcessCommit, CommitUnless, redisVars, HorseDoes
  <2>2. CASE ~(jobs' = jobs /\ charges' = charges)
    <3>1. /\ \E cost : jobs' = [jobs EXCEPT ![j] = [old EXCEPT !.status = "completed", !.output = "full", !.cost = cost]]
          /\ charges' = [charges EXCEPT ![j] = @ + 1] /\ rqQueue' = rqQueue /\ HDone(h)
      BY <1>2, <1>4, <2>2 DEF ProcessCommit, CommitUnless, ChargeWords, redisVars
    <3> QED
      BY <1>1, <1>2, <3>1 DEF HorseDoes
  <2> QED
    BY <2>1, <2>2
<1>5. CASE ProcessExcept(h)
  <2>1. HDone(h) /\ charges' = charges
    BY <1>5 DEF ProcessExcept, RetryOrFail, ghostVars
  <2>2. \/ /\ jobs' = [jobs EXCEPT ![j].status = "pending", ![j].attempt = @ + 1]
           /\ rqQueue' = rqQueue \/ rqQueue' = [rqQueue EXCEPT ![j] = @ + 1]
        \/ jobs' = [jobs EXCEPT ![j].status = "failed"] /\ rqQueue' = rqQueue
    BY <1>5 DEF ProcessExcept, RetryOrFail
  <2>3. \/ /\ jobs'[j] = [old EXCEPT !.status = "pending", !.attempt = old.attempt + 1]
           /\ rqQueue' = rqQueue \/ rqQueue' = [rqQueue EXCEPT ![j] = @ + 1]
        \/ jobs'[j] = [old EXCEPT !.status = "failed"] /\ rqQueue' = rqQueue
    BY <1>2, <2>2
  <2> QED
    BY <1>1, <2>1, <2>3 DEF HorseDoes
<1>6. CASE ~ProcessMark(h) /\ ~ProcessCommit(h) /\ ~ProcessExcept(h)
  <2>1. UNCHANGED <<jobs, charges, rqQueue>>
    BY <1>6 DEF Process, ProcessLoad, ProcessRun, ProcessRaises, HorseDies, tableVars, redisVars, ghostVars
  <2> QED
    BY <1>1, <2>1 DEF HorseDoes
<1> QED
  BY <1>3, <1>4, <1>5, <1>6

LEMMA StandingWork ==
  ASSUME Shape, KindsApart, Standing, NEW h \in Horses, Process(h), ~RqTake(h)
  PROVE  Standing'
<1>1. ~HAt(h, "idle") /\ UNCHANGED <<api, threads, memory, snapshot, scenario, paid>>
  BY HorseWrites, HorseLeaves
<1>2. PICK j \in JobIds, old \in Row : j = horse[h].job /\ old = jobs[j]
  BY <1>1, Working
<1>3. Others(j)
  BY <1>2, HorseWrites, WritesOne DEF KindsApart
<1>4. Has("horse", h, j)
  BY <1>1, <1>2 DEF Has, HAt
<1>5. /\ OneHolder(j) /\ old.status \in {"pending", "processing"}
      /\ \A s \in Slots : api[s].pc \in Relying => api[s].job # j
  BY <1>2, <1>4, HeldUnrelied
<1>6. PICK row : row = jobs'[j] /\ Worked(old, row)
  BY <1>2, HorseRow
<1>7. /\ row # NoRow /\ row.user = old.user /\ row.hash = old.hash /\ row.path = old.path
      /\ row.quote = old.quote
  BY <1>6, WorkedRow
<1>8. RowKept(j)
  BY <1>2, <1>6, <1>7, Distinct DEF RowKept, IsUpload
<1>9. /\ HDone(h) \/ \E pc : HGoto(h, pc)
      /\ \/ /\ row = old \/ row = [old EXCEPT !.status = "processing"]
            /\ charges'[j] = charges[j] /\ rqQueue' = rqQueue
         \/ /\ row = [old EXCEPT !.status = "pending", !.attempt = old.attempt + 1] /\ HDone(h)
            /\ charges'[j] = charges[j]
            /\ rqQueue' = rqQueue \/ rqQueue' = [rqQueue EXCEPT ![j] = @ + 1]
         \/ /\ row = [old EXCEPT !.status = "failed"] /\ HDone(h)
            /\ charges'[j] = charges[j] /\ rqQueue' = rqQueue
         \/ /\ \E cost : row = [old EXCEPT !.status = "completed", !.output = "full", !.cost = cost]
            /\ charges'[j] = charges[j] + 1 /\ rqQueue' = rqQueue /\ HDone(h)
  <2>1. HorseDoes(h, j, old)
    BY <1>2, HorseRuns
  <2>2. jobs'[j] = row
    BY <1>6
  <2> QED
    BY <2>1, <2>2 DEF HorseDoes
<1>10. /\ \A g \in Horses \ {h} : horse'[g] = horse[g]
       /\ HDone(h) => horse'[h].pc = "idle"
       /\ horse'[h].pc = "idle" \/ horse'[h].job = j
  <2>1. horse = [g \in Horses |-> horse[g]] /\ horse[h] = [pc |-> horse[h].pc, job |-> j]
    BY <1>1, <1>2, Working DEF Shape, HorsesOK
  <2>2. CASE HDone(h)
    BY <2>1, <2>2 DEF HDone, IdleHorse
  <2>3. ASSUME NEW pc, HGoto(h, pc), ~HDone(h)
        PROVE  (\A g \in Horses \ {h} : horse'[g] = horse[g]) /\ horse'[h].job = j
    <3>1. PICK q : q = horse[h]
      OBVIOUS
    <3>2. PICK n : n = [q EXCEPT !.pc = pc]
      OBVIOUS
    <3>3. horse' = [horse EXCEPT ![h] = n]
      BY <2>1, <2>3, <3>1, <3>2 DEF HGoto
    <3>4. n.job = j
      BY <2>1, <3>1, <3>2
    <3> QED
      BY <2>1, <3>3, <3>4
  <2> QED
    BY <1>9, <2>2, <2>3
<1>11. HoldersElse(j)
  BY <1>1, <1>10 DEF HoldersElse
<1>12. rqQueue[j] = 0 /\ rqQueue[j] \in Nat
  <2>1. rqQueue[j] \in Nat
    BY DEF Shape, DataOK, RedisOK
  <2>2. ~Has("queue", 1, j)
    BY <1>4, <1>5, HeldByOne
  <2> QED
    BY <2>1, <2>2 DEF Has
<1>13. \A a, m : Has(a, m, j)' /\ a # "queue" => Has(a, m, j)
  <2> SUFFICES ASSUME NEW a, NEW m, Has(a, m, j)', a # "queue" PROVE Has(a, m, j)
    OBVIOUS
  <2>1. CASE a = "horse"
    BY <1>4, <1>10, <2>1 DEF Has
  <2>2. CASE a = "thread" \/ a = "slot"
    BY <1>1, <2>2 DEF Has
  <2> QED
    BY <2>1, <2>2 DEF Has
<1>14. rqQueue' = rqQueue => NoHolderMore(j)
  <2> SUFFICES ASSUME rqQueue' = rqQueue, NEW a, NEW m, Has(a, m, j)', a = "queue" PROVE Has(a, m, j)
    BY <1>13 DEF NoHolderMore
  <2> QED
    BY DEF Has
<1>15. HDone(h) => ~Has("horse", h, j)'
  BY <1>10 DEF Has
<1>16. OneHolder(j)'
  <2>1. CASE rqQueue' = rqQueue
    BY <1>5, <1>14, <2>1, HeldByOneAfter
  <2>2. CASE rqQueue' # rqQueue
    <3>1. HDone(h) /\ rqQueue' = [rqQueue EXCEPT ![j] = @ + 1]
      BY <1>9, <2>2
    <3>2. rqQueue'[j] = 1
      BY <1>12, <3>1 DEF Shape, DataOK, RedisOK
    <3>3. \A a, m : Has(a, m, j)' => Has(a, m, j) \/ (a = "queue" /\ m = 1)
      BY <1>13, <3>2 DEF Has
    <3>4. HandsOn(j)
      BY <1>4, <1>15, <3>1, <3>3 DEF HandsOn
    <3> QED
      BY <1>5, <3>4, HeldByOneAfter
  <2> QED
    BY <2>1, <2>2
<1>17. HDone(h) /\ rqQueue' = rqQueue => Unheld(j)'
  <2> SUFFICES ASSUME HDone(h), rqQueue' = rqQueue, NEW a, NEW m, Has(a, m, j)' PROVE FALSE
    BY DEF Unheld
  <2>1. Has(a, m, j)
    BY <1>14 DEF NoHolderMore
  <2>2. a = "horse" /\ m = h
    BY <1>4, <1>5, <2>1, HeldByOne
  <2> QED
    BY <1>15, <2>2
<1>18. Unheld(j)' \/ row.status \in {"pending", "processing"}
  BY <1>5, <1>9, <1>17 DEF Row
<1>19. IsUpload(row) => /\ row.quote > 0 /\ ~paid[j] => row.status = "awaiting_payment"
                        /\ charges'[j] = 0 \/ (charges'[j] = 1 /\ row.status = "completed")
  <2> SUFFICES ASSUME IsUpload(row)
               PROVE  /\ ~(row.quote > 0 /\ ~paid[j])
                      /\ charges'[j] = 0 \/ (charges'[j] = 1 /\ row.status = "completed")
    OBVIOUS
  <2>1. IsUpload(old)
    BY <1>2, <1>6, <1>8 DEF RowKept
  <2>2. ~(old.quote > 0 /\ ~paid[j]) /\ charges[j] = 0
    BY <1>2, <1>5, <2>1 DEF Standing, JobStands, Uploaded
  <2>3. charges'[j] = charges[j] \/ (charges'[j] = charges[j] + 1 /\ row.status = "completed")
    BY <1>9 DEF Row
  <2> QED
    BY <1>7, <2>2, <2>3
<1>20. JobStands(j)'
  BY <1>1, <1>6, <1>16, <1>18, <1>19 DEF JobStands, Uploaded
<1> QED
  BY <1>1, <1>2, <1>3, <1>5, <1>8, <1>11, <1>20, StandingElse

\* A step with which no holder of any job is added.
LEMMA FewerHolders ==
  ASSUME UNCHANGED rqQueue,
         \A h \in Horses : horse'[h] = horse[h] \/ horse'[h].pc = "idle",
         \A t \in Threads : threads'[t] = threads[t] \/ threads'[t].pc # "enqueue",
         \A s \in Slots : api'[s].pc \in SlotHolds => api[s].pc \in SlotHolds /\ api'[s].job = api[s].job
  PROVE  \A j : NoHolderMore(j)
<1> SUFFICES ASSUME NEW j, NEW a, NEW m, Has(a, m, j)' PROVE Has(a, m, j)
  BY DEF NoHolderMore
<1>1. CASE a = "queue"
  BY <1>1 DEF Has
<1>2. CASE a = "horse"
  BY <1>2 DEF Has
<1>3. CASE a = "thread"
  BY <1>3 DEF Has
<1>4. CASE a = "slot"
  BY <1>4 DEF Has
<1> QED
  BY <1>1, <1>2, <1>3, <1>4 DEF Has

LEMMA SlotStill ==
  ASSUME NEW r, SlotStands(r), UNCHANGED <<jobs, paid>>, NoHolderMore(r.job)
  PROVE  SlotStands(r)'
<1>1. Unheld(r.job) => Unheld(r.job)'
  BY UnheldAfter
<1> QED
  BY <1>1 DEF SlotStands, Sent, Uploaded

\* A step that writes no row and adds no holder.
LEMMA StandingQuiet ==
  ASSUME Standing, UNCHANGED <<jobs, charges, paid>>, \A j : NoHolderMore(j),
         \A s \in Slots : SlotStands(api'[s])
  PROVE  Standing'
<1>1. \A j \in JobIds : JobStands(j)'
  BY JobKept DEF Standing
<1>2. \A s \in Slots : SlotStands(api[s])'
  <2> TAKE s \in Slots
  <2>1. PICK r : r = api'[s]
    OBVIOUS
  <2>2. SlotStands(r)'
    BY <2>1, SlotStill
  <2> QED
    BY <2>1, <2>2
<1>3. OneRow'
  BY DEF Standing, OneRow, Uploaded, Sent
<1> QED
  BY <1>1, <1>2, <1>3 DEF Standing

LEMMA StandingAccept ==
  ASSUME Shape, Standing, NEW s \in Slots, Accept(s)
  PROVE  Standing'
<1>1. PICK pc, r, j : r \in scenario.requests /\ Begin(s, r, pc, j) /\ BeginsWith(r, pc, j)
  BY AcceptIs
<1>2. /\ \A k \in Slots \ {s} : api'[k] = api[k]
      /\ api'[s].pc = pc
      /\ UNCHANGED <<tableVars, redisVars, procVars, horse, ghostVars>>
  BY <1>1, BeginIs
<1>3. UNCHANGED <<jobs, charges, paid, rqQueue, horse, threads>>
  BY <1>2 DEF tableVars, redisVars, procVars, ghostVars
<1>4. pc \in {"u_check", "upload", "restore", "credit"}
  BY <1>1 DEF BeginsWith
<1>5. \A k \in Slots : api'[k].pc \in SlotHolds => api[k].pc \in SlotHolds /\ api'[k].job = api[k].job
  BY <1>2, <1>4 DEF SlotHolds
<1>6. \A k \in Slots : SlotStands(api'[k])
  BY <1>2, <1>4 DEF SlotStands, Standing, PayPlaces
<1>7. \A k : NoHolderMore(k)
  BY <1>3, <1>5, FewerHolders
<1> QED
  BY <1>3, <1>6, <1>7, StandingQuiet

LEMMA StandingCrash ==
  ASSUME Shape, Standing, NEW p \in scenario.procs, Crash(p)
  PROVE  Standing'
<1>1. UNCHANGED <<jobs, charges, paid, rqQueue, horse>>
  BY DEF Crash, tableVars, redisVars, ghostVars
<1>2. \A s \in Slots : api'[s] = api[s] \/ api'[s] = IdleSlot
  BY DEF Crash
<1>3. \A t \in Threads : threads'[t] = threads[t] \/ threads'[t] = IdleThread
  BY DEF Crash
<1>4. \A s \in Slots : api'[s].pc \in SlotHolds => api[s].pc \in SlotHolds /\ api'[s].job = api[s].job
  BY <1>2 DEF SlotHolds, IdleSlot
<1>5. SlotStands(IdleSlot)
  BY DEF SlotStands, IdleSlot, PayPlaces
<1>6. \A s \in Slots : SlotStands(api'[s])
  BY <1>2, <1>5 DEF Standing
<1>7. \A k : NoHolderMore(k)
  BY <1>1, <1>3, <1>4, FewerHolders DEF IdleThread
<1> QED
  BY <1>1, <1>6, <1>7, StandingQuiet

LEMMA StandingExpire ==
  ASSUME Standing, UNCHANGED <<jobs, charges, paid, rqQueue, horse, threads, api>>
  PROVE  Standing'
<1>1. \A j : NoHolderMore(j)
  BY FewerHolders
<1> QED
  BY <1>1, StandingQuiet DEF Standing

\* A step of request s, the only one, about its job.
LEMMA StandingSlot ==
  ASSUME Standing, NEW s \in Slots, NEW j \in JobIds, Others(j), HoldersElse(j), JobStands(j)', OneRow',
         \A k \in Slots \ {s} : api'[k].pc = "idle", NEW r, api'[s] = r, SlotStands(r)'
  PROVE  Standing'
<1>1. \A k \in JobIds : JobStands(k)'
  BY JobsElse DEF Standing
<1>2. \A k \in Slots : SlotStands(api[k])'
  BY SlotsIdle
<1> QED
  BY <1>1, <1>2 DEF Standing

\* The one request there is goes on, or is answered.
LEMMA AloneRests ==
  ASSUME Shape, Alone, NEW s \in Slots, Advances(s)
  PROVE  \A k \in Slots \ {s} : api'[k] = api[k] /\ api'[k].pc = "idle"
<1>1. \A k \in Busy : k = s
  BY AloneServe
<1>2. \A k \in Slots \ {s} : api'[k] = api[k] /\ k \notin Busy
  BY <1>1 DEF Advances
<1> QED
  BY <1>2 DEF Busy, At

\* A request takes on a job that nobody has.
LEMMA TakenOn ==
  ASSUME NEW j, NEW s \in Slots, Unheld(j), OneHolder(j), UNCHANGED <<rqQueue, horse, threads>>,
         \A k \in Slots \ {s} : api'[k] = api[k]
  PROVE  OneHolder(j)' /\ (api'[s].pc \notin SlotHolds => Unheld(j)')
<1>1. \A a, m : Has(a, m, j)' => Has(a, m, j) \/ (a = "slot" /\ m = s)
  <2> SUFFICES ASSUME NEW a, NEW m, Has(a, m, j)' PROVE Has(a, m, j) \/ (a = "slot" /\ m = s)
    OBVIOUS
  <2>1. CASE a = "queue" \/ a = "horse" \/ a = "thread"
    BY <2>1 DEF Has
  <2>2. CASE a = "slot"
    BY <2>2 DEF Has
  <2> QED
    BY <2>1, <2>2 DEF Has
<1>2. HandsOn(j)
  BY <1>1 DEF HandsOn
<1>3. ASSUME api'[s].pc \notin SlotHolds PROVE Unheld(j)'
  <2>1. ~Has("slot", s, j)'
    BY <1>3 DEF Has
  <2>2. NoHolderMore(j)
    BY <1>1, <2>1 DEF NoHolderMore
  <2> QED
    BY <2>2, UnheldAfter
<1> QED
  BY <1>2, <1>3, HeldByOneAfter

\* The rows an upload looks for.
LEMMA RowsAreSent ==
  ASSUME Shape, NEW u, NEW d, NEW statuses
  PROVE  RowsOf(u, d, statuses) = {j \in JobIds : Sent(j, u, d) /\ jobs[j].status \in statuses}
BY DEF RowsOf, Sent, Uploaded, IsUpload

LEMMA StandingLook ==
  ASSUME Shape, KindsApart, Alone, Standing, NEW s \in Slots,
         UploadCheck(s) \/ UploadDuplicate(s) \/ UploadCapacity(s) \/ UploadFind(s)
  PROVE  Standing'
<1>1. /\ UNCHANGED <<jobs, charges, paid, rqQueue, horse, threads>>
      /\ ~At(s, "idle")
  BY DEF UploadCheck, UploadDuplicate, UploadCapacity, UploadFind, tableVars, redisVars, procVars, ghostVars, At
<1>2. Advances(s)
  BY UploadAdvances DEF UploadStep
<1>3. \A k \in Slots \ {s} : api'[k] = api[k] /\ api'[k].pc = "idle"
  BY <1>2, AloneRests
<1>4. api[s] \in Slot /\ api \in [Slots -> Slot]
  BY DEF Shape, SlotsOK
<1>5. PICK u, d : u = Of(s).user /\ d = Of(s).doc
  OBVIOUS
<1>6. ASSUME NEW j \in JobIds, Sent(j, u, d), jobs[j].status \notin Live PROVE jobs[j].status = "failed"
  <2>1. jobs[j] \in Row /\ jobs[j].status # "preview_ready"
    BY <1>6 DEF KindsApart, Sent, Uploaded, IsUpload, Shape, DataOK, TablesOK
  <2> QED
    BY <1>6, <2>1 DEF Row, Statuses, Live
<1>7. SlotStands(api'[s]) /\ api'[s].pc \notin SlotHolds
  <2>1. CASE Answer(s)
    <3>1. api'[s] = IdleSlot
      BY <1>4, <2>1 DEF Answer
    <3> QED
      BY <3>1 DEF IdleSlot, SlotStands, PayPlaces, SlotHolds
  <2>2. CASE UploadCheck(s) /\ ~Answer(s)
    <3>1. api'[s].pc = "u_dup"
      BY <1>4, <2>2 DEF UploadCheck, Goto, Slot
    <3> QED
      BY <3>1 DEF SlotStands, PayPlaces, SlotHolds
  <2>3. CASE UploadDuplicate(s) /\ ~Answer(s)
    <3>1. api'[s].pc = "u_capacity" /\ Of(s)' = Of(s) /\ RowsOf(u, d, Live) = {}
      BY <1>4, <1>5, <2>3 DEF UploadDuplicate, Goto, Slot, Of
    <3>2. \A j \in JobIds : Sent(j, u, d) => jobs[j].status = "failed"
      BY <1>6, <3>1, RowsAreSent
    <3>3. api'[s].req.user = u /\ api'[s].req.doc = d
      BY <1>5, <3>1 DEF Of
    <3> QED
      BY <3>1, <3>2, <3>3 DEF SlotStands, PayPlaces, SlotHolds
  <2>4. CASE UploadCapacity(s) /\ ~Answer(s)
    <3>1. At(s, "u_capacity") /\ api'[s].pc = "u_find" /\ Of(s)' = Of(s)
      BY <1>4, <2>4 DEF UploadCapacity, Goto, Slot, Of
    <3>2. \A j \in JobIds : Sent(j, u, d) => jobs[j].status = "failed"
      BY <1>5, <3>1 DEF Standing, SlotStands, At, Of
    <3>3. api'[s].req.user = u /\ api'[s].req.doc = d
      BY <1>5, <3>1 DEF Of
    <3> QED
      BY <3>1, <3>2, <3>3 DEF SlotStands, PayPlaces, SlotHolds
  <2>5. CASE UploadFind(s)
    <3>1. PICK failed : failed = RowsOf(u, d, {"failed"})
      OBVIOUS
    <3>2. \A j \in JobIds : Sent(j, u, d) => jobs[j].status = "failed"
      BY <1>5, <2>5 DEF UploadFind, Standing, SlotStands, At, Of
    <3>3. failed = {j \in JobIds : Sent(j, u, d)}
      BY <3>1, <3>2, RowsAreSent
    <3>4. CASE failed # {}
      <4>1. PICK k \in failed : api' = [api EXCEPT ![s].pc = "u_reset", ![s].job = k]
        BY <1>5, <2>5, <3>1, <3>4 DEF UploadFind
      <4>2. api'[s].pc = "u_reset" /\ api'[s].job = k
        BY <1>4, <4>1 DEF Slot
      <4>3. jobs[k].status = "failed"
        BY <3>2, <3>3
      <4> QED
        BY <4>2, <4>3 DEF SlotStands, PayPlaces, SlotHolds
    <3>5. CASE failed = {}
      <4>1. PICK k : api' = [api EXCEPT ![s].pc = "u_insert", ![s].job = k]
        BY <1>5, <2>5, <3>1, <3>5 DEF UploadFind
      <4>2. api'[s].pc = "u_insert" /\ api'[s].req = Of(s)
        BY <1>4, <4>1 DEF Slot, Of
      <4>3. \A j \in JobIds : ~Sent(j, u, d)
        BY <3>3, <3>5
      <4> QED
        BY <1>5, <4>2, <4>3 DEF SlotStands, PayPlaces, SlotHolds
    <3> QED
      BY <3>4, <3>5
  <2> QED
    BY <2>1, <2>2, <2>3, <2>4, <2>5
<1>8. \A k \in Slots : api'[k].pc \in SlotHolds => api[k].pc \in SlotHolds /\ api'[k].job = api[k].job
  BY <1>3, <1>7
<1>9. \A k \in Slots : SlotStands(api'[k])
  BY <1>3, <1>7 DEF Standing
<1>10. \A k : NoHolderMore(k)
  BY <1>1, <1>8, FewerHolders
<1> QED
  BY <1>1, <1>9, <1>10, StandingQuiet

LEMMA StandingInsert ==
  ASSUME Shape, KindsApart, Alone, Standing, NEW s \in Slots, UploadInsert(s)
  PROVE  Standing'
<1>1. UNCHANGED <<charges, paid, rqQueue, horse, threads>>
  BY DEF UploadInsert, redisVars, procVars, ghostVars
<1>2. PICK j, r : j = api[s].job /\ r = api[s].req
  OBVIOUS
<1>3. UploadStep(s) /\ ~At(s, "idle")
  BY DEF UploadStep, UploadInsert, At
<1>4. \A k \in Slots \ {s} : api'[k] = api[k] /\ api'[k].pc = "idle"
  BY <1>3, UploadAdvances, AloneRests
<1>5. /\ j \in JobIds /\ IsNew(j) /\ Writes(j)
      /\ \A k \in JobIds : ~Sent(k, r.user, r.doc)
  <2>1. api[s].pc = "u_insert"
    BY DEF UploadInsert, At
  <2>2. j \in JobIds
    BY <1>2, <1>3, <2>1, Served DEF Serving, UploadPlaces
  <2>3. IsNew(j)
    BY <1>2, <2>1 DEF KindsApart, KindOf, KindFits
  <2>4. \A k \in JobIds : ~Sent(k, r.user, r.doc)
    BY <1>2, <2>1 DEF Standing, SlotStands
  <2> QED
    BY <1>2, <1>3, <2>2, <2>3, <2>4, UploadWrites
<1>6. Others(j)
  BY <1>5, WritesOne DEF KindsApart
<1>7. PICK row : row = NewRow(r)
  OBVIOUS
<1>8. jobs' = [jobs EXCEPT ![j] = row] /\ jobs'[j] = row
  BY <1>2, <1>5, <1>7 DEF UploadInsert, Of, Shape, DataOK, TablesOK
<1>9. /\ IsUpload(row) /\ row.user = r.user /\ row.hash = r.doc
      /\ row.status = IF r.deferred THEN "awaiting_payment" ELSE "pending"
      /\ ~r.deferred => row.quote = 0
  BY <1>7 DEF NewRow, IsUpload, NoRow
<1>10. api \in [Slots -> Slot]
  BY DEF Shape, SlotsOK
<1>11. IF r.deferred THEN api'[s] = IdleSlot ELSE api'[s].pc = "u_quota" /\ api'[s].job = j
  BY <1>2, <1>10 DEF UploadInsert, Stored, Answer, Goto, Slot, Of
<1>12. Unheld(j) /\ OneHolder(j) /\ charges[j] = 0
  BY <1>5 DEF Standing, JobStands, IsNew, NoRow
<1>13. OneHolder(j)' /\ (api'[s].pc \notin SlotHolds => Unheld(j)')
  BY <1>1, <1>4, <1>12, TakenOn
<1>14. JobStands(j)'
  <2>1. CASE r.deferred
    <3>1. Unheld(j)'
      BY <1>11, <1>13, <2>1 DEF IdleSlot, SlotHolds
    <3> QED
      BY <1>1, <1>8, <1>9, <1>12, <1>13, <2>1, <3>1 DEF JobStands
  <2>2. CASE ~r.deferred
    BY <1>1, <1>8, <1>9, <1>12, <1>13, <2>2 DEF JobStands
  <2> QED
    BY <2>1, <2>2
<1>15. OneRow'
  <2>1. \A k \in JobIds \ {j} : jobs'[k] = jobs[k]
    BY <1>6 DEF Others
  <2> SUFFICES ASSUME NEW m \in JobIds, NEW k \in JobIds, Uploaded(k)', Sent(m, jobs[k].user, jobs[k].hash)', m # k
               PROVE  FALSE
    BY DEF OneRow
  <2>2. CASE k = j
    BY <1>5, <1>8, <1>9, <2>1, <2>2 DEF Sent, Uploaded
  <2>3. CASE m = j
    BY <1>5, <1>8, <1>9, <2>1, <2>3 DEF Sent, Uploaded
  <2>4. CASE m # j /\ k # j
    BY <2>1, <2>4 DEF Sent, Uploaded, Standing, OneRow
  <2> QED
    BY <2>2, <2>3, <2>4
<1>16. PICK q : q = api'[s]
  OBVIOUS
<1>17. SlotStands(q)'
  <2>1. CASE r.deferred
    BY <1>11, <1>16, <2>1 DEF SlotStands, IdleSlot, PayPlaces
  <2>2. CASE ~r.deferred
    <3>1. q.pc = "u_quota" /\ q.job = j
      BY <1>11, <1>16, <2>2
    <3> QED
      BY <1>8, <1>9, <2>2, <3>1 DEF SlotStands, PayPlaces
  <2> QED
    BY <2>1, <2>2
<1>18. HoldersElse(j)
  <2>1. \A k \in Slots : api'[k].pc = "idle" \/ api'[k].job = j
    BY <1>4, <1>11 DEF IdleSlot
  <2> QED
    BY <1>1, <2>1 DEF HoldersElse, SlotHolds
<1>19. api'[s] = q /\ \A k \in Slots \ {s} : api'[k].pc = "idle"
  BY <1>4, <1>16
<1> QED
  BY <1>5, <1>6, <1>14, <1>15, <1>17, <1>18, <1>19, StandingSlot

LEMMA StandingRewrite ==
  ASSUME Shape, KindsApart, Alone, Standing, NEW s \in Slots, UploadReset(s) \/ UploadFail(s)
  PROVE  Standing'
<1>1. UNCHANGED <<charges, paid, rqQueue, horse, threads>>
  BY DEF UploadReset, UploadFail, redisVars, procVars, ghostVars
<1>2. PICK j, r : j = api[s].job /\ r = api[s].req
  OBVIOUS
<1>3. UploadStep(s) /\ ~At(s, "idle") /\ api[s].pc \in {"u_reset", "u_fail"}
  BY DEF UploadStep, UploadReset, UploadFail, At
<1>4. \A k \in Slots \ {s} : api'[k] = api[k] /\ api'[k].pc = "idle"
  BY <1>3, UploadAdvances, AloneRests
<1>5. j \in JobIds /\ Writes(j) /\ IsUpload(jobs[j])
  <2>1. j \in JobIds
    BY <1>2, <1>3, Served DEF Serving, UploadPlaces
  <2>2. IsUpload(jobs[j])
    BY <1>2, <1>3 DEF KindsApart, KindOf, KindFits, RowPlaces
  <2> QED
    BY <1>2, <1>3, <2>1, <2>2, UploadWrites
<1>6. Others(j)
  BY <1>5, WritesOne DEF KindsApart
<1>7. PICK old \in Row : old = jobs[j]
  BY <1>5 DEF IsUpload, Shape, DataOK, TablesOK
<1>8. Unheld(j) /\ OneHolder(j) /\ old.status \in {"failed", "pending"}
  <2>1. api[s].pc = "u_reset" => old.status = "failed"
    BY <1>2, <1>7 DEF Standing, SlotStands
  <2>2. api[s].pc = "u_fail" => old.status = "pending" /\ Unheld(j)
    BY <1>2, <1>7 DEF Standing, SlotStands
  <2>3. OneHolder(j) /\ (Unheld(j) \/ old.status \in {"pending", "processing"})
    BY <1>5, <1>7 DEF Standing, JobStands
  <2> QED
    BY <1>3, <2>1, <2>2, <2>3
<1>9. ~(old.quote > 0 /\ ~paid[j]) /\ charges[j] = 0
  BY <1>5, <1>7, <1>8 DEF Standing, JobStands, Uploaded
<1>10. PICK row : /\ jobs' = [jobs EXCEPT ![j] = row]
                  /\ \/ /\ row = [old EXCEPT !.status = "pending", !.output = "none", !.attempt = 0, !.cost = 0]
                        /\ UploadReset(s)
                     \/ row = [old EXCEPT !.status = "failed"] /\ Answer(s)
  BY <1>2, <1>7 DEF UploadReset, UploadFail, Shape, DataOK, TablesOK
<1>11. /\ jobs'[j] = row /\ IsUpload(row) /\ row.user = old.user /\ row.hash = old.hash /\ row.quote = old.quote
       /\ (UploadReset(s) /\ row.status = "pending") \/ Answer(s)
  <2>1. jobs'[j] = row
    BY <1>5, <1>10 DEF Shape, DataOK, TablesOK
  <2>2. /\ row # NoRow /\ row.path = old.path /\ row.user = old.user /\ row.hash = old.hash /\ row.quote = old.quote
        /\ (UploadReset(s) /\ row.status = "pending") \/ Answer(s)
    BY <1>10 DEF Row, NoRow
  <2> QED
    BY <1>5, <1>7, <2>1, <2>2 DEF IsUpload
<1>12. RowKept(j)
  BY <1>5, <1>7, <1>11 DEF RowKept
<1>13. api \in [Slots -> Slot]
  BY DEF Shape, SlotsOK
<1>14. api'[s] = IdleSlot \/ (api'[s].pc = "u_quota" /\ api'[s].job = j /\ row.status = "pending")
  <2>1. CASE Answer(s)
    BY <1>13, <2>1 DEF Answer
  <2>2. CASE ~Answer(s)
    <3>1. Goto(s, "u_quota") /\ row.status = "pending"
      BY <1>11, <2>2 DEF UploadReset, Stored
    <3> QED
      BY <1>2, <1>13, <3>1 DEF Goto, Slot
  <2> QED
    BY <2>1, <2>2
<1>15. OneHolder(j)' /\ (api'[s].pc \notin SlotHolds => Unheld(j)')
  BY <1>1, <1>4, <1>8, TakenOn
<1>16. JobStands(j)'
  <2>1. Unheld(j)' \/ row.status = "pending"
    BY <1>14, <1>15 DEF IdleSlot, SlotHolds
  <2> QED
    BY <1>1, <1>9, <1>11, <1>15, <2>1 DEF JobStands
<1>17. OneRow'
  BY <1>6, <1>12, RowsElse, OneRowKept DEF Standing
<1>18. PICK q : q = api'[s]
  OBVIOUS
<1>19. SlotStands(q)'
  <2>1. CASE q = IdleSlot
    BY <2>1 DEF SlotStands, IdleSlot, PayPlaces
  <2>2. CASE q.pc = "u_quota" /\ q.job = j /\ row.status = "pending"
    BY <1>11, <2>2 DEF SlotStands, PayPlaces
  <2> QED
    BY <1>14, <1>18, <2>1, <2>2
<1>20. HoldersElse(j)
  <2>1. \A k \in Slots : api'[k].pc = "idle" \/ api'[k].job = j
    BY <1>4, <1>14 DEF IdleSlot
  <2> QED
    BY <1>1, <2>1 DEF HoldersElse, SlotHolds
<1>21. api'[s] = q /\ \A k \in Slots \ {s} : api'[k].pc = "idle"
  BY <1>4, <1>18
<1> QED
  BY <1>5, <1>6, <1>16, <1>17, <1>19, <1>20, <1>21, StandingSlot

\* The slot of the quota is taken or given back, and the request still has its job.
LEMMA StandingCount ==
  ASSUME Shape, KindsApart, Alone, Standing, NEW s \in Slots,
         UploadQuota(s) \/ UploadRefused(s) \/ UploadRelease(s) \/ PayQuota(s) \/ PayRefused(s)
           \/ (PayDispatch(s) /\ threads' = threads)
  PROVE  Standing'
<1>1. UNCHANGED <<jobs, charges, paid, rqQueue, horse, threads>> /\ QuotaStep(s)
  BY DEF UploadQuota, UploadRefused, UploadRelease, PayQuota, PayRefused, PayDispatch, tableVars, redisVars, procVars,
     ghostVars, QuotaStep
<1>2. \A k \in Slots \ {s} : api'[k] = api[k] /\ api'[k].pc = "idle"
  BY <1>1, QuotaAdvances, AloneRests
<1>3. api \in [Slots -> Slot]
  BY DEF Shape, SlotsOK
<1>4. \/ api'[s].pc = "idle"
      \/ /\ api'[s].job = api[s].job
         /\ \/ At(s, "u_quota") /\ api'[s].pc \in {"u_enqueue", "u_refused"}
            \/ At(s, "u_release") /\ api'[s].pc = "u_fail"
            \/ At(s, "pay_quota") /\ api'[s].pc \in {"dispatch", "pay_refused"}
            \/ At(s, "dispatch") /\ api'[s].pc = "restore"
  <2>1. CASE Answer(s)
    BY <1>3, <2>1 DEF Answer, IdleSlot
  <2>2. ASSUME NEW pc, Goto(s, pc) PROVE api'[s].pc = pc /\ api'[s].job = api[s].job
    BY <1>3, <2>2 DEF Goto, Slot
  <2> QED
    BY <2>1, <2>2 DEF UploadQuota, UploadRefused, UploadRelease, PayQuota, PayRefused, PayDispatch, Reserve
<1>5. SlotStands(api'[s])
  BY <1>4 DEF Standing, SlotStands, At, PayPlaces
<1>6. \A k \in Slots : SlotStands(api'[k])
  BY <1>2, <1>5 DEF Standing
<1>7. \A k \in Slots : api'[k].pc \in SlotHolds => api[k].pc \in SlotHolds /\ api'[k].job = api[k].job
  BY <1>2, <1>4 DEF SlotHolds, At
<1>8. \A k : NoHolderMore(k)
  BY <1>1, <1>7, FewerHolders
<1> QED
  BY <1>1, <1>6, <1>8, StandingQuiet

\* A request hands its job on, or gives it up.
LEMMA StandingHandOn ==
  ASSUME Shape, KindsApart, Alone, Standing, NEW s \in Slots, NEW j \in JobIds, j = api[s].job,
         api[s].pc \in SlotHolds, QuotaStep(s), ~api'[s].pc \in SlotHolds,
         NEW c, NEW p, \A a, m : Has(a, m, j)' => Has(a, m, j) \/ (a = c /\ m = p),
         HoldersElse(j), NEW r, api'[s] = r,
         r.pc = "idle" \/ (r.pc = "u_release" /\ r.job = j /\ NoHolderMore(j) /\ At(s, "u_enqueue"))
  PROVE  Standing'
<1>1. Writes(j) /\ UNCHANGED <<jobs, charges, paid>>
  BY QuotaWrites
<1>2. Others(j)
  BY <1>1, WritesOne DEF KindsApart
<1>3. \A k \in Slots \ {s} : api'[k] = api[k] /\ api'[k].pc = "idle"
  BY QuotaAdvances, AloneRests
<1>4. Has("slot", s, j) /\ ~Has("slot", s, j)'
  BY DEF Has
<1>5. OneHolder(j) /\ ~Unheld(j)
  BY <1>4, HeldByNone DEF Standing, JobStands
<1>6. HandsOn(j)
  BY <1>4 DEF HandsOn
<1>7. OneHolder(j)'
  BY <1>5, <1>6, HeldByOneAfter
<1>8. JobStands(j)'
  BY <1>1, <1>5, <1>7 DEF Standing, JobStands, Uploaded
<1>9. OneRow'
  BY <1>1 DEF Standing, OneRow, Uploaded, Sent
<1>10. SlotStands(r)'
  <2>1. CASE r.pc = "idle"
    BY <2>1 DEF SlotStands, PayPlaces
  <2>2. CASE r.pc = "u_release" /\ r.job = j /\ NoHolderMore(j) /\ At(s, "u_enqueue")
    <3>1. jobs[j].status = "pending"
      BY <2>2 DEF Standing, SlotStands, At
    <3>2. \A a, m : ~Has(a, m, j)'
      <4> SUFFICES ASSUME NEW a, NEW m, Has(a, m, j)' PROVE FALSE
        OBVIOUS
      <4>1. Has(a, m, j)
        BY <2>2 DEF NoHolderMore
      <4>2. a = "slot" /\ m = s
        BY <1>4, <1>5, <4>1, HeldByOne
      <4> QED
        BY <1>4, <4>2
    <3>3. Unheld(j)'
      BY <3>2 DEF Unheld
    <3> QED
      BY <1>1, <2>2, <3>1, <3>3 DEF SlotStands, PayPlaces
  <2> QED
    BY <2>1, <2>2
<1>11. \A k \in Slots \ {s} : api'[k].pc = "idle"
  BY <1>3
<1> QED
  BY <1>2, <1>8, <1>9, <1>10, <1>11, StandingSlot

LEMMA StandingQueue ==
  ASSUME Shape, KindsApart, Alone, Standing, NEW s \in Slots, ~raced', UploadEnqueue(s) \/ UploadEnqueueRaises(s)
  PROVE  Standing'
<1>1. /\ UNCHANGED <<horse, threads>> /\ QuotaStep(s) /\ api[s].pc = "u_enqueue" /\ ~At(s, "idle")
  BY DEF UploadEnqueue, UploadEnqueueRaises, procVars, QuotaStep, At
<1>2. PICK j : j = api[s].job
  OBVIOUS
<1>3. j \in JobIds
  BY <1>1, <1>2, Served DEF Serving, UploadPlaces
<1>4. \A k \in Slots \ {s} : api'[k] = api[k] /\ api'[k].pc = "idle"
  BY <1>1, QuotaAdvances, AloneRests
<1>5. api \in [Slots -> Slot]
  BY DEF Shape, SlotsOK
<1>6. Has("slot", s, j)
  BY <1>1, <1>2 DEF Has, SlotHolds
<1>7. OneHolder(j) /\ rqQueue[j] \in Nat
  BY <1>3 DEF Standing, JobStands, Shape, DataOK, RedisOK
<1>8. rqQueue[j] = 0
  <2>1. ~Has("queue", 1, j)
    BY <1>6, <1>7, HeldByOne
  <2> QED
    BY <1>7, <2>1 DEF Has
<1>9. \/ rqQueue' = [rqQueue EXCEPT ![j] = @ + 1] /\ api'[s] = IdleSlot
      \/ rqQueue' = rqQueue /\ api'[s].pc = "u_release" /\ api'[s].job = j
  <2>1. CASE UploadEnqueue(s)
    BY <1>2, <1>5, <2>1 DEF UploadEnqueue, Answer
  <2>2. CASE UploadEnqueueRaises(s)
    BY <1>2, <1>5, <2>2 DEF UploadEnqueueRaises, Goto, Slot
  <2> QED
    BY <2>1, <2>2
<1>10. api'[s].pc \notin SlotHolds
  BY <1>9 DEF IdleSlot, SlotHolds
<1>11. rqQueue'[j] \in {0, 1} /\ (rqQueue' = rqQueue => rqQueue'[j] = 0)
  BY <1>3, <1>8, <1>9 DEF Shape, DataOK, RedisOK
<1>12. \A a, m : Has(a, m, j)' => Has(a, m, j) \/ (a = "queue" /\ m = 1)
  <2> SUFFICES ASSUME NEW a, NEW m, Has(a, m, j)' PROVE Has(a, m, j) \/ (a = "queue" /\ m = 1)
    OBVIOUS
  <2>1. CASE a = "queue"
    BY <1>11, <2>1 DEF Has
  <2>2. CASE a = "horse" \/ a = "thread"
    BY <1>1, <2>2 DEF Has
  <2>3. CASE a = "slot"
    BY <1>4, <1>10, <2>3 DEF Has
  <2> QED
    BY <2>1, <2>2, <2>3 DEF Has
<1>13. rqQueue' = rqQueue => NoHolderMore(j)
  <2> SUFFICES ASSUME rqQueue' = rqQueue PROVE NoHolderMore(j)
    OBVIOUS
  <2>1. ~Has("queue", 1, j)'
    BY <1>11 DEF Has
  <2> QED
    BY <1>12, <2>1 DEF NoHolderMore
<1>14. HoldersElse(j)
  <2>1. \A k \in Slots : api'[k] = api[k] \/ api'[k].pc \notin SlotHolds
    BY <1>4, <1>10
  <2> QED
    BY <1>1, <2>1 DEF HoldersElse
<1>15. PICK r : r = api'[s]
  OBVIOUS
<1>16. r.pc = "idle" \/ (r.pc = "u_release" /\ r.job = j /\ NoHolderMore(j) /\ At(s, "u_enqueue"))
  BY <1>1, <1>9, <1>13, <1>15 DEF IdleSlot, At
<1>17. api[s].pc \in SlotHolds
  BY <1>1 DEF SlotHolds
<1> QED
  BY <1>1, <1>2, <1>3, <1>10, <1>12, <1>14, <1>15, <1>16, <1>17, StandingHandOn

LEMMA StandingDispatch ==
  ASSUME Shape, KindsApart, Alone, Standing, NEW s \in Slots, PayDispatch(s), threads' # threads
  PROVE  Standing'
<1>1. /\ UNCHANGED <<horse, rqQueue>> /\ QuotaStep(s) /\ api[s].pc = "dispatch" /\ ~At(s, "idle")
      /\ Spawn(s, "enqueue") /\ Answer(s)
  BY DEF PayDispatch, redisVars, QuotaStep, At
<1>2. PICK j : j = api[s].job
  OBVIOUS
<1>3. j \in JobIds
  BY <1>1, <1>2, Served DEF Serving, UploadPlaces
<1>4. \A k \in Slots \ {s} : api'[k] = api[k] /\ api'[k].pc = "idle"
  BY <1>1, QuotaAdvances, AloneRests
<1>5. api'[s] = IdleSlot
  BY <1>1 DEF Answer, Shape, SlotsOK
<1>6. PICK q : q = Begun(s, "enqueue")
  OBVIOUS
<1>7. q.job = j
  BY <1>2, <1>6 DEF Begun, IdleThread
<1>8. PICK t \in Threads : threads' = [threads EXCEPT ![t] = q]
  BY <1>1, <1>6, SpawnIs
<1>9. threads'[t] = q /\ \A d \in Threads \ {t} : threads'[d] = threads[d]
  BY <1>8 DEF Shape, ThreadsOK
<1>10. api'[s].pc \notin SlotHolds
  BY <1>5 DEF IdleSlot, SlotHolds
<1>11. \A a, m : Has(a, m, j)' => Has(a, m, j) \/ (a = "thread" /\ m = t)
  <2> SUFFICES ASSUME NEW a, NEW m, Has(a, m, j)' PROVE Has(a, m, j) \/ (a = "thread" /\ m = t)
    OBVIOUS
  <2>1. CASE a = "queue" \/ a = "horse"
    BY <1>1, <2>1 DEF Has
  <2>2. CASE a = "thread"
    BY <1>9, <2>2 DEF Has
  <2>3. CASE a = "slot"
    BY <1>4, <1>10, <2>3 DEF Has
  <2> QED
    BY <2>1, <2>2, <2>3 DEF Has
<1>12. HoldersElse(j)
  <2>1. \A k \in Slots : api'[k] = api[k] \/ api'[k].pc \notin SlotHolds
    BY <1>4, <1>10
  <2> QED
    BY <1>1, <1>7, <1>9, <2>1 DEF HoldersElse
<1>13. PICK r : r = api'[s]
  OBVIOUS
<1>14. r.pc = "idle"
  BY <1>5, <1>13 DEF IdleSlot
<1>15. api[s].pc \in SlotHolds
  BY <1>1 DEF SlotHolds
<1> QED
  BY <1>1, <1>2, <1>3, <1>10, <1>11, <1>12, <1>13, <1>14, <1>15, StandingHandOn

LEMMA StandingPay ==
  ASSUME Shape, KindsApart, Alone, Standing, NEW s \in Slots, PayStep(s)
  PROVE  Standing'
<1>1. /\ ~At(s, "idle") /\ api[s].pc \in PayPlaces /\ OtherStep(s)
      /\ UNCHANGED <<horse, threads, rqQueue, charges>>
  BY DEF PayStep, PayCredit, PayLoad, PayCommit, At, PayPlaces, OtherStep, redisVars, procVars, ghostVars
<1>2. PICK j : j = api[s].job
  OBVIOUS
<1>3. j \in JobIds /\ jobs[j] # NoRow
  BY <1>1, <1>2, Served DEF Serving, PayPlaces, UploadPlaces
<1>4. Others(j)
  BY <1>2, PayWrites, WritesOne DEF KindsApart
<1>5. \A k \in Slots \ {s} : api'[k] = api[k] /\ api'[k].pc = "idle"
  BY <1>1, OtherAdvances, AloneRests
<1>6. api \in [Slots -> Slot]
  BY DEF Shape, SlotsOK
<1>7. CASE PayCommit(s)
  <2>1. PICK old \in Row : old = jobs[j]
    BY <1>3 DEF Shape, DataOK, TablesOK
  <2>2. old.status = "awaiting_payment" /\ paid[j]
    BY <1>2, <1>7, <2>1 DEF PayCommit, At, Standing, SlotStands, PayPlaces
  <2>3. PICK row : row = [old EXCEPT !.status = "pending", !.attempt = 0]
    OBVIOUS
  <2>4. row # NoRow /\ row.status = "pending" /\ row.user = old.user /\ row.hash = old.hash /\ row.path = old.path
    BY <2>3 DEF Row, NoRow
  <2>5. jobs'[j] = row /\ paid' = paid /\ api'[s].pc = "pay_quota" /\ api'[s].job = j
    BY <1>2, <1>3, <1>6, <1>7, <2>1, <2>3 DEF PayCommit, Goto, Slot, ghostVars, Shape, DataOK, TablesOK
  <2>6. RowKept(j)
    BY <2>1, <2>4, <2>5, Distinct DEF RowKept, IsUpload
  <2>7. Unheld(j) /\ OneHolder(j)
    BY <1>3, <2>1, <2>2 DEF Standing, JobStands
  <2>8. OneHolder(j)'
    BY <1>1, <1>5, <2>7, TakenOn
  <2>9. Uploaded(j)' => charges'[j] = 0
    BY <1>1, <1>3, <2>1, <2>2, <2>5, <2>6 DEF Standing, JobStands, Uploaded, RowKept
  <2>10. JobStands(j)'
    BY <2>2, <2>4, <2>5, <2>8, <2>9 DEF JobStands
  <2>11. OneRow'
    BY <1>4, <2>6, RowsElse, OneRowKept DEF Standing
  <2>12. HoldersElse(j)
    <3>1. \A k \in Slots : api'[k] = api[k] \/ api'[k].job = j
      BY <1>5, <2>5
    <3> QED
      BY <1>1, <3>1 DEF HoldersElse
  <2>13. PICK q : q = api'[s]
    OBVIOUS
  <2>14. SlotStands(q)'
    BY <2>2, <2>5, <2>13 DEF SlotStands, PayPlaces
  <2> QED
    BY <1>3, <1>4, <1>5, <2>10, <2>11, <2>12, <2>13, <2>14, StandingSlot
<1>8. CASE PayCredit(s)
  <2>1. /\ jobs' = jobs /\ paid' = [paid EXCEPT ![j] = TRUE]
        /\ api'[s].pc = "activate" /\ api'[s].job = j
    BY <1>2, <1>6, <1>8 DEF PayCredit, Goto, Slot
  <2>2. paid'[j]
    BY <1>3, <2>1 DEF KindsApart, PaidType
  <2>3. \A k \in Slots : api'[k].pc \in SlotHolds => api[k].pc \in SlotHolds /\ api'[k].job = api[k].job
    BY <1>5, <2>1 DEF SlotHolds
  <2>4. \A k : NoHolderMore(k)
    BY <1>1, <2>3, FewerHolders
  <2>5. JobStands(j)'
    BY <1>1, <1>3, <2>1, <2>2, <2>4, JobKept DEF Standing
  <2>6. OneRow'
    BY <2>1 DEF Standing, OneRow, Uploaded, Sent
  <2>7. HoldersElse(j)
    <3>1. \A k \in Slots : api'[k] = api[k] \/ api'[k].job = j
      BY <1>5, <2>1
    <3> QED
      BY <1>1, <3>1 DEF HoldersElse
  <2>8. PICK q : q = api'[s]
    OBVIOUS
  <2>9. SlotStands(q)'
    BY <2>1, <2>2, <2>8 DEF SlotStands, PayPlaces
  <2> QED
    BY <1>3, <1>4, <1>5, <2>5, <2>6, <2>7, <2>8, <2>9, StandingSlot
<1>9. CASE PayLoad(s)
  <2>1. /\ jobs' = jobs /\ paid' = paid /\ api[s].pc = "activate"
        /\ \/ api'[s] = IdleSlot
           \/ api'[s].pc = "pending" /\ api'[s].job = j /\ jobs[j].status = "awaiting_payment"
    BY <1>2, <1>6, <1>9 DEF PayLoad, Answer, Goto, Slot, tableVars, ghostVars, At
  <2>2. paid[j]
    BY <1>2, <2>1 DEF Standing, SlotStands, PayPlaces
  <2>3. SlotStands(api'[s]) /\ api'[s].pc \notin SlotHolds
    BY <2>1, <2>2 DEF SlotStands, SlotHolds, PayPlaces, IdleSlot
  <2>4. \A k \in Slots : SlotStands(api'[k])
    BY <1>5, <2>3 DEF Standing
  <2>5. \A k \in Slots : api'[k].pc \in SlotHolds => api[k].pc \in SlotHolds /\ api'[k].job = api[k].job
    BY <1>5, <2>3
  <2>6. \A k : NoHolderMore(k)
    BY <1>1, <2>5, FewerHolders
  <2> QED
    BY <1>1, <2>1, <2>4, <2>6, StandingQuiet
<1> QED
  BY <1>7, <1>8, <1>9 DEF PayStep

LEMMA StandingDash ==
  ASSUME Shape, KindsApart, Alone, Standing, NEW s \in Slots, DashStep(s)
  PROVE  Standing'
<1>1. PICK j \in JobIds :
        /\ j = api[s].job /\ ~IsUpload(jobs[j]) /\ ~IsUpload(jobs'[j])
        /\ Others(j) /\ PaidType' /\ UNCHANGED <<rqQueue, charges, paid, horse, scenario>>
        /\ api'[s] = IdleSlot \/ (api'[s].job = j /\ api'[s].req = api[s].req /\ api'[s].pc \in DashPlaces)
        /\ \A k \in Slots \ {s} : api'[k] = api[k]
        /\ \A t \in Threads : threads'[t] # threads[t] => threads'[t].pc # "enqueue"
  BY DashApart
<1>2. api[s].pc \in DashPlaces /\ OtherStep(s)
  BY DEF DashStep, Dashboard, StoreUpload, Restore, EstimateCheck, EstimateStore, Start, ConfirmCheck, ConfirmBill,
         ConfirmAwait, ConfirmQueue, PreviewCheck, PreviewQuota, PreviewQueue, Poll, SyncRead, SyncWrite, PublishRead,
         PublishSet, SpawnThread, PayMilestone, ActivateMilestone, At, DashPlaces, Ops, DeepPlaces, OtherStep
<1>3. \A k \in Slots \ {s} : api'[k] = api[k] /\ api'[k].pc = "idle"
  BY <1>2, OtherAdvances, AloneRests
<1>4. api[s].pc \notin {"pay_quota", "dispatch"} /\ api'[s].pc \notin SlotHolds
  BY <1>1, <1>2 DEF DashPlaces, Ops, DeepPlaces, SlotHolds, IdleSlot
<1>5. \A k \in Slots : api[k].pc \in {"pay_quota", "dispatch"} => api[k].job # j
  BY <1>3, <1>4
<1>6. Unheld(j)
  BY <1>1, <1>5, UnheldDash
<1>7. \A k \in Slots : api'[k].pc \in SlotHolds => api[k].pc \in SlotHolds /\ api'[k].job = api[k].job
  BY <1>3, <1>4
<1>8. NoHolderMore(j)
  <2>1. \A t \in Threads : threads'[t] = threads[t] \/ threads'[t].pc # "enqueue"
    BY <1>1
  <2> QED
    BY <1>1, <1>7, <2>1, FewerHolders
<1>9. JobStands(j)'
  <2>1. OneHolder(j)' /\ Unheld(j)'
    BY <1>6, <1>8, HeldByOneAfter, UnheldAfter DEF Standing, JobStands
  <2> QED
    BY <1>1, <2>1 DEF JobStands, Uploaded
<1>10. OneRow'
  <2>1. RowKept(j)
    BY <1>1 DEF RowKept
  <2> QED
    BY <1>1, <2>1, RowsElse, OneRowKept DEF Standing
<1>11. HoldersElse(j)
  <2>1. \A k \in Slots : api'[k] = api[k] \/ api'[k].pc \notin SlotHolds
    BY <1>3, <1>4
  <2> QED
    BY <1>1, <2>1 DEF HoldersElse
<1>12. PICK q : q = api'[s]
  OBVIOUS
<1>13. SlotStands(q)'
  <2>1. q.pc \in DashPlaces \cup {"idle"}
    BY <1>1, <1>12 DEF IdleSlot
  <2> QED
    BY <2>1 DEF SlotStands, PayPlaces, DashPlaces, Ops, DeepPlaces
<1> QED
  BY <1>1, <1>3, <1>9, <1>10, <1>11, <1>12, <1>13, StandingSlot

LEMMA RacedStays == Shape /\ [Next]_vars /\ raced => raced'
<1> SUFFICES ASSUME Shape, [Next]_vars, raced PROVE raced'
  OBVIOUS
<1>1. ASSUME NEW s \in Slots, Accept(s) PROVE raced'
  <2>1. PICK pc, r, j : Begin(s, r, pc, j)
    BY <1>1, AcceptIs
  <2> QED
    BY <2>1 DEF Begin
<1>2. ASSUME NEW s \in Slots, Serve(s) PROVE raced'
  BY <1>2, ServeAdvances
<1>3. ASSUME NEW t \in Threads, Translate(t) \/ EnqueueThread(t) PROVE raced'
  BY <1>3, ThreadContinues DEF Continues
<1>4. ASSUME NEW h \in Horses, Process(h) PROVE raced'
  BY <1>4, HorseLeaves
<1>5. ASSUME NEW p \in scenario.procs, Crash(p) PROVE raced'
  BY <1>5 DEF Crash
<1>6. ASSUME NEW j \in JobIds, SnapshotExpires(j) PROVE raced'
  BY <1>6 DEF SnapshotExpires, noFault
<1>7. CASE UNCHANGED vars
  BY <1>7 DEF vars, countVars
<1> QED
  BY <1>1, <1>2, <1>3, <1>4, <1>5, <1>6, <1>7 DEF Next

LEMMA OneAtATimeNext ==
  Shape /\ KindsApart /\ AloneInv /\ OneAtATime /\ [Next]_vars => OneAtATime'
<1> SUFFICES ASSUME Shape, KindsApart, AloneInv, OneAtATime, [Next]_vars, ~raced' PROVE Standing'
  BY DEF OneAtATime
<1>1. ~raced /\ Alone /\ Standing
  BY RacedStays DEF AloneInv, OneAtATime
<1>2. CASE UNCHANGED <<jobs, charges, paid, rqQueue, horse, threads, api>>
  BY <1>1, <1>2, StandingExpire
<1>3. ASSUME NEW s \in Slots, Serve(s) PROVE Standing'
  <2>1. CASE UploadCheck(s) \/ UploadDuplicate(s) \/ UploadCapacity(s) \/ UploadFind(s)
    BY <1>1, <2>1, StandingLook
  <2>2. CASE UploadInsert(s)
    BY <1>1, <2>2, StandingInsert
  <2>3. CASE UploadReset(s) \/ UploadFail(s)
    BY <1>1, <2>3, StandingRewrite
  <2>4. CASE UploadEnqueue(s) \/ UploadEnqueueRaises(s)
    BY <1>1, <2>4, StandingQueue
  <2>5. CASE UploadQuota(s) \/ UploadRefused(s) \/ UploadRelease(s) \/ PayQuota(s) \/ PayRefused(s)
    BY <1>1, <2>5, StandingCount
  <2>6. CASE PayDispatch(s)
    BY <1>1, <2>6, StandingCount, StandingDispatch
  <2>7. CASE PayStep(s)
    BY <1>1, <2>7, StandingPay
  <2>8. CASE DashStep(s)
    BY <1>1, <2>8, StandingDash
  <2> QED
    BY <1>3, <2>1, <2>2, <2>3, <2>4, <2>5, <2>6, <2>7, <2>8 DEF Serve, Admit, PayStep, DashStep
<1>4. ASSUME NEW h \in Horses, Process(h) PROVE Standing'
  BY <1>1, <1>4, StandingTake, StandingWork
<1>5. ASSUME NEW j \in JobIds, SnapshotExpires(j) PROVE Standing'
  BY <1>2, <1>5 DEF SnapshotExpires, tableVars, procVars, ghostVars
<1>6. CASE UNCHANGED vars
  BY <1>2, <1>6 DEF vars, tableVars, redisVars, procVars, ghostVars
<1> QED
  BY <1>1, <1>3, <1>4, <1>5, <1>6, StandingAccept, StandingTranslate, StandingEnqueue, StandingCrash DEF Next

LEMMA OneAtATimeInit == Init => OneAtATime
<1> SUFFICES ASSUME Init PROVE Standing
  BY DEF OneAtATime
<1>1. \A j \in JobIds : JobStands(j)
  <2> TAKE j \in JobIds
  <2>1. \A a, m : ~Has(a, m, j)
    BY DEF Init, Has, IdleSlot, IdleHorse, IdleThread, SlotHolds
  <2>2. ~Uploaded(j)
    BY DEF Init, Uploaded, IsUpload
  <2> QED
    BY <2>1, <2>2 DEF JobStands, Unheld, OneHolder
<1>2. \A s \in Slots : SlotStands(api[s])
  BY DEF Init, SlotStands, IdleSlot, PayPlaces
<1>3. OneRow
  BY DEF Init, OneRow, Uploaded, IsUpload
<1> QED
  BY <1>1, <1>2, <1>3 DEF Standing

LEMMA AloneInit == Init => AloneInv
BY SoloInit DEF Solo, AloneInv

LEMMA OneAtATimeHolds == Spec => [](Shape /\ OneAtATime)
BY KindsInit, KindsNext, AloneInit, AloneNext, OneAtATimeInit, OneAtATimeNext, ShapeHolds, PTL DEF Spec

\* While no two requests overlapped a document sent again, after a failure, a crash or a
\* payment, never makes a second row.
THEOREM DocumentsHaveOneRow == Spec => []OneRowPerDocument
<1>1. ASSUME Shape, OneAtATime PROVE OneRowPerDocument
  <2> SUFFICES ASSUME ~raced, NEW u \in Users, NEW d \in Documents
               PROVE  Cardinality(RowsOf(u, d, Statuses)) <= 1
    BY DEF OneRowPerDocument
  <2>1. PICK rows : rows = RowsOf(u, d, Statuses)
    OBVIOUS
  <2>2. \A j, k \in rows : j = k
    <3> SUFFICES ASSUME NEW j \in rows, NEW k \in rows PROVE j = k
      OBVIOUS
    <3>1. j \in JobIds /\ k \in JobIds /\ Sent(j, u, d) /\ Sent(k, u, d)
      BY <1>1, <2>1, RowsAreSent
    <3> QED
      BY <1>1, <3>1 DEF OneAtATime, Standing, OneRow, Sent
  <2>3. CASE rows = {}
    BY <2>1, <2>3, FS_EmptySet
  <2>4. CASE rows # {}
    <3>1. PICK j \in rows : rows = {j}
      BY <2>2, <2>4
    <3>2. Cardinality({j}) = 1
      BY FS_Singleton
    <3> QED
      BY <2>1, <3>1, <3>2
  <2> QED
    BY <2>3, <2>4
<1> QED
  BY <1>1, OneAtATimeHolds, PTL

\* While no two requests overlapped a document whose upload waits for a payment is not
\* translated before that, neither for this row nor by sending the file again.
THEOREM PaidBeforeRun == Spec => []DeferredIsPaid
<1>1. ASSUME Shape, OneAtATime PROVE DeferredIsPaid
  <2> SUFFICES ASSUME ~raced, NEW j \in JobIds, jobs[j] # NoRow, jobs[j].path = "jobs", jobs[j].quote > 0, ~paid[j],
                      NEW k \in RowsOf(jobs[j].user, jobs[j].hash, {"processing", "completed"})
               PROVE  FALSE
    BY DEF DeferredIsPaid
  <2>1. Uploaded(j)
    BY DEF Uploaded, IsUpload
  <2>2. k \in JobIds /\ Sent(k, jobs[j].user, jobs[j].hash) /\ jobs[k].status # "awaiting_payment"
    BY <1>1, RowsAreSent
  <2>3. j = k
    BY <1>1, <2>1, <2>2 DEF OneAtATime, Standing, OneRow
  <2>4. jobs[j].status = "awaiting_payment"
    BY <1>1, <2>1 DEF OneAtATime, Standing, JobStands
  <2> QED
    BY <2>2, <2>3, <2>4
<1> QED
  BY <1>1, OneAtATimeHolds, PTL

-----------------------------------------------------------------------------
(* One charge of a job of the dashboard *)

LEMMA StartedKept ==
  ASSUME NEW j, Started(j), scenario' = scenario,
         \A p \in scenario.procs : memory'[p][j] = memory[p][j] \/ memory'[p][j].status \notin Startable,
         snapshot'[j] = snapshot[j] \/ snapshot'[j].status \notin Startable,
         \A s \in Slots : api'[s].job = j => api'[s] = api[s] \/ SlotCalm(api'[s]),
         \A t \in Threads : threads'[t].job = j => threads'[t] = threads[t] \/ ThreadCalm(threads'[t])
  PROVE  Started(j)'
<1>1. \A s \in Slots : api'[s].job = j => SlotCalm(api'[s])
  BY DEF Started
<1>2. \A t \in Threads : threads'[t].job = j => ThreadCalm(threads'[t])
  BY DEF Started
<1>4. \A s \in Slots : (api[s].job = j => SlotCalm(api[s]))'
  BY <1>1 DEF SlotCalm
<1>5. \A t \in Threads : (threads[t].job = j => ThreadCalm(threads[t]))'
  BY <1>2 DEF ThreadCalm
<1> QED
  BY <1>4, <1>5 DEF Started

\* Whose job was uploaded is no thread of the dashboard.
LEMMA FullApart ==
  ASSUME Shape, KindsApart, NEW t \in Threads, ThreadOnce(threads[t]), threads[t].kind \in {"full", "preview"}
  PROVE  /\ threads[t].job \in JobIds /\ ~Uploaded(threads[t].job) /\ threads[t].pc \in ThreadPlaces
         /\ threads[t].proc \in scenario.procs /\ memory[threads[t].proc][threads[t].job] # NoState
<1>1. threads[t].pc \in ThreadPlaces
  BY DEF ThreadOnce
<1>2. /\ threads[t].proc \in scenario.procs /\ threads[t].job \in JobIds
      /\ memory[threads[t].proc][threads[t].job] # NoState
  BY <1>1 DEF Shape, ThreadsOK, ThreadFits, Translating, IdleThread, ThreadPlaces
<1> QED
  BY <1>1, <1>2 DEF KindsApart, Blank

\* A thread that does not translate.
Resting(r) == r.kind \notin {"full", "preview"} /\ r.pc \notin ThreadPlaces /\ r.copy = NoState /\ r.after = "none"

LEMMA RestingOnce ==
  ASSUME NEW r, Resting(r)
  PROVE  ThreadOnce(r) /\ ThreadOnce(r)' /\ ThreadCalm(r)
BY DEF Resting, ThreadOnce, ThreadCalm, NoState, Startable, ThreadPlaces

\* A step after which nothing can be started that could not be before, and by which no
\* job of the dashboard is charged.
LEMMA OncePlain ==
  ASSUME Shape, KindsApart, DashCharges, scenario' = scenario, OneThread',
         \A j \in JobIds : charges'[j] = charges[j] \/ Uploaded(j),
         \A j \in JobIds : Uploaded(j) => Uploaded(j)',
         \A p \in scenario.procs : \A j \in JobIds : memory'[p][j] = memory[p][j] \/ memory'[p][j] = NoState,
         \A j \in JobIds : snapshot'[j] = snapshot[j] \/ snapshot'[j] = NoState,
         \A t \in Threads : threads'[t] = threads[t] \/ Resting(threads'[t]),
         \A s \in Slots : SlotOnce(api[s])',
         \A s \in Slots : api'[s] = api[s] \/ (Started(api'[s].job) => SlotCalm(api'[s]))
  PROVE  DashCharges'
<1>1. NoState.status \notin Startable
  BY DEF NoState, Startable
<1>2. \A j \in JobIds : Started(j) => Started(j)'
  <2> SUFFICES ASSUME NEW j \in JobIds, Started(j) PROVE Started(j)'
    OBVIOUS
  <2>1. \A s \in Slots : api'[s].job = j => api'[s] = api[s] \/ SlotCalm(api'[s])
    OBVIOUS
  <2>2. \A t \in Threads : threads'[t].job = j => threads'[t] = threads[t] \/ ThreadCalm(threads'[t])
    BY RestingOnce
  <2>3. \A p \in scenario.procs : memory'[p][j] = memory[p][j] \/ memory'[p][j].status \notin Startable
    BY <1>1
  <2>4. snapshot'[j] = snapshot[j] \/ snapshot'[j].status \notin Startable
    BY <1>1
  <2> QED
    BY <2>1, <2>2, <2>3, <2>4, StartedKept
<1>3. \A j \in JobIds : JobOnce(j)'
  BY <1>2 DEF DashCharges, JobOnce
<1>4. \A t \in Threads : ThreadOnce(threads[t])'
  <2> TAKE t \in Threads
  <2>1. PICK r : r = threads'[t]
    OBVIOUS
  <2>2. ThreadOnce(r)'
    <3>1. CASE Resting(r)
      BY <3>1, RestingOnce
    <3>2. CASE ~Resting(r)
      <4>1. r = threads[t] /\ ThreadOnce(r)
        BY <2>1, <3>2 DEF DashCharges
      <4>2. r.kind = "full" => r.job \in JobIds /\ ~Uploaded(r.job)
        BY <4>1, FullApart
      <4> QED
        BY <1>2, <4>1, <4>2 DEF ThreadOnce, Unsettled
    <3> QED
      BY <3>1, <3>2
  <2> QED
    BY <2>1, <2>2
<1> QED
  BY <1>3, <1>4 DEF DashCharges

LEMMA SlotOnceKept ==
  ASSUME NEW r, SlotOnce(r), memory' = memory, scenario' = scenario,
         snapshot'[r.job] = snapshot[r.job] \/ snapshot'[r.job] = NoState,
         r.pc = "upload" => charges'[r.job] = charges[r.job]
  PROVE  SlotOnce(r)'
BY DEF SlotOnce, Queues, NoState, Startable

LEMMA IdleOnce == SlotOnce(IdleSlot) /\ SlotOnce(IdleSlot)' /\ SlotCalm(IdleSlot)
BY DEF SlotOnce, SlotCalm, IdleSlot, Before, Startable, NoState

\* A request that goes on to a place from where it starts nothing.
Moves(old, q) ==
  \/ q = IdleSlot
  \/ /\ q.pc \notin Before \cup {"upload"} /\ q.req = old.req /\ q.copy = old.copy /\ q.spawn = old.spawn
     /\ q.job = old.job \/ old.req.op = "translate"
     /\ old.spawn # "full"

LEMMA MovedOnce ==
  ASSUME DashCharges, NEW s \in Slots, NEW q, Moves(api[s], q)
  PROVE  SlotOnce(q)' /\ (Started(q.job) => SlotCalm(q))
<1>1. CASE q = IdleSlot
  BY <1>1, IdleOnce
<1>2. CASE q # IdleSlot
  <2>1. PICK old : old = api[s]
    OBVIOUS
  <2>2. SlotOnce(old) /\ Moves(old, q)
    BY <2>1 DEF DashCharges
  <2>3. SlotOnce(q)'
    BY <1>2, <2>2 DEF SlotOnce, Moves
  <2>4. ASSUME Started(q.job) PROVE SlotCalm(q)
    <3>1. CASE old.req.op = "translate"
      <4>1. old.copy = NoState /\ old.spawn = "none"
        BY <2>2, <3>1 DEF SlotOnce, Asking
      <4> QED
        BY <1>2, <2>2, <4>1 DEF Moves, SlotCalm, NoState, Startable
    <3>2. CASE old.req.op # "translate"
      <4>1. SlotCalm(old)
        BY <1>2, <2>1, <2>2, <2>4, <3>2 DEF Moves, Started
      <4> QED
        BY <1>2, <2>2, <4>1 DEF Moves, SlotCalm
    <3> QED
      BY <3>1, <3>2
  <2> QED
    BY <2>3, <2>4
<1> QED
  BY <1>1, <1>2

\* A step that moves one request like this.
LEMMA OnceMove ==
  ASSUME Shape, KindsApart, DashCharges, NEW s \in Slots, scenario' = scenario, OneThread',
         UNCHANGED <<memory, snapshot, charges>>, \A j \in JobIds : Uploaded(j) => Uploaded(j)',
         \A t \in Threads : threads'[t] = threads[t] \/ Resting(threads'[t]),
         \A k \in Slots \ {s} : api'[k] = api[k], Moves(api[s], api'[s])
  PROVE  DashCharges'
<1>1. PICK q : q = api'[s]
  OBVIOUS
<1>2. SlotOnce(q)' /\ (Started(q.job) => SlotCalm(q))
  BY <1>1, MovedOnce
<1>3. \A k \in Slots : SlotOnce(api[k])'
  <2> TAKE k \in Slots
  <2>1. CASE k = s
    BY <1>1, <1>2, <2>1
  <2>2. CASE k # s
    <3>1. PICK r : r = api[k]
      OBVIOUS
    <3>2. SlotOnce(r)'
      BY <3>1, SlotOnceKept DEF DashCharges
    <3> QED
      BY <2>2, <3>1, <3>2
  <2> QED
    BY <2>1, <2>2
<1>4. \A k \in Slots : api'[k] = api[k] \/ (Started(api'[k].job) => SlotCalm(api'[k]))
  BY <1>1, <1>2
<1> QED
  BY <1>3, <1>4, OncePlain

LEMMA UploadedStays ==
  ASSUME Shape, NEW s \in Slots, UploadStep(s) \/ QuotaStep(s) \/ PayStep(s)
  PROVE  \A j \in JobIds : Uploaded(j) => Uploaded(j)'
<1> SUFFICES ASSUME NEW j \in JobIds, IsUpload(jobs[j]) PROVE IsUpload(jobs'[j])
  BY DEF Uploaded
<1>1. PICK old \in Row : old = jobs[j]
  BY DEF IsUpload, Shape, DataOK, TablesOK
<1>2. jobs \in [JobIds -> Row \cup {NoRow}]
  BY DEF Shape, DataOK, TablesOK
<1>3. CASE jobs' = jobs
  BY <1>3
<1>4. CASE UploadInsert(s)
  <2>1. PICK row : row = NewRow(Of(s))
    OBVIOUS
  <2>2. jobs'[j] = old \/ jobs'[j] = row
    BY <1>1, <1>2, <1>4, <2>1 DEF UploadInsert
  <2> QED
    BY <1>1, <2>1, <2>2 DEF NewRow, IsUpload, NoRow
<1>5. CASE UploadReset(s) \/ UploadFail(s) \/ PayCommit(s)
  <2>1. PICK row : row = jobs'[j]
    OBVIOUS
  <2>2. \/ row = old
        \/ row = [old EXCEPT !.status = "pending", !.output = "none", !.attempt = 0, !.cost = 0]
        \/ row = [old EXCEPT !.status = "failed"]
        \/ row = [old EXCEPT !.status = "pending", !.attempt = 0]
    BY <1>1, <1>2, <1>5, <2>1, ZenonT(60) DEF UploadReset, UploadFail, PayCommit
  <2>3. CASE row = old
    BY <1>1, <2>1, <2>3
  <2>4. CASE row # old
    <3>1. row.path = old.path /\ row # NoRow
      BY <2>2, <2>4 DEF Row, NoRow
    <3> QED
      BY <1>1, <2>1, <3>1 DEF IsUpload
  <2> QED
    BY <2>3, <2>4
<1> QED
  BY <1>3, <1>4, <1>5, QuotaWrites
     DEF UploadStep, UploadCheck, UploadDuplicate, UploadCapacity, UploadFind, PayStep, PayCredit, PayLoad, tableVars

\* Requests about uploads and payments.
LEMMA OnceRequest ==
  ASSUME Shape, KindsApart, Alone, DashCharges, NEW s \in Slots, UploadStep(s) \/ QuotaStep(s) \/ PayStep(s)
  PROVE  DashCharges'
<1>1. Advances(s)
  BY UploadAdvances, QuotaAdvances, OtherAdvances DEF PayStep, OtherStep
<1>2. UNCHANGED <<memory, snapshot, charges>>
  BY UploadWrites, QuotaWrites, PayWrites
<1>3. scenario' = scenario
  BY DEF UploadStep, UploadCheck, UploadDuplicate, UploadCapacity, UploadFind, UploadInsert, UploadReset, UploadFail,
     QuotaStep, UploadQuota, UploadRefused, UploadEnqueue, UploadEnqueueRaises, UploadRelease, PayQuota,
     PayRefused, PayDispatch, PayStep, PayCredit, PayLoad, PayCommit, countVars
<1>4. PICK old : old = api[s]
  OBVIOUS
<1>5. /\ old.pc \in UploadPlaces \cup RowPlaces \cup PayPlaces \cup {"u_insert"}
      /\ api \in [Slots -> Slot] /\ old \in Slot /\ s \in Busy /\ Serving(old)
  <2>1. old.pc \in UploadPlaces \cup RowPlaces \cup PayPlaces \cup {"u_insert"}
    BY <1>4 DEF UploadStep, UploadCheck, UploadDuplicate, UploadCapacity, UploadFind, UploadInsert, UploadReset, UploadFail,
       QuotaStep, UploadQuota, UploadRefused, UploadEnqueue, UploadEnqueueRaises, UploadRelease, PayQuota,
       PayRefused, PayDispatch, PayStep, PayCredit, PayLoad, PayCommit, At, UploadPlaces, RowPlaces, PayPlaces
  <2>2. ~At(s, "idle")
    BY <1>4, <2>1 DEF At, UploadPlaces, RowPlaces, PayPlaces
  <2> QED
    BY <1>4, <2>1, <2>2, Served DEF Busy, Shape, SlotsOK
<1>6. old.spawn # "full"
  <2>1. old.pc \notin {"sync", "write", "publish", "set", "spawn"}
    BY <1>5 DEF UploadPlaces, RowPlaces, PayPlaces
  <2> QED
    BY <1>4, <2>1 DEF DashCharges, SlotOnce
<1>7. \/ Answer(s)
      \/ \E pc \in UploadPlaces \cup RowPlaces \cup PayPlaces \cup {"u_insert", "restore"} :
           \/ Goto(s, pc)
           \/ old.req.op = "translate" /\ \E j : api' = [api EXCEPT ![s].pc = pc, ![s].job = j]
  <2>1. CASE UploadFind(s)
    <3>1. old.req.op = "translate"
      BY <1>4, <1>5, <2>1 DEF UploadFind, At, Serving, Serves, UploadPlaces
    <3>2. PICK pc \in {"u_reset", "u_insert"} : \E j : api' = [api EXCEPT ![s].pc = pc, ![s].job = j]
      BY <2>1 DEF UploadFind
    <3> QED
      BY <3>1, <3>2 DEF RowPlaces
  <2>2. CASE ~UploadFind(s)
    <3>1. \/ Answer(s)
          \/ \E pc \in {"u_dup", "u_capacity", "u_find", "u_quota", "u_enqueue", "u_refused", "u_release", "u_fail",
                        "activate", "pending", "pay_quota", "dispatch", "pay_refused", "restore"} : Goto(s, pc)
      BY <2>2 DEF UploadStep, UploadCheck, UploadDuplicate, UploadCapacity, UploadInsert, UploadReset, UploadFail,
         QuotaStep, UploadQuota, UploadRefused, UploadEnqueue, UploadEnqueueRaises, UploadRelease, PayQuota,
         PayRefused, PayDispatch, PayStep, PayCredit, PayLoad, PayCommit, Stored, Reserve
    <3> QED
      BY <3>1 DEF UploadPlaces, RowPlaces, PayPlaces
  <2> QED
    BY <2>1, <2>2
<1>8. Moves(old, api'[s])
  <2>1. CASE Answer(s)
    BY <1>5, <2>1 DEF Answer, Moves
  <2>2. ASSUME NEW pc \in UploadPlaces \cup RowPlaces \cup PayPlaces \cup {"u_insert", "restore"},
               Goto(s, pc) \/ (old.req.op = "translate" /\ \E j : api' = [api EXCEPT ![s].pc = pc, ![s].job = j])
        PROVE  Moves(old, api'[s])
    <3>1. pc \notin Before \cup {"upload"}
      BY DEF Before, UploadPlaces, RowPlaces, PayPlaces
    <3>2. PICK q : q = api'[s]
      OBVIOUS
    <3>3. /\ q.pc = pc /\ q.req = old.req /\ q.copy = old.copy /\ q.spawn = old.spawn
          /\ q.job = old.job \/ old.req.op = "translate"
      BY <1>4, <1>5, <2>2, <3>2 DEF Goto, Slot
    <3> QED
      BY <1>6, <3>1, <3>2, <3>3 DEF Moves
  <2> QED
    BY <1>7, <2>1, <2>2
<1>9. OneThread' /\ \A t \in Threads : threads'[t] = threads[t] \/ Resting(threads'[t])
  <2>1. CASE threads' = threads
    BY <2>1 DEF DashCharges, OneThread
  <2>2. CASE threads' # threads
    <3>1. Spawn(s, "enqueue") /\ PayDispatch(s)
      BY <2>2 DEF UploadStep, UploadCheck, UploadDuplicate, UploadCapacity, UploadFind, UploadInsert, UploadReset, UploadFail,
         QuotaStep, UploadQuota, UploadRefused, UploadEnqueue, UploadEnqueueRaises, UploadRelease, PayQuota,
         PayRefused, PayDispatch, PayStep, PayCredit, PayLoad, PayCommit, procVars
    <3>2. PICK n : n = Begun(s, "enqueue")
      OBVIOUS
    <3>3. n.job = old.job /\ Resting(n)
      BY <1>4, <3>2 DEF Begun, IdleThread, Resting, ThreadPlaces
    <3>4. PICK t \in Threads : threads' = [threads EXCEPT ![t] = n]
      BY <3>1, <3>2, SpawnIs
    <3>5. threads'[t] = n /\ \A d \in Threads \ {t} : threads'[d] = threads[d]
      BY <3>4 DEF Shape, ThreadsOK
    <3>6. \A d \in Threads : threads[d].job # old.job
      <4>1. old.req.op = "pay"
        BY <1>4, <1>5, <3>1 DEF PayDispatch, At, Serving, Serves, PayPlaces
      <4> QED
        BY <1>4, <1>5, <4>1 DEF Alone, Asking
    <3> QED
      BY <3>3, <3>5, <3>6 DEF DashCharges, OneThread
  <2> QED
    BY <2>1, <2>2
<1> QED
  BY <1>1, <1>2, <1>3, <1>4, <1>8, <1>9, UploadedStays, OnceMove DEF Advances

LEMMA OnceAccept ==
  ASSUME Shape, KindsApart, DashCharges, NEW s \in Slots, Accept(s)
  PROVE  DashCharges'
<1>1. PICK pc, r, j : r \in scenario.requests /\ Begin(s, r, pc, j) /\ BeginsWith(r, pc, j)
  BY AcceptIs
<1>2. /\ \A k \in Slots \ {s} : api'[k] = api[k]
      /\ api'[s].pc = pc /\ api'[s].req = r /\ api'[s].job = j
      /\ api'[s].copy = NoState /\ api'[s].spawn = "none"
      /\ UNCHANGED <<tableVars, redisVars, procVars, horse, ghostVars, scenario>>
  BY <1>1, BeginIs
<1>3. UNCHANGED <<jobs, snapshot, memory, threads, charges, scenario>>
  BY <1>2 DEF tableVars, redisVars, procVars, ghostVars
<1>4. PICK q : q = api'[s]
  OBVIOUS
<1>5. SlotCalm(q)
  BY <1>1, <1>2, <1>4 DEF BeginsWith, SlotCalm, Before, NoState, Startable
<1>6. SlotOnce(q)'
  <2>1. pc = "upload" => charges'[j] = 0 /\ \A p \in scenario'.procs : memory'[p][j] = NoState
    BY <1>1, <1>3, FreshIsNew DEF BeginsWith, IsNew, Blank
  <2> QED
    BY <1>2, <1>4, <2>1 DEF SlotOnce
<1>7. \A k \in Slots : SlotOnce(api[k])'
  <2> TAKE k \in Slots
  <2>1. CASE k = s
    BY <1>4, <1>6, <2>1
  <2>2. CASE k # s
    <3>1. PICK o : o = api[k]
      OBVIOUS
    <3>2. SlotOnce(o)'
      BY <1>3, <3>1, SlotOnceKept DEF DashCharges
    <3> QED
      BY <1>2, <2>2, <3>1, <3>2
  <2> QED
    BY <2>1, <2>2
<1>8. OneThread' /\ \A k \in JobIds : Uploaded(k) => Uploaded(k)'
  BY <1>3 DEF DashCharges, OneThread, Uploaded
<1>9. \A k \in Slots : api'[k] = api[k] \/ (Started(api'[k].job) => SlotCalm(api'[k]))
  BY <1>2, <1>4, <1>5
<1> QED
  BY <1>3, <1>7, <1>8, <1>9, OncePlain

\* A step that no request takes and that no thread begins with.
LEMMA OnceApart ==
  ASSUME Shape, KindsApart, DashCharges, scenario' = scenario, UNCHANGED <<api, memory>>,
         \A j \in JobIds : snapshot'[j] = snapshot[j] \/ snapshot'[j] = NoState,
         \A t \in Threads : threads'[t] = threads[t] \/ threads'[t] = IdleThread,
         \A j \in JobIds : charges'[j] = charges[j] \/ Uploaded(j),
         \A j \in JobIds : Uploaded(j) => Uploaded(j)'
  PROVE  DashCharges'
<1>1. \A s \in Slots : SlotOnce(api[s])'
  <2> TAKE s \in Slots
  <2>1. PICK r : r = api[s]
    OBVIOUS
  <2>2. r.pc = "upload" => r.job \in JobIds /\ ~Uploaded(r.job)
    BY <2>1, Served DEF At, Serving, UploadPlaces, KindsApart, KindOf, KindFits, DashPlaces, Uploaded
  <2>3. SlotOnce(r)'
    <3>1. CASE r.job \in JobIds
      BY <2>1, <2>2, <3>1, SlotOnceKept DEF DashCharges
    <3>2. CASE r.job \notin JobIds
      <4>1. r.spawn # "full" /\ r.pc # "upload"
        BY <2>1, <3>2, Served DEF DashCharges, SlotOnce, At, Serving, UploadPlaces
      <4> QED
        BY <2>1, <4>1 DEF DashCharges, SlotOnce
    <3> QED
      BY <3>1, <3>2
  <2> QED
    BY <2>1, <2>3
<1>2. Resting(IdleThread) /\ IdleThread.job = NoJob
  BY DEF Resting, IdleThread, ThreadPlaces
<1>3. OneThread'
  BY <1>2 DEF DashCharges, OneThread
<1>4. \A t \in Threads : threads'[t] = threads[t] \/ Resting(threads'[t])
  BY <1>2
<1> QED
  BY <1>1, <1>3, <1>4, OncePlain

LEMMA OnceProcess ==
  ASSUME Shape, KindsApart, DashCharges, NEW h \in Horses, Process(h)
  PROVE  DashCharges'
<1>1. CASE RqTake(h)
  BY <1>1, OnceApart DEF RqTake, tableVars, procVars, ghostVars, countVars, Uploaded
<1>2. CASE ~RqTake(h)
  <2>1. ~HAt(h, "idle") /\ UNCHANGED <<api, threads, memory, snapshot, scenario, paid>> /\ Writes(horse[h].job)
    BY <1>2, HorseWrites, HorseLeaves
  <2>2. PICK j \in JobIds, old \in Row : j = horse[h].job /\ old = jobs[j]
    BY <2>1, Working
  <2>3. Others(j) /\ Uploaded(j)
    BY <2>1, <2>2, WritesOne DEF KindsApart, HAt
  <2>4. PICK row : row = jobs'[j] /\ Worked(old, row)
    BY <1>2, <2>2, HorseRow
  <2>5. row # NoRow /\ row.path = old.path
    BY <2>4, WorkedRow
  <2>6. Uploaded(j)'
    BY <2>2, <2>3, <2>4, <2>5 DEF Uploaded, IsUpload
  <2>7. \A k \in JobIds : Uploaded(k) => Uploaded(k)'
    BY <2>3, <2>6 DEF Others, Uploaded
  <2>8. \A k \in JobIds : charges'[k] = charges[k] \/ Uploaded(k)
    BY <2>3 DEF Others
  <2> QED
    BY <2>1, <2>7, <2>8, OnceApart
<1> QED
  BY <1>1, <1>2

LEMMA OnceEnqueue ==
  ASSUME Shape, KindsApart, DashCharges, NEW t \in Threads, EnqueueThread(t)
  PROVE  DashCharges'
<1>1. PICK j \in JobIds : /\ j = threads[t].job /\ jobs[j] # NoRow /\ TAt(t, "enqueue")
                          /\ threads' = [threads EXCEPT ![t] = IdleThread]
                          /\ rqQueue' = rqQueue \/ rqQueue' = [rqQueue EXCEPT ![j] = @ + 1]
                          /\ UNCHANGED <<tableVars, quota, snapshot, memory, api, horse, paid, charges, scenario, raced>>
  BY Enqueuing
<1>2. \A d \in Threads : threads'[d] = threads[d] \/ threads'[d] = IdleThread
  BY <1>1 DEF Shape, ThreadsOK
<1>3. UNCHANGED <<jobs, snapshot, memory, api, charges, scenario>>
  BY <1>1 DEF tableVars
<1>4. \A k \in JobIds : Uploaded(k) => Uploaded(k)'
  BY <1>3 DEF Uploaded
<1> QED
  BY <1>2, <1>3, <1>4, OnceApart

LEMMA OnceExpire ==
  ASSUME Shape, KindsApart, DashCharges, NEW j \in JobIds, SnapshotExpires(j)
  PROVE  DashCharges'
<1>1. UNCHANGED <<jobs, memory, threads, api, charges, scenario>>
  BY DEF SnapshotExpires, tableVars, procVars, ghostVars, noFault
<1>2. \A k \in JobIds : snapshot'[k] = snapshot[k] \/ snapshot'[k] = NoState
  BY DEF SnapshotExpires, Shape, DataOK, RedisOK
<1>3. \A k \in JobIds : Uploaded(k) => Uploaded(k)'
  BY <1>1 DEF Uploaded
<1> QED
  BY <1>1, <1>2, <1>3, OnceApart

LEMMA OnceCrash ==
  ASSUME Shape, KindsApart, DashCharges, NEW p \in scenario.procs, scenario.procs = {p}, Crash(p)
  PROVE  DashCharges'
<1>1. UNCHANGED <<jobs, snapshot, charges, scenario>>
  BY DEF Crash, tableVars, redisVars, ghostVars
<1>2. \A s \in Slots : api'[s] = IdleSlot
  <2> TAKE s \in Slots
  <2>1. CASE api[s] = IdleSlot
    BY <2>1 DEF Crash
  <2>2. CASE api[s] # IdleSlot
    <3>1. api[s].proc = p
      BY <2>2 DEF Shape, SlotsOK, RequestFits, Serving
    <3> QED
      BY <3>1 DEF Crash
  <2> QED
    BY <2>1, <2>2
<1>3. \A t \in Threads : threads'[t] = threads[t] \/ threads'[t] = IdleThread
  BY DEF Crash
<1>4. \A q \in scenario.procs : \A j \in JobIds : memory'[q][j] = memory[q][j] \/ memory'[q][j] = NoState
  BY DEF Crash, Shape, DataOK, MemoryOK
<1>5. \A s \in Slots : SlotOnce(api[s])' /\ SlotCalm(api'[s])
  BY <1>2, IdleOnce
<1>6. Resting(IdleThread) /\ IdleThread.job = NoJob
  BY DEF Resting, IdleThread, ThreadPlaces
<1>7. OneThread' /\ \A t \in Threads : threads'[t] = threads[t] \/ Resting(threads'[t])
  BY <1>3, <1>6 DEF DashCharges, OneThread
<1>8. \A k \in JobIds : Uploaded(k) => Uploaded(k)'
  BY <1>1 DEF Uploaded
<1> QED
  BY <1>1, <1>4, <1>5, <1>7, <1>8, OncePlain

\* How a thread goes on: what it has not charged yet it had not, and with the charge it has.
ThreadTurns(old, q, st) ==
  \/ q = IdleThread
  \/ /\ q.job = old.job /\ q.kind = old.kind /\ q.pc \in ThreadPlaces
     /\ q.copy \in {old.copy, NoState, st}
     /\ "settle" \in {q.pc, q.after} => old.kind = "full" \/ "settle" \in {old.pc, old.after}
     /\ Unsettled(q) => Unsettled(old) /\ old.pc # "settle"

LEMMA ThreadGoing ==
  ASSUME Shape, NEW t \in Threads, Translate(t), NEW old \in Thread, old = threads[t], NEW st, st = Held(t)
  PROVE  \E q : threads' = [threads EXCEPT ![t] = q] /\ ThreadTurns(old, q, st)
<1> DEFINE Goes(q) == threads' = [threads EXCEPT ![t] = q] /\ ThreadTurns(old, q, st)
<1> SUFFICES \E q : Goes(q)
  OBVIOUS
<1>1. threads \in [Threads -> Thread]
  BY DEF Shape, ThreadsOK
<1>2. ASSUME NEW pc \in ThreadPlaces, TGoto(t, pc), pc \notin {"publish", "set"},
             pc = "settle" => old.kind = "full" \/ "settle" \in {old.pc, old.after},
             pc \in {"begin", "row_processing", "run", "settle"} => Unsettled(old) /\ old.pc # "settle"
      PROVE  Goes([old EXCEPT !.pc = pc])
  <2>1. PICK q : q = [old EXCEPT !.pc = pc]
    OBVIOUS
  <2>2. threads' = [threads EXCEPT ![t] = q]
    BY <1>1, <1>2, <2>1 DEF TGoto
  <2>3. q.job = old.job /\ q.kind = old.kind /\ q.pc = pc /\ q.copy = old.copy /\ q.after = old.after
    BY <2>1 DEF Thread
  <2>4. ThreadTurns(old, q, st)
    BY <1>2, <2>3 DEF ThreadTurns, Unsettled, ThreadPlaces
  <2> QED
    BY <2>1, <2>2, <2>4
<1>3. ASSUME NEW after, Publishes(t, after), after = "settle" => old.kind = "full",
             after \in {"row_processing", "settle"} => Unsettled(old) /\ old.pc # "settle", old.pc # "settle"
      PROVE  Goes([old EXCEPT !.pc = "publish", !.after = after])
  <2>1. PICK q : q = [old EXCEPT !.pc = "publish", !.after = after]
    OBVIOUS
  <2>2. threads' = [threads EXCEPT ![t] = q]
    BY <1>1, <1>3, <2>1 DEF Publishes
  <2>3. q.job = old.job /\ q.kind = old.kind /\ q.pc = "publish" /\ q.copy = old.copy /\ q.after = after
    BY <2>1 DEF Thread
  <2>4. ThreadTurns(old, q, st)
    BY <1>3, <2>3 DEF ThreadTurns, Unsettled, ThreadPlaces
  <2> QED
    BY <2>1, <2>2, <2>4
<1>4. CASE ThreadBegin(t)
  <2>1. Publishes(t, "row_processing") /\ old.pc = "begin"
    BY <1>4 DEF ThreadBegin, TAt
  <2> QED
    BY <1>3, <2>1 DEF Unsettled
<1>5. CASE ThreadPublishRead(t)
  <2>1. PICK q : q = [old EXCEPT !.pc = "set", !.copy = st]
    OBVIOUS
  <2>2. threads' = [threads EXCEPT ![t] = q] /\ old.pc = "publish"
    BY <1>1, <1>5, <2>1 DEF ThreadPublishRead, TAt
  <2>3. q.job = old.job /\ q.kind = old.kind /\ q.pc = "set" /\ q.copy = st /\ q.after = old.after
    BY <2>1 DEF Thread
  <2>4. ThreadTurns(old, q, st)
    BY <2>2, <2>3 DEF ThreadTurns, Unsettled, ThreadPlaces
  <2> QED
    BY <2>2, <2>4
<1>6. CASE ThreadPublishSet(t) \/ ThreadPublishFails(t)
  <2>1. Ends(t, old.after) /\ old.pc = "set"
    BY <1>6 DEF ThreadPublishSet, ThreadPublishFails, TAt
  <2>2. old.after \in {"row_processing", "settle", "row_preview", "end"}
    BY <2>1 DEF Thread, Shape, ThreadsOK, ThreadFits, Translating, IdleThread
  <2>3. CASE old.after = "end"
    <3>1. threads' = [threads EXCEPT ![t] = IdleThread]
      BY <2>1, <2>3 DEF Ends
    <3> QED
      BY <3>1 DEF ThreadTurns
  <2>4. CASE old.after # "end"
    <3>1. PICK q : q = [old EXCEPT !.pc = old.after, !.copy = NoState]
      OBVIOUS
    <3>2. threads' = [threads EXCEPT ![t] = q]
      BY <1>1, <2>1, <2>4, <3>1 DEF Ends
    <3>3. q.job = old.job /\ q.kind = old.kind /\ q.pc = old.after /\ q.copy = NoState /\ q.after = old.after
      BY <3>1 DEF Thread
    <3>4. ThreadTurns(old, q, st)
      BY <2>1, <2>2, <2>4, <3>3 DEF ThreadTurns, Unsettled, ThreadPlaces
    <3> QED
      BY <3>2, <3>4
  <2> QED
    BY <2>3, <2>4
<1>7. CASE ThreadRowProcessing(t) \/ (ThreadRowFails(t) /\ TAt(t, "row_processing"))
  <2>1. TGoto(t, "run") /\ old.pc = "row_processing"
    BY <1>7 DEF ThreadRowProcessing, ThreadRowFails, TAt
  <2> QED
    BY <1>2, <2>1 DEF Unsettled, ThreadPlaces
<1>8. CASE ThreadRun(t)
  <2>1. /\ old.pc = "run"
        /\ Publishes(t, IF old.kind = "full" THEN "settle" ELSE "row_preview")
    BY <1>8 DEF ThreadRun, TAt
  <2> QED
    BY <1>3, <2>1 DEF Unsettled
<1>9. CASE ThreadRaises(t)
  <2>1. TGoto(t, "row_failed")
    BY <1>9 DEF ThreadRaises
  <2> QED
    BY <1>2, <2>1 DEF ThreadPlaces
<1>10. CASE ThreadRowFailed(t) \/ ThreadRowPreview(t) \/ ThreadRowCompleted(t) \/ (ThreadRowFails(t) /\ ~TAt(t, "row_processing"))
  <2>1. Publishes(t, "end") /\ old.pc # "settle"
    BY <1>10 DEF ThreadRowFailed, ThreadRowPreview, ThreadRowCompleted, ThreadRowFails, TAt
  <2> QED
    BY <1>3, <2>1
<1>11. CASE ThreadSettleFails(t) \/ ThreadBill(t)
  <2>1. TGoto(t, "row_completed")
    BY <1>11 DEF ThreadSettleFails, ThreadBill
  <2> QED
    BY <1>2, <2>1 DEF ThreadPlaces
<1>12. CASE ThreadSettle(t)
  <2>1. CASE TGoto(t, "row_completed")
    BY <1>2, <2>1 DEF ThreadPlaces
  <2>2. CASE ~TGoto(t, "row_completed")
    <3>1. PICK cost : threads' = [threads EXCEPT ![t].pc = "bill", ![t].cost = cost]
      BY <1>12, <2>2 DEF ThreadSettle
    <3>2. PICK q : q = [old EXCEPT !.pc = "bill", !.cost = cost]
      OBVIOUS
    <3>3. threads' = [threads EXCEPT ![t] = q] /\ old.pc = "settle"
      BY <1>1, <1>12, <3>1, <3>2 DEF ThreadSettle, TAt
    <3>4. q.job = old.job /\ q.kind = old.kind /\ q.pc = "bill" /\ q.copy = old.copy /\ q.after = old.after
      BY <3>2 DEF Thread
    <3>5. ThreadTurns(old, q, st)
      BY <3>3, <3>4 DEF ThreadTurns, Unsettled, ThreadPlaces
    <3> QED
      BY <3>3, <3>5
  <2> QED
    BY <2>1, <2>2
<1> QED
  BY <1>4, <1>5, <1>6, <1>7, <1>8, <1>9, <1>10, <1>11, <1>12 DEF Translate

\* What a thread leaves in memory, in the snapshot and of the charges.
ThreadNotes(p, j, st, kind) ==
  \/ memory' = memory
  \/ \E m : /\ memory' = [memory EXCEPT ![p][j] = m]
            /\ \/ m.status \in {st.status, "processing", "completed", "failed"}
               \/ m.status = "preview_ready" /\ kind # "full"

LEMMA ThreadLeaves ==
  ASSUME Shape, NEW t \in Threads, Translate(t), NEW j \in JobIds, j = JobOf(t), NEW st \in State, st = Held(t)
  PROVE  /\ ThreadNotes(threads[t].proc, j, st, threads[t].kind)
         /\ snapshot' = snapshot \/ snapshot' = [snapshot EXCEPT ![j] = threads[t].copy]
         /\ charges' = charges \/ (charges' = [charges EXCEPT ![j] = @ + 1] /\ threads[t].pc = "settle")
<1>1. \/ memory' = memory
      \/ \E m : /\ memory' = [memory EXCEPT ![threads[t].proc][j] = m]
                /\ \/ m.status \in {st.status, "processing", "completed", "failed"}
                   \/ m.status = "preview_ready" /\ threads[t].kind # "full"
  <2>1. CASE ThreadBegin(t) \/ ThreadRun(t) \/ ThreadRaises(t) \/ ThreadBill(t)
    <3>1. PICK m : /\ Becomes(t, m)
                   /\ \/ m = [st EXCEPT !.status = "processing"]
                      \/ m = [st EXCEPT !.status = "completed", !.docx = "full"]
                      \/ m = [st EXCEPT !.status = "preview_ready", !.docx = "preview"] /\ threads[t].kind # "full"
                      \/ m = [st EXCEPT !.status = "failed"]
                      \/ m = [st EXCEPT !.bill = TRUE, !.cost = threads[t].cost]
      BY <2>1 DEF ThreadBegin, ThreadRun, ThreadRaises, ThreadBill
    <3>2. \/ m.status \in {st.status, "processing", "completed", "failed"}
          \/ m.status = "preview_ready" /\ threads[t].kind # "full"
      BY <3>1 DEF State, AnyState
    <3> QED
      BY <3>1, <3>2 DEF Becomes
  <2>2. CASE ~(ThreadBegin(t) \/ ThreadRun(t) \/ ThreadRaises(t) \/ ThreadBill(t))
    BY <2>2 DEF Translate, ThreadPublishRead, ThreadPublishSet, ThreadPublishFails, ThreadRowProcessing,
       ThreadRowFailed, ThreadRowPreview, ThreadSettle, ThreadSettleFails, ThreadRowCompleted, ThreadRowFails
  <2> QED
    BY <2>1, <2>2
<1>2. snapshot' = snapshot \/ snapshot' = [snapshot EXCEPT ![j] = threads[t].copy]
  BY DEF Translate, ThreadBegin, ThreadPublishRead, ThreadPublishSet, ThreadPublishFails,
     ThreadRowProcessing, ThreadRun, ThreadRaises, ThreadRowFailed, ThreadRowPreview, ThreadSettle, ThreadSettleFails,
     ThreadBill, ThreadRowCompleted, ThreadRowFails, redisVars
<1>3. charges' = charges \/ (charges' = [charges EXCEPT ![j] = @ + 1] /\ threads[t].pc = "settle")
  BY DEF Translate, ThreadBegin, ThreadPublishRead, ThreadPublishSet, ThreadPublishFails,
     ThreadRowProcessing, ThreadRun, ThreadRaises, ThreadRowFailed, ThreadRowPreview, ThreadSettle, ThreadSettleFails,
     ThreadBill, ThreadRowCompleted, ThreadRowFails, ghostVars, ChargeWords, TAt
<1> QED
  BY <1>1, <1>2, <1>3 DEF ThreadNotes

\* What a request relies on is left alone by the threads.
LEMMA SlotApart ==
  ASSUME Shape, KindsApart, Alone, DashCharges, NEW s \in Slots, NEW t \in Threads, NEW j \in JobIds,
         NEW p \in scenario.procs, j = threads[t].job, memory[p][j] # NoState, Others(j), scenario' = scenario, api' = api
  PROVE  SlotOnce(api[s])'
<1>1. PICK r : r = api[s]
  OBVIOUS
<1>2. SlotOnce(r)
  BY <1>1 DEF DashCharges
<1>3. r.spawn = "full" => r.proc \in scenario.procs /\ r.job \in JobIds \ {j}
  <2> HAVE r.spawn = "full"
  <2>1. r.pc \in {"sync", "write", "publish", "set", "spawn"} /\ r.req.op \in Asking
    BY <1>2 DEF SlotOnce
  <2>2. s \in Busy /\ Serving(r)
    BY <1>1, <2>1, Served DEF Busy, At
  <2> QED
    BY <1>1, <2>1, <2>2 DEF Alone, Serving, UploadPlaces
<1>4. r.pc = "upload" => r.job \in JobIds \ {j}
  <2> HAVE r.pc = "upload"
  <2>1. Serving(r)
    BY <1>1, Served DEF At
  <2>2. r.job # j
    BY <1>2 DEF SlotOnce
  <2> QED
    BY <2>1, <2>2 DEF Serving, UploadPlaces
<1>5. SlotOnce(r)'
  BY <1>2, <1>3, <1>4 DEF SlotOnce, Queues, Others
<1> QED
  BY <1>1, <1>5

LEMMA OnceTranslate ==
  ASSUME Shape, KindsApart, Alone, DashCharges, NEW t \in Threads, Translate(t)
  PROVE  DashCharges'
<1>1. PICK j \in JobIds : /\ j = threads[t].job /\ ~IsUpload(jobs[j]) /\ ~IsUpload(jobs'[j])
                          /\ Others(j) /\ UNCHANGED <<api, scenario>>
  BY TranslateApart
<1>2. PICK old : old = threads[t]
  OBVIOUS
<1>3. old.pc \in ThreadPlaces
  BY <1>2 DEF Translate, ThreadBegin, ThreadPublishRead, ThreadPublishSet, ThreadPublishFails,
     ThreadRowProcessing, ThreadRun, ThreadRaises, ThreadRowFailed, ThreadRowPreview, ThreadSettle, ThreadSettleFails,
     ThreadBill, ThreadRowCompleted, ThreadRowFails, TAt, ThreadPlaces
<1>4. /\ old \in Thread /\ old.proc \in scenario.procs /\ Held(t) \in State
      /\ JobOf(t) = j /\ Held(t) = memory[old.proc][j] /\ Held(t) # NoState
  <2>1. old \in Thread /\ old.proc \in scenario.procs /\ Held(t) \in State
    BY <1>2, <1>3, Running
  <2> QED
    BY <1>1, <1>2, <2>1, Distinct DEF JobOf, Held
<1>5. PICK st \in State : st = Held(t)
  BY <1>4
<1>6. PICK q : threads' = [threads EXCEPT ![t] = q] /\ ThreadTurns(old, q, st)
  BY <1>2, <1>4, <1>5, ThreadGoing
<1>7. /\ ThreadNotes(old.proc, j, st, old.kind)
      /\ snapshot' = snapshot \/ snapshot' = [snapshot EXCEPT ![j] = old.copy]
      /\ charges' = charges \/ (charges' = [charges EXCEPT ![j] = @ + 1] /\ old.pc = "settle")
  <2>1. j = JobOf(t) /\ st = Held(t)
    BY <1>4, <1>5
  <2>2. ThreadNotes(threads[t].proc, j, st, threads[t].kind)
    BY <2>1, ThreadLeaves
  <2>3. /\ snapshot' = snapshot \/ snapshot' = [snapshot EXCEPT ![j] = threads[t].copy]
        /\ charges' = charges \/ (charges' = [charges EXCEPT ![j] = @ + 1] /\ threads[t].pc = "settle")
    BY <2>1, ThreadLeaves
  <2> QED
    BY <1>2, <2>2, <2>3
<1>8. ThreadOnce(old) /\ old.kind \in {"full", "preview"}
  BY <1>2, <1>3 DEF DashCharges, ThreadOnce
<1>9. j # NoJob /\ q.job \in {j, NoJob}
  BY <1>1, <1>2, <1>6, StoreConstants DEF ThreadTurns, IdleThread, NoJob
<1>10. threads'[t] = q /\ \A d \in Threads \ {t} : threads'[d] = threads[d] /\ threads[d].job # j
  BY <1>1, <1>6, <1>9 DEF DashCharges, OneThread, Shape, ThreadsOK
<1>11. OneThread'
  BY <1>1, <1>9, <1>10 DEF DashCharges, OneThread
<1>12. \A k \in JobIds \ {j} : Started(k) => Started(k)'
  <2> TAKE k \in JobIds \ {j}
  <2> HAVE Started(k)
  <2>1. snapshot'[k] = snapshot[k] /\ \A p \in scenario.procs : memory'[p][k] = memory[p][k]
    BY <1>1 DEF Others
  <2>2. \A d \in Threads : threads'[d].job = k => threads'[d] = threads[d]
    BY <1>9, <1>10, StoreConstants DEF NoJob
  <2> QED
    BY <1>1, <2>1, <2>2, StartedKept
<1>13. \A s \in Slots : SlotOnce(api[s])'
  BY <1>1, <1>4, SlotApart
<1>14. ASSUME JobOnce(j)', ThreadOnce(q)' PROVE DashCharges'
  <2>1. \A k \in JobIds : JobOnce(k)'
    BY <1>1, <1>12, <1>14 DEF DashCharges, JobOnce, Others, Uploaded
  <2>2. ASSUME NEW d \in Threads \ {t} PROVE ThreadOnce(threads[d])'
    <3>1. PICK r : r = threads[d]
      OBVIOUS
    <3>2. ThreadOnce(r) /\ r.job # j
      BY <1>10, <3>1 DEF DashCharges
    <3>3. r.kind = "full" => r.job \in JobIds \ {j}
      BY <3>1, <3>2, FullApart
    <3>4. ThreadOnce(r)'
      BY <1>1, <1>12, <3>2, <3>3 DEF ThreadOnce, Unsettled, Others
    <3> QED
      BY <1>10, <3>1, <3>4
  <2> QED
    BY <1>10, <1>11, <1>13, <1>14, <2>1, <2>2 DEF DashCharges
<1>15. charges \in [JobIds -> Nat] /\ snapshot \in [JobIds -> State \cup {NoState}] /\ ~Uploaded(j)
  BY <1>1 DEF Shape, DataOK, GhostsOK, RedisOK, Uploaded
<1>16. CASE old.kind = "full"
  <2>1. Started(j)
    BY <1>1, <1>2, <1>8, <1>16 DEF ThreadOnce
  <2>2. st.status \notin Startable /\ old.copy.status \notin Startable
    BY <1>1, <1>2, <1>4, <1>5, <2>1 DEF Started, ThreadCalm
  <2>3. \A p \in scenario.procs : memory'[p][j] = memory[p][j] \/ memory'[p][j].status \notin Startable
    <3>1. CASE memory' = memory
      BY <3>1
    <3>2. ASSUME NEW m, memory' = [memory EXCEPT ![old.proc][j] = m],
                 m.status \in {st.status, "processing", "completed", "failed"}
          PROVE  \A p \in scenario.procs : memory'[p][j] = memory[p][j] \/ memory'[p][j].status \notin Startable
      <4>1. m.status \notin Startable
        BY <2>2, <3>2 DEF Startable
      <4>2. \A p \in scenario.procs : memory'[p][j] \in {memory[p][j], m}
        BY <3>2 DEF Shape, DataOK, MemoryOK
      <4> QED
        BY <4>1, <4>2
    <3> QED
      BY <1>7, <1>16, <3>1, <3>2 DEF ThreadNotes
  <2>4. snapshot'[j] = snapshot[j] \/ snapshot'[j].status \notin Startable
    BY <1>7, <1>15, <2>2
  <2>5. q = IdleThread \/ ThreadCalm(q)
    BY <1>6, <1>16, <2>2 DEF ThreadTurns, ThreadCalm, NoState, Startable
  <2>6. \A d \in Threads : threads'[d].job = j => threads'[d] = threads[d] \/ ThreadCalm(threads'[d])
    BY <1>9, <1>10, <2>5 DEF IdleThread
  <2>7. Started(j)'
    BY <1>1, <2>1, <2>3, <2>4, <2>6, StartedKept
  <2>8. JobOnce(j)'
    BY <1>1, <1>2, <1>7, <1>8, <1>15, <1>16, <2>7 DEF DashCharges, JobOnce, ThreadOnce, Unsettled
  <2>9. ThreadOnce(q)'
    <3>1. CASE q = IdleThread
      BY <3>1, RestingOnce DEF Resting, IdleThread, ThreadPlaces
    <3>2. CASE q # IdleThread
      <4>1. q.job = j /\ q.kind = "full" /\ q.pc \in ThreadPlaces
        BY <1>1, <1>2, <1>6, <1>16, <3>2 DEF ThreadTurns
      <4>2. Unsettled(q) => charges'[j] = 0
        BY <1>1, <1>2, <1>6, <1>7, <1>8, <1>16, <3>2 DEF ThreadTurns, ThreadOnce
      <4> QED
        BY <2>7, <4>1, <4>2 DEF ThreadOnce, Unsettled
    <3> QED
      BY <3>1, <3>2
  <2> QED
    BY <1>14, <2>8, <2>9
<1>17. CASE old.kind = "preview"
  <2>1. ~Started(j)
    BY <1>1, <1>2, <1>17 DEF Started, ThreadCalm
  <2>2. charges' = charges /\ charges[j] = 0
    BY <1>7, <1>8, <1>15, <1>17, <2>1 DEF DashCharges, JobOnce, ThreadOnce
  <2>3. JobOnce(j)'
    BY <2>2 DEF JobOnce
  <2>4. ThreadOnce(q)'
    <3>1. CASE q = IdleThread
      BY <3>1, RestingOnce DEF Resting, IdleThread, ThreadPlaces
    <3>2. CASE q # IdleThread
      <4>1. q.job = j /\ q.kind = "preview" /\ q.pc \in ThreadPlaces /\ "settle" \notin {q.pc, q.after}
        BY <1>1, <1>2, <1>6, <1>8, <1>17, <3>2 DEF ThreadTurns, ThreadOnce
      <4> QED
        BY <4>1 DEF ThreadOnce
    <3> QED
      BY <3>1, <3>2
  <2> QED
    BY <1>14, <2>3, <2>4
<1> QED
  BY <1>8, <1>16, <1>17

\* A request about a job of which nothing is left to start only looks at it, and answers.
LEMMA DashCalm ==
  ASSUME Shape, NEW s \in Slots, DashStep(s), ~At(s, "upload"), NEW j, j = api[s].job, Started(j),
         NEW old, old = api[s]
  PROVE  /\ UNCHANGED threads
         /\ api'[s] = IdleSlot \/ SlotCalm(api'[s])
         /\ memory' = memory \/ \E p \in scenario.procs : memory' = [memory EXCEPT ![p][j] = snapshot[j]]
         /\ snapshot' = snapshot \/ snapshot' = [snapshot EXCEPT ![j] = old.copy]
         /\ old.copy.status \notin Startable
<1>1. SlotCalm(old)
  BY DEF Started
<1>2. ~At(s, "idle")
  BY DEF DashStep, Dashboard, StoreUpload, Restore, EstimateCheck, EstimateStore, Start, ConfirmCheck, ConfirmBill,
         ConfirmAwait, ConfirmQueue, PreviewCheck, PreviewQuota, PreviewQueue, Poll, SyncRead, SyncWrite, PublishRead,
         PublishSet, SpawnThread, PayMilestone, ActivateMilestone, At
<1>3. old \in Slot /\ Serving(old) /\ api \in [Slots -> Slot]
  BY <1>2, Served DEF Shape, SlotsOK
<1>4. PICK st : st = Mine(s)
  OBVIOUS
<1>5. CASE Restore(s)
  <2>1. old.pc = "restore" /\ old.proc \in scenario.procs /\ old.req.op \in Ops \cup {"pay"}
    BY <1>3, <1>5 DEF Restore, At, Serving, Serves
  <2>2. PICK pc : pc = old.req.op
    OBVIOUS
  <2>3. api'[s] = [old EXCEPT !.pc = pc]
    BY <1>3, <1>5, <2>2 DEF Restore, Goto, Of
  <2>4. SlotCalm(api'[s])
    BY <1>1, <1>3, <2>1, <2>2, <2>3 DEF SlotCalm, Before, Ops, Slot
  <2>5. memory' = memory \/ memory' = [memory EXCEPT ![old.proc][j] = snapshot[j]]
    BY <1>5 DEF Restore, Remember
  <2> QED
    BY <1>1, <1>5, <2>1, <2>4, <2>5 DEF Restore, SlotCalm, redisVars
<1>6. CASE EstimateCheck(s) \/ Start(s) \/ ConfirmCheck(s) \/ PreviewCheck(s) \/ Poll(s) \/ PayMilestone(s)
  <2>1. st = NoState \/ st.status \notin Startable
    <3>1. old.pc \in Ops \cup {"pay"}
      BY <1>6 DEF EstimateCheck, Start, ConfirmCheck, PreviewCheck, Poll, PayMilestone, ActivateMilestone, At, Ops
    <3>2. old.proc \in scenario.procs
      BY <1>3, <3>1 DEF Serving
    <3> QED
      BY <1>4, <3>2 DEF Started, Mine
  <2>2. Answer(s) \/ (EstimateCheck(s) /\ Goto(s, "publish"))
    BY <1>4, <1>6, <2>1 DEF EstimateCheck, Start, ConfirmCheck, PreviewCheck, Poll, PayMilestone, ActivateMilestone, Startable, Mine
  <2>3. api'[s] = IdleSlot \/ api'[s] = [old EXCEPT !.pc = "publish"]
    BY <1>3, <2>2 DEF Answer, Goto
  <2>4. api'[s] = IdleSlot \/ SlotCalm(api'[s])
    BY <1>1, <1>3, <2>3 DEF SlotCalm, Before, Slot
  <2>5. UNCHANGED <<memory, snapshot, threads>>
    BY <1>4, <1>6, <2>1 DEF EstimateCheck, Start, ConfirmCheck, PreviewCheck, Poll, PayMilestone, ActivateMilestone, Startable,
       Mine, redisVars, procVars
  <2> QED
    BY <1>1, <2>4, <2>5 DEF SlotCalm
<1>7. CASE PublishRead(s)
  <2>1. old.pc = "publish" /\ old.proc \in scenario.procs
    BY <1>3, <1>7 DEF PublishRead, At, Serving
  <2>2. st.status \notin Startable
    BY <1>4, <2>1 DEF Started, Mine
  <2>3. api'[s] = [old EXCEPT !.pc = "set", !.copy = st]
    BY <1>3, <1>4, <1>7 DEF PublishRead
  <2>4. SlotCalm(api'[s])
    BY <1>1, <1>3, <2>2, <2>3 DEF SlotCalm, Before, Slot
  <2> QED
    BY <1>1, <1>7, <2>4 DEF PublishRead, SlotCalm, redisVars, procVars
<1>8. CASE PublishSet(s)
  <2>1. Answer(s)
    BY <1>1, <1>8 DEF PublishSet, SlotCalm
  <2> QED
    BY <1>1, <1>3, <1>8, <2>1 DEF PublishSet, SlotCalm, Answer, procVars
<1>9. CASE SpawnThread(s)
  BY <1>1, <1>3, <1>9 DEF SpawnThread, At, Serving, SlotCalm
<1>10. old.pc \notin Before \cup {"upload"}
  BY <1>1 DEF SlotCalm, At
<1> QED
  BY <1>5, <1>6, <1>7, <1>8, <1>9, <1>10 DEF DashStep, Dashboard, StoreUpload, EstimateStore, ConfirmBill,
     ConfirmAwait, ConfirmQueue, PreviewQuota, PreviewQueue, SyncRead, SyncWrite, At, Before

\* A request of the dashboard that goes on, and does save its copy.
LEMMA DashStands ==
  ASSUME Shape, NEW s \in Slots, DashStep(s), "snapshot" \notin lost', NEW q, q = api'[s], SlotOnce(api[s])
  PROVE  SlotOnce(q)'
<1>1. PICK old : old = api[s]
  OBVIOUS
<1>2. ~At(s, "idle")
  BY DEF DashStep, Dashboard, StoreUpload, Restore, EstimateCheck, EstimateStore, Start, ConfirmCheck, ConfirmBill,
         ConfirmAwait, ConfirmQueue, PreviewCheck, PreviewQuota, PreviewQueue, Poll, SyncRead, SyncWrite, PublishRead,
         PublishSet, SpawnThread, PayMilestone, ActivateMilestone, At
<1>3. old \in Slot /\ Serving(old) /\ api \in [Slots -> Slot]
  BY <1>1, <1>2, Served DEF Shape, SlotsOK
<1>4. CASE q = IdleSlot
  BY <1>4, IdleOnce
<1>5. ASSUME NEW pc \in Places \ {"upload"}, Goto(s, pc), old.spawn # "full" PROVE SlotOnce(q)'
  <2>1. q = [old EXCEPT !.pc = pc]
    BY <1>1, <1>3, <1>5 DEF Goto
  <2>2. q.pc = pc /\ q.req = old.req /\ q.copy = old.copy /\ q.spawn = old.spawn /\ q.job = old.job
    BY <1>3, <2>1 DEF Slot
  <2> QED
    BY <1>1, <1>5, <2>2 DEF SlotOnce
<1>6. CASE \/ StoreUpload(s) \/ Restore(s) \/ EstimateCheck(s) \/ EstimateStore(s) \/ ConfirmCheck(s) \/ ConfirmBill(s)
           \/ PreviewCheck(s) \/ PreviewQuota(s) \/ Poll(s)
  <2>1. old.pc \in {"upload", "restore", "counted", "bill", "p_quota"} \cup Ops
    BY <1>1, <1>6 DEF StoreUpload, Restore, EstimateCheck, EstimateStore, ConfirmCheck, ConfirmBill, PreviewCheck,
       PreviewQuota, Poll, At, Ops
  <2>2. old.spawn # "full"
    BY <1>1, <2>1 DEF SlotOnce, Ops
  <2>3. Restore(s) => Of(s).op \in Ops \cup {"pay"}
    BY <1>1, <1>3 DEF Restore, At, Serving, Serves, Of
  <2>4. \/ Answer(s)
        \/ \E pc \in {"publish", "counted", "bill", "await", "queue", "p_quota", "p_queue", "pay"} \cup Ops : Goto(s, pc)
    BY <1>6, <2>3 DEF StoreUpload, Restore, EstimateCheck, EstimateStore, ConfirmCheck, ConfirmBill, PreviewCheck,
       PreviewQuota, Poll
  <2>5. Answer(s) => q = IdleSlot
    BY <1>3 DEF Answer
  <2> QED
    BY <1>4, <1>5, <2>2, <2>4, <2>5 DEF Places, DeepPlaces, Ops
<1>7. CASE Start(s) \/ ConfirmAwait(s) \/ ConfirmQueue(s) \/ PreviewQueue(s) \/ PayMilestone(s)
  <2>1. /\ old.req.op \in Asking /\ old.req.op # "translate"
        /\ old.proc \in scenario.procs /\ old.job \in JobIds
    BY <1>1, <1>3, <1>7 DEF Start, ConfirmAwait, ConfirmQueue, PreviewQueue, PayMilestone, ActivateMilestone, At,
       Serving, Serves, Asking, UploadPlaces, Ops
  <2>2. \/ Answer(s)
        \/ \E spawn \in {"none", "preview", "full"} : \E pc \in {"publish", "sync"} :
             /\ api' = [api EXCEPT ![s].pc = pc, ![s].spawn = spawn]
             /\ spawn = "full" => \E m : memory' = [memory EXCEPT ![old.proc][old.job] = m] /\ m.status = "queued"
    <3>1. PICK st : st = Mine(s)
      OBVIOUS
    <3>2. Start(s) \/ ConfirmQueue(s) \/ PayMilestone(s) => Answer(s) \/ st \in State
      <4>1. st \in State \cup {NoState}
        BY <1>1, <1>2, <2>1, <3>1, MineType
      <4>2. ConfirmQueue(s) => st # NoState
        BY <1>1, <1>3, <3>1 DEF ConfirmQueue, At, Serving, Mine, DeepPlaces
      <4> QED
        BY <3>1, <4>1, <4>2 DEF Start, PayMilestone, ActivateMilestone, Mine
    <3>3. Of(s).user \in Users \cup {Nobody}
      BY <1>2, Served DEF RequestOK, Of
    <3>4. CASE Start(s)
      <4>1. ~Answer(s) => /\ Remember(s, [Signed(s, st) EXCEPT !.status = "queued"]) /\ Commits(s, "full")
                          /\ st \in State
        BY <3>1, <3>2, <3>4 DEF Start
      <4>2. st \in State => [Signed(s, st) EXCEPT !.status = "queued"].status = "queued"
        BY <3>3, SignedType DEF State, AnyState
      <4> QED
        BY <1>1, <4>1, <4>2 DEF Commits, Remember
    <3>5. CASE ConfirmAwait(s) \/ PreviewQueue(s)
      BY <3>5 DEF ConfirmAwait, PreviewQueue, Commits
    <3>6. CASE ConfirmQueue(s)
      <4>1. Remember(s, [st EXCEPT !.status = "queued"]) /\ Commits(s, "full")
        BY <3>1, <3>6 DEF ConfirmQueue
      <4>2. Answer(s) \/ [st EXCEPT !.status = "queued"].status = "queued"
        BY <3>2, <3>6 DEF State, AnyState
      <4> QED
        BY <1>1, <4>1, <4>2 DEF Commits, Remember
    <3>7. CASE PayMilestone(s)
      <4>1. ~Answer(s) => /\ memory' = [memory EXCEPT ![api[s].proc][api[s].job].status = "queued"]
                          /\ api' = [api EXCEPT ![s].pc = "publish", ![s].spawn = "full"] /\ st \in State
        BY <3>2, <3>7 DEF PayMilestone, ActivateMilestone
      <4>2. ~Answer(s) => memory' = [memory EXCEPT ![old.proc][old.job] = [st EXCEPT !.status = "queued"]]
        BY <1>1, <2>1, <3>1, <4>1 DEF Mine, Shape, DataOK, MemoryOK
      <4>3. st \in State => [st EXCEPT !.status = "queued"].status = "queued"
        BY DEF State, AnyState
      <4> QED
        BY <4>1, <4>2, <4>3
    <3> QED
      BY <1>7, <3>4, <3>5, <3>6, <3>7
  <2>3. CASE Answer(s)
    BY <1>3, <1>4, <2>3 DEF Answer
  <2>4. ASSUME NEW spawn \in {"none", "preview", "full"}, NEW pc \in {"publish", "sync"},
               api' = [api EXCEPT ![s].pc = pc, ![s].spawn = spawn],
               spawn = "full" => \E m : memory' = [memory EXCEPT ![old.proc][old.job] = m] /\ m.status = "queued"
        PROVE  SlotOnce(q)'
    <3>1. q = [old EXCEPT !.pc = pc, !.spawn = spawn]
      BY <1>1, <1>3, <2>4
    <3>2. q.pc = pc /\ q.req = old.req /\ q.proc = old.proc /\ q.job = old.job /\ q.spawn = spawn
      BY <1>3, <3>1 DEF Slot
    <3>3. spawn = "full" => memory'[q.proc][q.job].status = "queued"
      <4> HAVE spawn = "full"
      <4>1. PICK m : memory' = [memory EXCEPT ![old.proc][old.job] = m] /\ m.status = "queued"
        BY <2>4
      <4>2. memory'[old.proc][old.job] = m
        BY <2>1, <4>1 DEF Shape, DataOK, MemoryOK
      <4> QED
        BY <3>2, <4>1, <4>2
    <3> QED
      BY <2>1, <3>2, <3>3 DEF SlotOnce, Queues
  <2> QED
    BY <2>2, <2>3, <2>4
<1>8. CASE SyncRead(s) \/ SyncWrite(s) \/ PublishRead(s)
  <2>1. old.req.op # "translate" /\ UNCHANGED <<memory, snapshot, charges, scenario>>
    BY <1>1, <1>3, <1>8 DEF SyncRead, SyncWrite, PublishRead, At, Serving, Serves, Signs, redisVars, procVars, ghostVars, countVars
  <2>2. PICK st : st = memory[old.proc][old.job]
    OBVIOUS
  <2>3. q = [old EXCEPT !.pc = "write", !.copy = st] \/ q = [old EXCEPT !.pc = "publish"] \/ q = [old EXCEPT !.pc = "set", !.copy = st]
    BY <1>1, <1>3, <1>8, <2>2 DEF SyncRead, SyncWrite, PublishRead, Goto, Mine
  <2>4. /\ q.pc \in {"write", "publish", "set"} /\ q.req = old.req /\ q.proc = old.proc /\ q.job = old.job
        /\ q.spawn = old.spawn /\ (q.pc = "set" => q.copy = st)
    BY <1>3, <2>3 DEF Slot
  <2> QED
    BY <1>1, <2>1, <2>2, <2>4 DEF SlotOnce, Queues
<1>9. CASE PublishSet(s)
  <2>1. /\ old.req.op # "translate" /\ old.pc = "set" /\ old.job \in JobIds
        /\ UNCHANGED <<memory, charges, scenario>> /\ snapshot' = [snapshot EXCEPT ![old.job] = old.copy]
    BY <1>1, <1>3, <1>9 DEF PublishSet, At, Serving, Serves, UploadPlaces, procVars, ghostVars, countVars
  <2>2. q = IdleSlot \/ q = [old EXCEPT !.pc = "spawn"]
    BY <1>1, <1>3, <1>9 DEF PublishSet, Goto, Answer
  <2>3. CASE q = [old EXCEPT !.pc = "spawn"]
    <3>1. /\ q.pc = "spawn" /\ q.req = old.req /\ q.proc = old.proc /\ q.job = old.job
          /\ q.spawn = old.spawn /\ q.copy = old.copy
      BY <1>3, <2>3 DEF Slot
    <3>2. snapshot'[q.job] = old.copy
      BY <2>1, <3>1 DEF Shape, DataOK, RedisOK
    <3> QED
      BY <1>1, <2>1, <3>1, <3>2 DEF SlotOnce, Queues, Startable
  <2> QED
    BY <1>4, <2>2, <2>3
<1>10. CASE SpawnThread(s)
  BY <1>3, <1>4, <1>10 DEF SpawnThread, Answer
<1> QED
  BY <1>6, <1>7, <1>8, <1>9, <1>10 DEF DashStep, Dashboard

\* A step of the dashboard, in a single process.
LEMMA OnceDash ==
  ASSUME Shape, KindsApart, Alone, DashCharges, NEW s \in Slots, DashStep(s), "snapshot" \notin lost',
         NEW p \in scenario.procs, scenario.procs = {p}
  PROVE  DashCharges'
<1>1. PICK j \in JobIds :
        /\ j = api[s].job /\ ~IsUpload(jobs[j]) /\ ~IsUpload(jobs'[j])
        /\ Others(j) /\ UNCHANGED <<charges, scenario>>
        /\ api'[s] = IdleSlot \/ api'[s].job = j
  BY DashApart
<1>2. OtherStep(s)
  BY DEF DashStep, OtherStep
<1>3. \A k \in Slots \ {s} : api'[k] = IdleSlot
  <2> TAKE k \in Slots \ {s}
  <2>1. api'[k] = api[k] /\ api[k].pc = "idle"
    BY <1>2, OtherAdvances, AloneRests
  <2> QED
    BY <2>1 DEF Shape, SlotsOK, RequestFits, Serving
<1>4. PICK old, q : old = api[s] /\ q = api'[s]
  OBVIOUS
<1>5. ~At(s, "idle") /\ (SpawnThread(s) \/ UNCHANGED threads)
  BY DEF DashStep, Dashboard, StoreUpload, Restore, EstimateCheck, EstimateStore, Start, ConfirmCheck, ConfirmBill,
         ConfirmAwait, ConfirmQueue, PreviewCheck, PreviewQuota, PreviewQueue, Poll, SyncRead, SyncWrite, PublishRead,
         PublishSet, SpawnThread, PayMilestone, ActivateMilestone, At, procVars
<1>6. /\ Serving(old) /\ old.proc = p /\ j # NoJob /\ ThreadOnce(IdleThread)' /\ SlotOnce(old)
  BY <1>1, <1>4, <1>5, Served, StoreConstants, RestingOnce DEF Serving, NoJob, Resting, IdleThread, ThreadPlaces, DashCharges
<1>7. \A k \in Slots : SlotOnce(api[k])'
  <2>1. SlotOnce(q)'
    BY <1>4, <1>6, DashStands
  <2>2. ASSUME NEW k \in Slots PROVE SlotOnce(api[k])'
    BY <1>3, <1>4, <2>1, IdleOnce
  <2> QED
    BY <2>2
<1>8. \A k \in Slots : api'[k].job = NoJob \/ (k = s /\ api'[k].job = j)
  BY <1>1, <1>3 DEF IdleSlot
<1>9. \A d \in Threads : threads'[d] = threads[d] \/ threads'[d].job = j
  <2>1. CASE UNCHANGED threads
    BY <2>1
  <2>2. CASE SpawnThread(s)
    <3>1. PICK t \in Threads : threads' = [threads EXCEPT ![t] = Begun(s, api[s].spawn)]
      BY <2>2, SpawnIs DEF SpawnThread
    <3>2. Begun(s, api[s].spawn).job = j
      BY <1>1 DEF Begun, IdleThread
    <3> QED
      BY <3>1, <3>2 DEF Shape, ThreadsOK
  <2> QED
    BY <1>5, <2>1, <2>2
<1>10. \A k \in JobIds \ {j} : Started(k) => Started(k)'
  <2> TAKE k \in JobIds \ {j}
  <2> HAVE Started(k)
  <2>1. snapshot'[k] = snapshot[k] /\ \A r \in scenario.procs : memory'[r][k] = memory[r][k]
    BY <1>1 DEF Others
  <2>2. k # NoJob
    BY StoreConstants DEF NoJob
  <2>3. \A d \in Threads : threads'[d].job = k => threads'[d] = threads[d]
    BY <1>9
  <2>4. \A n \in Slots : api'[n].job # k
    BY <1>8, <2>2
  <2> QED
    BY <1>1, <2>1, <2>3, <2>4, StartedKept
<1>11. \A k \in JobIds \ {j} : JobOnce(k)'
  BY <1>1, <1>10 DEF DashCharges, JobOnce, Others, Uploaded
<1>12. ASSUME NEW r, ThreadOnce(r), r.kind = "full" => r.job \in JobIds /\ (r.job = j => Started(j)')
       PROVE  ThreadOnce(r)'
  BY <1>1, <1>10, <1>12 DEF ThreadOnce, Unsettled
<1>13. \A d \in Threads : threads[d].kind = "full" => threads[d].job \in JobIds /\ memory[p][threads[d].job] # NoState
  <2> TAKE d \in Threads
  <2> HAVE threads[d].kind = "full"
  <2>1. ThreadOnce(threads[d])
    BY DEF DashCharges
  <2>2. /\ threads[d].job \in JobIds /\ threads[d].proc \in scenario.procs
        /\ memory[threads[d].proc][threads[d].job] # NoState
    BY <2>1, FullApart
  <2> QED
    BY <2>2
<1>14. CASE Started(j) /\ ~At(s, "upload")
  <2>1. /\ UNCHANGED threads
        /\ api'[s] = IdleSlot \/ SlotCalm(api'[s])
        /\ memory' = memory \/ \E r \in scenario.procs : memory' = [memory EXCEPT ![r][j] = snapshot[j]]
        /\ snapshot' = snapshot \/ snapshot' = [snapshot EXCEPT ![j] = old.copy]
        /\ old.copy.status \notin Startable
    BY <1>1, <1>4, <1>14, DashCalm
  <2>2. snapshot'[j] = snapshot[j] \/ snapshot'[j].status \notin Startable
    BY <2>1 DEF Shape, DataOK, RedisOK
  <2>3. \A r \in scenario.procs : memory'[r][j] = memory[r][j] \/ memory'[r][j] = snapshot[j]
    BY <2>1 DEF Shape, DataOK, MemoryOK
  <2>4. \A r \in scenario.procs : memory'[r][j] = memory[r][j] \/ memory'[r][j].status \notin Startable
    BY <1>14, <2>3 DEF Started
  <2>5. \A n \in Slots : api'[n].job = j => SlotCalm(api'[n])
    BY <1>3, <2>1, IdleOnce
  <2>6. Started(j)'
    BY <1>1, <1>14, <2>1, <2>2, <2>4, <2>5, StartedKept
  <2>7. JobOnce(j)'
    BY <1>1, <2>6 DEF DashCharges, JobOnce, Uploaded
  <2>8. ASSUME NEW d \in Threads PROVE ThreadOnce(threads[d])'
    <3>1. PICK r : r = threads[d]
      OBVIOUS
    <3>2. ThreadOnce(r)'
      BY <1>12, <1>13, <2>6, <3>1 DEF DashCharges
    <3> QED
      BY <2>1, <3>1, <3>2
  <2>9. OneThread'
    BY <2>1 DEF DashCharges, OneThread
  <2> QED
    BY <1>7, <1>11, <2>7, <2>8, <2>9 DEF DashCharges
<1>15. CASE ~Started(j) \/ At(s, "upload")
  <2>1. charges[j] = 0 /\ \A d \in Threads : ThreadOnce(threads[d]) /\ (threads[d].kind = "full" => threads[d].job # j)
    <3>1. CASE At(s, "upload")
      BY <1>1, <1>4, <1>6, <1>13, <3>1 DEF SlotOnce, At, DashCharges
    <3>2. CASE ~Started(j)
      BY <1>1, <3>2 DEF DashCharges, JobOnce, ThreadOnce, Uploaded
    <3> QED
      BY <1>15, <3>1, <3>2
  <2>2. JobOnce(j)'
    BY <1>1, <2>1 DEF JobOnce
  <2>3. \A d \in Threads : threads'[d] = threads[d] => ThreadOnce(threads[d])'
    <3> TAKE d \in Threads
    <3> HAVE threads'[d] = threads[d]
    <3>1. PICK r : r = threads[d]
      OBVIOUS
    <3>2. ThreadOnce(r)'
      BY <1>12, <1>13, <2>1, <3>1
    <3> QED
      BY <3>1, <3>2
  <2>4. CASE UNCHANGED threads
    BY <1>7, <1>11, <2>2, <2>3, <2>4 DEF DashCharges, OneThread
  <2>5. CASE SpawnThread(s)
    <3>1. PICK t \in Threads : threads[t] = IdleThread /\ threads' = [threads EXCEPT ![t] = Begun(s, api[s].spawn)]
      BY <2>5, SpawnIs DEF SpawnThread
    <3>2. PICK n : n = Begun(s, api[s].spawn)
      OBVIOUS
    <3>3. /\ old.pc = "spawn" /\ old.spawn # "none" /\ old.spawn \in {"full", "preview"} /\ q = IdleSlot
          /\ UNCHANGED <<memory, snapshot>>
      BY <1>4, <1>5, <1>6, <2>5, Served DEF SpawnThread, At, Serving, Answer, Slot, Kinds, Shape, SlotsOK, redisVars, procVars
    <3>4. n.job = j /\ n.pc = "begin" /\ n.kind = old.spawn /\ n.copy = NoState /\ n.after = "none"
      BY <1>1, <1>4, <3>2, <3>3 DEF Begun, IdleThread
    <3>5. threads'[t] = n /\ \A d \in Threads \ {t} : threads'[d] = threads[d] /\ threads[d].job # j
      <4>1. old.req.op \in Asking /\ s \in Busy
        BY <1>5, <1>6, <3>3 DEF SlotOnce, Busy
      <4> QED
        BY <1>1, <1>4, <3>1, <3>2, <4>1 DEF Alone, Shape, ThreadsOK
    <3>6. OneThread'
      BY <3>4, <3>5 DEF DashCharges, OneThread
    <3>7. ThreadOnce(n)'
      <4>1. CASE old.spawn = "full"
        <5>1. memory[p][j].status = "queued" /\ snapshot[j].status \notin Startable
          BY <1>1, <1>4, <1>6, <3>3, <4>1 DEF SlotOnce, Queues
        <5>2. \A r \in scenario'.procs : memory'[r][j].status \notin Startable
          BY <1>1, <3>3, <5>1 DEF Startable
        <5>3. \A k \in Slots : api'[k] = IdleSlot
          BY <1>3, <1>4, <3>3
        <5>4. \A k \in Slots : (api[k].job = j => SlotCalm(api[k]))'
          BY <5>3, <1>6 DEF IdleSlot
        <5>5. ThreadCalm(n)
          BY <3>4, <4>1 DEF ThreadCalm, NoState, Startable
        <5>6. \A d \in Threads : (threads[d].job = j => ThreadCalm(threads[d]))'
          BY <3>5, <5>5 DEF ThreadCalm
        <5>7. Started(j)'
          BY <3>3, <5>1, <5>2, <5>4, <5>6 DEF Started
        <5> QED
          BY <1>1, <2>1, <3>4, <4>1, <5>7 DEF ThreadOnce, Unsettled, ThreadPlaces
      <4>2. CASE old.spawn = "preview"
        BY <3>4, <4>2 DEF ThreadOnce, ThreadPlaces
      <4> QED
        BY <3>3, <4>1, <4>2
    <3>8. ASSUME NEW d \in Threads PROVE ThreadOnce(threads[d])'
      BY <2>3, <3>5, <3>7
    <3> QED
      BY <1>7, <1>11, <2>2, <3>6, <3>8 DEF DashCharges
  <2> QED
    BY <1>5, <2>4, <2>5
<1> QED
  BY <1>14, <1>15

LEMMA SameScenario == Shape /\ [Next]_vars => scenario' = scenario
<1> SUFFICES ASSUME Shape, [Next]_vars PROVE scenario' = scenario
  OBVIOUS
<1>1. ASSUME NEW s \in Slots, Accept(s) PROVE scenario' = scenario
  <2>1. PICK pc, r, j : Begin(s, r, pc, j)
    BY <1>1, AcceptIs
  <2> QED
    BY <2>1 DEF Begin
<1>2. ASSUME NEW s \in Slots, Serve(s) PROVE scenario' = scenario
  <2>1. CASE DashStep(s)
    BY <2>1 DEF DashStep, Dashboard, StoreUpload, Restore, EstimateCheck, EstimateStore, Start, ConfirmCheck, ConfirmBill,
       ConfirmAwait, ConfirmQueue, PreviewCheck, PreviewQuota, PreviewQueue, Poll, SyncRead, SyncWrite, PublishRead,
       PublishSet, SpawnThread, PayMilestone, ActivateMilestone, countVars
  <2>2. CASE UploadStep(s) \/ QuotaStep(s) \/ PayStep(s)
    BY <2>2 DEF UploadStep, UploadCheck, UploadDuplicate, UploadCapacity, UploadFind, UploadInsert, UploadReset, UploadFail,
       QuotaStep, UploadQuota, UploadRefused, UploadEnqueue, UploadEnqueueRaises, UploadRelease, PayQuota,
       PayRefused, PayDispatch, PayStep, PayCredit, PayLoad, PayCommit, countVars
  <2> QED
    BY <1>2, <2>1, <2>2 DEF Serve, Admit, DashStep, UploadStep, QuotaStep, PayStep
<1>3. ASSUME NEW t \in Threads, Translate(t) \/ EnqueueThread(t) PROVE scenario' = scenario
  BY <1>3 DEF Translate, ThreadBegin, ThreadPublishRead, ThreadPublishSet, ThreadPublishFails,
     ThreadRowProcessing, ThreadRun, ThreadRaises, ThreadRowFailed, ThreadRowPreview, ThreadSettle, ThreadSettleFails,
     ThreadBill, ThreadRowCompleted, ThreadRowFails, EnqueueThread, countVars, noFault
<1>4. ASSUME NEW h \in Horses, Process(h) PROVE scenario' = scenario
  BY <1>4, HorseLeaves
<1>5. ASSUME NEW p \in scenario.procs, Crash(p) PROVE scenario' = scenario
  BY <1>5 DEF Crash
<1>6. ASSUME NEW j \in JobIds, SnapshotExpires(j) PROVE scenario' = scenario
  BY <1>6 DEF SnapshotExpires, noFault
<1>7. CASE UNCHANGED vars
  BY <1>7 DEF vars, countVars
<1> QED
  BY <1>1, <1>2, <1>3, <1>4, <1>5, <1>6, <1>7 DEF Next

\* What was not saved is not forgotten.
LEMMA LostStays == Shape /\ [Next]_vars => lost \subseteq lost'
<1> SUFFICES ASSUME Shape, [Next]_vars PROVE lost \subseteq lost'
  OBVIOUS
<1>1. ASSUME NEW s \in Slots, Accept(s) PROVE lost \subseteq lost'
  <2>1. PICK pc, r, j : Begin(s, r, pc, j)
    BY <1>1, AcceptIs
  <2> QED
    BY <2>1 DEF Begin
<1>2. ASSUME NEW s \in Slots, Serve(s) PROVE lost \subseteq lost'
  <2>1. CASE DashStep(s)
    BY <2>1 DEF DashStep, Dashboard, StoreUpload, Restore, EstimateCheck, EstimateStore, Start, ConfirmCheck, ConfirmBill,
       ConfirmAwait, ConfirmQueue, PreviewCheck, PreviewQuota, PreviewQueue, Poll, SyncRead, SyncWrite, PublishRead,
       PublishSet, SpawnThread, PayMilestone, ActivateMilestone, countVars
  <2>2. CASE UploadStep(s) \/ QuotaStep(s) \/ PayStep(s)
    BY <2>2 DEF UploadStep, UploadCheck, UploadDuplicate, UploadCapacity, UploadFind, UploadInsert, UploadReset, UploadFail,
       QuotaStep, UploadQuota, UploadRefused, UploadEnqueue, UploadEnqueueRaises, UploadRelease, PayQuota,
       PayRefused, PayDispatch, PayStep, PayCredit, PayLoad, PayCommit, countVars
  <2> QED
    BY <1>2, <2>1, <2>2 DEF Serve, Admit, DashStep, UploadStep, QuotaStep, PayStep
<1>3. ASSUME NEW t \in Threads, Translate(t) \/ EnqueueThread(t) PROVE lost \subseteq lost'
  BY <1>3 DEF Translate, ThreadBegin, ThreadPublishRead, ThreadPublishSet, ThreadPublishFails,
     ThreadRowProcessing, ThreadRun, ThreadRaises, ThreadRowFailed, ThreadRowPreview, ThreadSettle, ThreadSettleFails,
     ThreadBill, ThreadRowCompleted, ThreadRowFails, EnqueueThread, countVars, noFault
<1>4. ASSUME NEW h \in Horses, Process(h) PROVE lost \subseteq lost'
  BY <1>4, HorseLeaves
<1>5. ASSUME NEW p \in scenario.procs, Crash(p) PROVE lost \subseteq lost'
  BY <1>5 DEF Crash
<1>6. ASSUME NEW j \in JobIds, SnapshotExpires(j) PROVE lost \subseteq lost'
  BY <1>6 DEF SnapshotExpires, noFault
<1>7. CASE UNCHANGED vars
  BY <1>7 DEF vars, countVars
<1> QED
  BY <1>1, <1>2, <1>3, <1>4, <1>5, <1>6, <1>7 DEF Next

LEMMA OnceInit == Init => Once
<1> SUFFICES ASSUME Init PROVE DashCharges
  BY DEF Once
<1>1. \A j \in JobIds : JobOnce(j)
  BY DEF Init, JobOnce
<1>2. \A s \in Slots : SlotOnce(api[s])
  BY IdleOnce DEF Init
<1>3. ThreadOnce(IdleThread) /\ IdleThread.job = NoJob
  BY RestingOnce DEF Resting, IdleThread, ThreadPlaces
<1>4. \A t \in Threads : ThreadOnce(threads[t]) /\ threads[t].job = NoJob
  BY <1>3 DEF Init
<1> QED
  BY <1>1, <1>2, <1>4 DEF DashCharges, OneThread

LEMMA OnceNext == Shape /\ KindsApart /\ AloneInv /\ Once /\ [Next]_vars => Once'
<1> SUFFICES ASSUME Shape, KindsApart, AloneInv, Once, [Next]_vars, ~raced', Cardinality(scenario'.procs) = 1,
                    "snapshot" \notin lost'
             PROVE  DashCharges'
  BY DEF Once, Orderly
<1>1. scenario' = scenario /\ ~raced /\ "snapshot" \notin lost
  BY SameScenario, RacedStays, LostStays
<1>2. Alone /\ DashCharges
  BY <1>1 DEF AloneInv, Once, Orderly
<1>3. PICK p \in scenario.procs : scenario.procs = {p}
  <2>1. IsFiniteSet(scenario.procs)
    BY ScenariosOK DEF Shape, DataOK, GhostsOK
  <2>2. PICK procs : procs = scenario.procs
    OBVIOUS
  <2>3. \E p : procs = {p}
    BY <1>1, <2>1, <2>2, FS_Singleton
  <2> QED
    BY <2>2, <2>3
<1>4. ASSUME NEW s \in Slots, Serve(s) PROVE DashCharges'
  <2>1. CASE DashStep(s)
    BY <1>2, <1>3, <2>1, OnceDash
  <2>2. CASE UploadStep(s) \/ QuotaStep(s) \/ PayStep(s)
    BY <1>2, <2>2, OnceRequest
  <2> QED
    BY <1>4, <2>1, <2>2 DEF Serve, Admit, DashStep, UploadStep, QuotaStep, PayStep
<1>5. ASSUME NEW r \in scenario.procs, Crash(r) PROVE DashCharges'
  BY <1>2, <1>3, <1>5, OnceCrash
<1>6. CASE UNCHANGED vars
  <2>1. UNCHANGED <<jobs, snapshot, memory, threads, api, charges, scenario>>
    BY <1>6 DEF vars, tableVars, redisVars, procVars, ghostVars, countVars
  <2> QED
    BY <1>2, <2>1, OnceApart DEF Uploaded
<1> QED
  BY <1>2, <1>4, <1>5, <1>6, OnceAccept, OnceTranslate, OnceEnqueue, OnceProcess, OnceExpire DEF Next

\* While no two requests overlapped, each saved its copy to Redis and one process serves
\* them, a job is charged at most once: an upload because it is never run again after it completed, a job of the dashboard
\* because nothing is left of it that a second translation could start from.
THEOREM JobsChargedOnce == Spec => []ChargedOnce
<1>1. ASSUME Shape, OneAtATime, Once PROVE ChargedOnce
  <2> SUFFICES ASSUME Orderly, NEW j \in JobIds PROVE charges[j] <= 1
    BY DEF ChargedOnce
  <2>1. CASE Uploaded(j)
    BY <1>1, <2>1 DEF OneAtATime, Standing, JobStands, Orderly
  <2>2. CASE ~Uploaded(j)
    BY <1>1, <2>2 DEF Once, DashCharges, JobOnce
  <2> QED
    BY <2>1, <2>2
<1> QED
  BY <1>1, KindsInit, KindsNext, AloneInit, AloneNext, OnceInit, OnceNext, OneAtATimeHolds, PTL DEF Spec
=====
