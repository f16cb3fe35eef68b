--------------------------- MODULE AccountSession ---------------------------
(***************************************************************************)
(* The tables of app/db/models.py that accounts live in, and a SQLAlchemy  *)
(* session over them as app/db/session.py configures it (no autoflush, no  *)
(* expiry on commit).  A worker is a thread of the API or an RQ worker; it *)
(* serves one request at a time and has one session, whose identity map    *)
(* keeps the rows it loaded: reading a row again gives the object of the   *)
(* first read, FOR UPDATE or not.  A commit sends, for every changed row,  *)
(* the columns whose value differs from the one that was loaded.           *)
(***************************************************************************)
EXTENDS WordCredits, FiniteSets, FiniteSetsExt, Functions

CONSTANTS
  Workers,        \* threads that serve requests
  Users,          \* profile ids
  Scenarios,      \* [requests, most, overlap, faults, attrs, unconfirmed, quota, checkout,
                  \* maxEarned, orders, until]: what is asked in one
                  \* behaviour, how many times and how many at once, how many faults may
                  \* happen, what it begins with, until when it runs, and two settings: payg_checkout_required and
                  \* referral_max_words_earned_per_referrer
  Payments,       \* captured Razorpay payments: [id, user, kind, amount]
  JobOwner        \* the user whose job awaits payment

Nobody == "nobody"

\* A payment has one user and one record; nobody is a user or a worker.
ASSUME PaymentsOK ==
  \A p \in Payments : p.user \in Users /\ p.amount \in Nat /\ \A q \in Payments : p.id = q.id => p = q
ASSUME ActorsOK == IsFiniteSet(Users) /\ IsFiniteSet(Workers) /\ Nobody \notin Users \cup Workers

VARIABLES
  now,            \* wall clock
  profiles,       \* table profiles
  transactions,   \* table transactions: how many rows an external id has
  attrs,          \* table referral_attributions by referee, NoAttr without a row
  ledger,         \* table credit_transactions: [key, user, credits]
  jobStatus, enqueued,    \* the job that awaits payment; how often it was enqueued
  orders,         \* payments for which Razorpay has an order
  quota,          \* Redis counter of the owner's jobs of the day
  threads,        \* daemon threads of _enqueue_job_async that have not run yet
  attrLock, rowLock,      \* who holds a row FOR UPDATE
  confirmed,      \* auth.users: who has confirmed the email address
  worker,         \* what a worker does
  charged,        \* INR charged to each user so far
  served, faults, raced,  \* requests begun, faults so far, whether two requests overlapped
  scenario

tables      == <<profiles, transactions, attrs, ledger>>
jobVars     == <<jobStatus, enqueued, quota, threads>>
lockVars    == <<attrLock, rowLock>>
outsideVars == <<now, confirmed, orders>>
countVars   == <<charged, served, faults, raced, scenario>>
vars == <<tables, jobVars, lockVars, outsideVars, worker, countVars>>

NoRequest == [op |-> None]
NoAttr == [status |-> "none", words |-> 0, referrer |-> Nobody, device |-> None]
Empty  == [x \in {} |-> x]

\* A worker that serves nothing; prof and attr are the identity map, each object
\* with the value loaded and the value it has now; rows and grants are new rows.
Idle == [pc |-> "idle", req |-> NoRequest, user |-> Nobody, prof |-> Empty, attr |-> Empty,
         rows |-> {}, grants |-> {}, start |-> NoTime, end |-> NoTime,
         changed |-> FALSE, cost |-> 0]

PaymentIds == {p.id : p \in Payments}
PaymentOf(id) == CHOOSE p \in Payments : p.id = id

\* UPDATE ... SET only the changed columns.
Flush(row, loaded, new) == [c \in DOMAIN row |-> IF new[c] = loaded[c] THEN row[c] ELSE new[c]]

-----------------------------------------------------------------------------
(* Sessions *)

\* session.get / select: the object of the identity map if there is one.
Load(map, id, row) == IF id \in DOMAIN map THEN map
                      ELSE [i \in DOMAIN map \cup {id} |-> IF i = id THEN [old |-> row, new |-> row] ELSE map[i]]
Put(map, id, value) == [map EXCEPT ![id].new = value]

At(w, pc) == worker[w].pc = pc
Step(w, to) == worker' = [worker EXCEPT ![w] = to]
Goto(w, pc) == Step(w, [worker[w] EXCEPT !.pc = pc])

\* A row that another transaction holds FOR UPDATE can be neither locked nor updated.
Free(lock, id, w) == lock[id] \in {Nobody, w}
Dirty(map) == {i \in DOMAIN map : map[i].new # map[i].old}
Writable(w) == /\ \A u \in Dirty(worker[w].prof) : Free(rowLock, u, w)
               /\ \A u \in Dirty(worker[w].attr) : Free(attrLock, u, w)

Released(lock, w) == [i \in DOMAIN lock |-> IF lock[i] = w THEN Nobody ELSE lock[i]]
ReleaseLocks(w) == attrLock' = Released(attrLock, w) /\ rowLock' = Released(rowLock, w)

Saved(table, map) == [i \in DOMAIN table |->
                        IF i \in DOMAIN map THEN Flush(table[i], map[i].old, map[i].new) ELSE table[i]]

\* credit_transactions.idempotency_key and referral_attributions.referee_user_id are UNIQUE.
Conflict(s) == \/ \E g \in s.grants : \E l \in ledger : l.key = g.key
               \/ \E u \in DOMAIN s.attr : s.attr[u].old = NoAttr /\ attrs[u] # NoAttr

\* session.commit() of the rows in session s, or the rollback after a conflict.
Commit(w, s) ==
  /\ Writable(w)
  /\ ReleaseLocks(w)
  /\ IF Conflict(s) THEN UNCHANGED tables
     ELSE /\ profiles' = Saved(profiles, s.prof)
          /\ attrs' = Saved(attrs, s.attr)
          /\ transactions' = [k \in DOMAIN transactions |->
                                transactions[k] + (IF k \in s.rows THEN 1 ELSE 0)]
          /\ ledger' = ledger \cup s.grants

\* A new session for the same request.
Fresh(w, pc) == [Idle EXCEPT !.pc = pc, !.req = worker[w].req, !.user = worker[w].user]

-----------------------------------------------------------------------------
(* Requests *)

Busy == {v \in Workers : ~At(v, "idle")}

Asked(op) == {r \in scenario.requests : r.op = op}

\* A worker takes up request r about user u.
Begin(w, r, pc, u) ==
  /\ At(w, "idle")
  /\ served < scenario.most /\ Cardinality(Busy) < scenario.overlap
  /\ served' = served + 1
  /\ raced' = (raced \/ Busy # {})
  /\ Step(w, [Idle EXCEPT !.pc = pc, !.req = r, !.user = u])
  /\ UNCHANGED <<tables, jobVars, lockVars, outsideVars, charged, faults, scenario>>

\* The request is answered, its session closed and its locks given back.
Finish(w) == Step(w, Idle) /\ ReleaseLocks(w)

\* The process of worker w ends: open transactions roll back, and the daemon
\* threads of an API process end with it.
Crash(w) ==
  /\ ~At(w, "idle") /\ faults < scenario.faults
  /\ faults' = faults + 1
  /\ Finish(w)
  /\ threads' = 0
  /\ UNCHANGED <<tables, jobStatus, enqueued, quota, outsideVars, charged, served, raced, scenario>>

Tick ==
  /\ now < scenario.until
  /\ now' = now + 1
  /\ UNCHANGED <<tables, jobVars, lockVars, confirmed, orders, worker, countVars>>

\* The user follows the link in the confirmation mail (Supabase).
ConfirmEmail(u) ==
  /\ ~confirmed[u]
  /\ confirmed' = [confirmed EXCEPT ![u] = TRUE]
  /\ UNCHANGED <<tables, jobVars, lockVars, now, orders, worker, countVars>>
=============================================================================
