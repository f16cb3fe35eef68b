------------------------------ MODULE Accounts ------------------------------
(***************************************************************************)
(* What the endpoints, the webhook and the workers do to accounts: the     *)
(* requests of PaymentCapture, Subscriptions and Referrals and the charge  *)
(* of a finished translation (app/workers/rq_tasks.py), served by workers  *)
(* that run side by side and may die between any two steps.                *)
(***************************************************************************)
EXTENDS PaymentCapture, Subscriptions, Referrals

-----------------------------------------------------------------------------
(* The charge at the end of a translation *)

FinishTranslation(w) == \E r \in Asked("charge") : Begin(w, r, "h_load", r.user)

ChargeLoad(w) ==
  LET u == worker[w].user
      p == RefreshExpiry(profiles[u], now)
      b == ComputeCharge(p, worker[w].req.words, now)
  IN  /\ At(w, "h_load")
      /\ IF scenario.checkout /\ b.amount_to_pay > p.credits_inr_balance THEN Finish(w)
         ELSE /\ Step(w, [worker[w] EXCEPT !.pc = "h_commit", !.cost = b.amount_to_pay,
                            !.prof = Put(Load(@, u, profiles[u]), u, ApplyCharge(p, b))])
              /\ UNCHANGED lockVars
      /\ UNCHANGED <<tables, jobVars, outsideVars, countVars>>

ChargeCommit(w) ==
  /\ At(w, "h_commit")
  /\ Commit(w, worker[w]) /\ Step(w, Idle)
  /\ charged' = [charged EXCEPT ![worker[w].user] = @ + worker[w].cost]
  /\ UNCHANGED <<jobVars, outsideVars, served, faults, raced, scenario>>

-----------------------------------------------------------------------------
(* Scenarios *)

\* What each kind of request names.
RequestOK(r) ==
  \/ r.op \in {"capture", "delivery"} /\ r.id \in PaymentIds /\ PaymentOf(r.id).kind = "payg"
  \/ r.op = "yearly" /\ r.id \in PaymentIds /\ PaymentOf(r.id).kind = "yearly"
  \/ r.op = "event"  /\ r.user \in Users /\ r.event \in Events
  \/ r.op \in {"cancel", "sync", "signin"} /\ r.user \in Users
  \/ r.op = "create" /\ r.user \in Users /\ r.kind \in PaidPlans
  \/ r.op = "charge" /\ r.user \in Users /\ r.words \in Nat
  \/ r.op = "claim"  /\ r.user \in Users /\ r.referrer \in Users

\* A scenario begins with referees whose referrers have earned nothing yet.
ASSUME ScenariosOK == \A sc \in Scenarios :
  /\ \A r \in sc.requests : RequestOK(r)
  /\ sc.attrs \in [Users -> [status : {"none", "pending", "verified", "completed"}, words : {0},
                             referrer : Users \cup {Nobody}, device : {sc.attrs[u].device : u \in Users}]]
  /\ \A u \in Users : sc.attrs[u] # NoAttr =>
                        sc.attrs[u].status # "none" /\ sc.attrs[u].referrer \in Users \ {u}
  /\ {sc.quota, sc.maxEarned} \subseteq Nat
  /\ sc.orders \subseteq PaymentIds

-----------------------------------------------------------------------------
(* Specification *)

NewProfile ==
  [plan |-> "free", credits_inr_balance |-> 0, free_credits |-> 1, referral_bonus_words |-> 0,
   subscription_active |-> FALSE, subscription_credits |-> 0, subscription_started_at |-> NoTime,
   subscription_period_start |-> NoTime, subscription_contract_end |-> NoTime,
   subscription_expiry |-> NoTime, pending_subscription_kind |-> None,
   razorpay_subscription_id |-> None, referred_by_user_id |-> Nobody,
   referral_words_earned_total |-> 0]

Init ==
  /\ scenario \in Scenarios
  /\ now = 0
  /\ attrs = scenario.attrs
  /\ profiles = [u \in Users |-> [NewProfile EXCEPT !.referred_by_user_id = attrs[u].referrer]]
  /\ orders = scenario.orders
  /\ transactions = [k \in PaymentIds \cup {e.id : e \in Events} |-> 0]
  /\ ledger = {}
  /\ jobStatus = "awaiting_payment" /\ enqueued = 0 /\ threads = 0
  /\ quota = scenario.quota
  /\ attrLock = [u \in Users |-> Nobody] /\ rowLock = [u \in Users |-> Nobody]
  /\ confirmed = [u \in Users |-> u \notin scenario.unconfirmed]
  /\ worker = [w \in Workers |-> Idle]
  /\ charged = [u \in Users |-> 0]
  /\ served = 0 /\ faults = 0 /\ raced = FALSE

\* The endpoints, the webhook and the end of a translation.
Accept(w) ==
  \/ VerifyCapturedPayment(w) \/ WebhookPaymentCaptured(w) \/ VerifyYearlyPayment(w)
  \/ WebhookSubscription(w) \/ WebhookSubscriptionPayment(w) \/ WebhookCancelled(w)
  \/ CreateSubscription(w) \/ SyncSubscription(w)
  \/ SignIn(w) \/ ClaimReferral(w) \/ FinishTranslation(w)

Serve(w) ==
  \/ Acknowledge(w) \/ CreditLookup(w) \/ CreditLoad(w) \/ CreditCommit(w)
  \/ ActivateLoad(w) \/ ActivateCommit(w) \/ ActivateQuota(w) \/ ActivateRefused(w) \/ ActivateSpawn(w)
  \/ EventLookup(w) \/ EventLoad(w) \/ SubscriptionCommit(w)
  \/ CancelLoad(w) \/ CreateLoad(w) \/ PlainCommit(w) \/ SyncLoad(w)
  \/ YearlyLookup(w) \/ YearlyInsert(w) \/ YearlyLoad(w)
  \/ SignInLoad(w) \/ RewardLockAttribution(w) \/ RewardVerify(w) \/ RewardPayment(w) \/ RewardEnd(w)
  \/ ClaimCheck(w) \/ ClaimCommit(w)
  \/ ChargeLoad(w) \/ ChargeCommit(w)

Next ==
  \/ \E w \in Workers : Accept(w) \/ Serve(w) \/ Crash(w)
  \/ ThreadEnqueues \/ ThreadFails
  \/ Tick
  \/ \E u \in Users : ConfirmEmail(u)
  \/ \E p \in Payments : CreatePaygOrder(p) \/ CreateYearlyOrder(p)

Spec == Init /\ [][Next]_vars

-----------------------------------------------------------------------------
(* Properties *)

RowOK(p) ==
  /\ p.plan \in Plans
  /\ p.credits_inr_balance \in Int
  /\ {p.free_credits, p.referral_bonus_words, p.subscription_credits, p.referral_words_earned_total} \subseteq Nat
  /\ p.subscription_active \in BOOLEAN
  /\ {p.subscription_started_at, p.subscription_period_start, p.subscription_contract_end,
      p.subscription_expiry} \subseteq Nat \cup {NoTime}
  /\ p.pending_subscription_kind \in PaidPlans \cup {None}
  /\ p.referred_by_user_id \in Users \cup {Nobody}

\* Every column, counter and lock has its type; word pools never go below zero.
TypeOK ==
  /\ now \in Nat
  /\ \A u \in Users : RowOK(profiles[u])
  /\ \A u \in Users : /\ attrs[u].status \in {"none", "pending", "verified", "completed"}
                      /\ attrs[u].words \in Nat
                      /\ attrs[u].referrer \in Users \cup {Nobody}
  /\ \A k \in DOMAIN transactions : transactions[k] \in Nat
  /\ \A l \in ledger : l.user \in Users /\ l.credits \in Nat
  /\ orders \subseteq PaymentIds
  /\ jobStatus \in {"awaiting_payment", "pending"}
  /\ {enqueued, quota, threads, served, faults} \subseteq Nat
  /\ \A u \in Users : {attrLock[u], rowLock[u]} \subseteq Workers \cup {Nobody}
  /\ confirmed \in [Users -> BOOLEAN]
  /\ \A w \in Workers : worker[w].req \in scenario.requests \cup {NoRequest}

RewardsOf(r) == {l \in ledger : l.user = r /\ l.key[1] # "referee_signup_bonus"}
Credits(L) == MapThenSumSet(LAMBDA l : l.credits, L)

\* The total a referrer has earned is what the ledger says, whoever else reads, charges
\* or credits the same profile meanwhile: every writer of the column holds the row.
EarnedMatchesLedger ==
  \A r \in Users : profiles[r].referral_words_earned_total = Credits(RewardsOf(r))

\* A referrer is rewarded for no more friends, and with no more words, than the caps
\* allow, though the caps are counted by one session while others give rewards.
RewardsAreCapped ==
  \A r \in Users :
    /\ Cardinality({u \in Users : attrs[u].referrer = r /\ attrs[u].words > 0}) <= MaxRewarded
    /\ Credits(RewardsOf(r)) <= scenario.maxEarned

\* A job leaves awaiting_payment only after a payment for it is on record, even if the
\* process that took the payment dies on the way and the webhook comes again.
ActivatedIsPaid ==
  jobStatus = "pending" => \E p \in Payments : /\ p.user = JobOwner /\ p.kind = "payg"
                                               /\ transactions[p.id] > 0

\* While no two requests overlapped: a payment that is verified by the client and
\* delivered by the webhook, repeatedly and with crashes between, enqueues its job once.
JobQueuedOnce == ~raced => enqueued + threads <= 1

PaidBy(u) == {p \in Payments : p.user = u /\ p.kind = "payg" /\ transactions[p.id] > 0}
Total(P)  == MapThenSumSet(LAMBDA p : p.amount, P)

\* While no two requests overlapped: the wallet is every recorded payment, once, less
\* what was charged, and not below zero where a charge needs to be covered.
WalletExplained == ~raced => \A u \in Users :
  /\ \A p \in Payments : transactions[p.id] <= 1
  /\ profiles[u].credits_inr_balance = Total(PaidBy(u)) - charged[u]
  /\ scenario.checkout => profiles[u].credits_inr_balance >= 0

\* While no two requests overlapped: an invitation pays its referrer no more than the
\* two rewards together, and its row shows what the ledger shows.
InvitePaysItsTotal == ~raced => \A u \in Users :
  LET paid == Credits({l \in ledger : l.key \in {VerifyKey(u), PaymentKey(u)}})
  IN  paid = attrs[u].words /\ paid <= InviteTotal

\* While no two requests overlapped: whatever order the events of subscriptions come in,
\* an active profile has a paid plan with an end, and an inactive one has no pool left.
SubscriptionShape == ~raced => \A u \in Users :
  LET p == profiles[u]
  IN  /\ p.subscription_active => p.plan \in PaidPlans /\ p.subscription_expiry # NoTime
      /\ ~p.subscription_active => p.plan \notin PaidPlans /\ p.subscription_credits = 0
      /\ p.plan = "yearly" => /\ p.subscription_contract_end # NoTime
                              /\ p.subscription_contract_end <= p.subscription_expiry

\* While no two requests overlapped: an event that comes late, again or out of order
\* never shortens the period of an active subscription.  Only a renewal whose period end
\* nobody could tell may (it counts 30 days from now).
PeriodNeverShrinks == [][\A u \in Users :
  (~raced' /\ profiles[u].subscription_active /\ profiles'[u].subscription_active)
    => \/ profiles'[u].subscription_expiry >= profiles[u].subscription_expiry
       \/ \E w \in Workers : worker[w].user = u /\ At(w, "s_commit") /\ worker[w].end = NoTime]_vars

\* payment_capture.py promises that a payment is never credited twice.
NeverDoubleCredit == \A p \in Payments : transactions[p.id] <= 1
=============================================================================
