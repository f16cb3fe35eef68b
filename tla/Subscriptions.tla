---------------------------- MODULE Subscriptions ----------------------------
(***************************************************************************)
(* app/services/razorpay_webhook.py and the subscription endpoints of      *)
(* app/api/routes/billing.py.  Razorpay delivers an event more than once,  *)
(* late and in any order; the subscription endpoints ask Razorpay itself.  *)
(***************************************************************************)
EXTENDS AccountSession

CONSTANT Events       \* [id, name, sub, at, start, end]

ASSUME EventTypes == \A e \in Events :
  /\ e.name \in {"subscription.activated", "subscription.charged", "invoice.paid", "payment.captured"}
  /\ {e.at, e.start, e.end} \subseteq Nat
  /\ e.id \notin PaymentIds        \* processed marks have a provider of their own

\* The subscription entity carries its period.  An invoice or a payment carries only
\* created_at, which passes for the start; for the end Razorpay is asked.
CarriesPeriod(e) == e.name \in {"subscription.activated", "subscription.charged"}

\* client.subscription.fetch: the period that runs now, or nothing if the call fails.
CurrentStart == (now \div Month) * Month
CurrentEnd   == CurrentStart + Month
FetchedEnds  == {CurrentEnd, NoTime}

\* The activating events.  A payment of a subscription goes the same way.
WebhookSubscription(w) == \E r \in Asked("event") :
  /\ r.event.at <= now /\ r.event.name # "payment.captured"
  /\ Begin(w, r, "s_lookup", r.user)

WebhookSubscriptionPayment(w) == \E r \in Asked("event") :
  /\ r.event.at <= now /\ r.event.name = "payment.captured"
  /\ Begin(w, r, "s_lookup", r.user)

\* _resolve_period_bounds and _webhook_already_processed.
EventLookup(w) ==
  LET e == worker[w].req.event
  IN  /\ At(w, "s_lookup")
      /\ IF transactions[e.id] > 0 THEN Finish(w)
         ELSE /\ \E end \in (IF CarriesPeriod(e) THEN {e.end} ELSE FetchedEnds) :
                   Step(w, [worker[w] EXCEPT !.pc = "s_load", !.end = end,
                              !.start = IF CarriesPeriod(e) THEN e.start ELSE e.at])
              /\ UNCHANGED lockVars
      /\ UNCHANGED <<tables, jobVars, outsideVars, countVars>>

\* The row that carries this subscription, with activate_subscription_billing applied.
Activated(s, u, kind) == Put(Load(s.prof, u, profiles[u]), u,
                             Activate(profiles[u], kind, s.end, s.start, now))

EventLoad(w) ==
  LET s == worker[w]
      u == s.user
  IN  /\ At(w, "s_load")
      /\ IF profiles[u].razorpay_subscription_id # s.req.event.sub THEN Finish(w)
         ELSE /\ Step(w, [s EXCEPT !.pc = "s_commit", !.rows = {s.req.event.id},
                                   !.prof = Activated(s, u, None)])
              /\ UNCHANGED lockVars
      /\ UNCHANGED <<tables, jobVars, outsideVars, countVars>>

\* The profile and the processed mark in one commit, then the referral hook.
SubscriptionCommit(w) ==
  /\ At(w, "s_commit")
  /\ Commit(w, worker[w]) /\ Step(w, Fresh(w, "r_attr"))
  /\ UNCHANGED <<jobVars, outsideVars, countVars>>

\* subscription.cancelled, .completed and .halted: no processed mark.
WebhookCancelled(w) == \E r \in Asked("cancel") : Begin(w, r, "d_load", r.user)

CancelLoad(w) ==
  LET u == worker[w].user
  IN  /\ At(w, "d_load")
      /\ IF profiles[u].razorpay_subscription_id # worker[w].req.sub THEN Finish(w)
         ELSE /\ Step(w, [worker[w] EXCEPT !.pc = "x_commit",
                            !.prof = Put(Load(@, u, profiles[u]), u, Deactivate(profiles[u]))])
              /\ UNCHANGED lockVars
      /\ UNCHANGED <<tables, jobVars, outsideVars, countVars>>

CreateSubscription(w) == \E r \in Asked("create") : Begin(w, r, "k_load", r.user)

\* create-subscription, after Razorpay has answered with the id of a new one.
CreateLoad(w) ==
  LET u == worker[w].user
      row == [profiles[u] EXCEPT !.razorpay_subscription_id = worker[w].req.sub,
                                 !.pending_subscription_kind = worker[w].req.kind]
  IN  /\ At(w, "k_load")
      /\ Step(w, [worker[w] EXCEPT !.pc = "x_commit", !.prof = Put(Load(@, u, profiles[u]), u, row)])
      /\ UNCHANGED <<tables, jobVars, lockVars, outsideVars, countVars>>

\* The commit of a request that does nothing after it.
PlainCommit(w) ==
  /\ At(w, "x_commit")
  /\ Commit(w, worker[w]) /\ Step(w, Idle)
  /\ UNCHANGED <<jobVars, outsideVars, countVars>>

SyncSubscription(w) == \E r \in Asked("sync") : Begin(w, r, "n_load", r.user)

\* sync-subscription-after-checkout: Razorpay may say that it is not active yet.
SyncLoad(w) ==
  LET s == [worker[w] EXCEPT !.pc = "s_commit", !.start = CurrentStart, !.end = CurrentEnd]
      u == s.user
  IN  /\ At(w, "n_load")
      /\ \/ Finish(w)
         \/ /\ profiles[u].razorpay_subscription_id # None
            /\ Step(w, [s EXCEPT !.prof = Activated(s, u, None)])
            /\ UNCHANGED lockVars
      /\ UNCHANGED <<tables, jobVars, outsideVars, countVars>>

CreateYearlyOrder(p) ==
  /\ p.kind = "yearly" /\ p.id \notin orders
  /\ orders' = orders \cup {p.id}
  /\ UNCHANGED <<tables, jobVars, lockVars, now, confirmed, worker, countVars>>

VerifyYearlyPayment(w) == \E r \in Asked("yearly") :
  r.id \in orders /\ Begin(w, r, "y_lookup", PaymentOf(r.id).user)

\* verify-yearly-payment: record_razorpay_payment_transaction looks the payment up ...
YearlyLookup(w) ==
  /\ At(w, "y_lookup")
  /\ Step(w, IF transactions[worker[w].req.id] > 0 THEN Fresh(w, "y_load")
             ELSE [worker[w] EXCEPT !.pc = "y_insert", !.rows = {worker[w].req.id}])
  /\ UNCHANGED <<tables, jobVars, lockVars, outsideVars, countVars>>

\* ... inserts it, and the hook runs.
YearlyInsert(w) ==
  /\ At(w, "y_insert")
  /\ Commit(w, worker[w]) /\ Step(w, Fresh(w, "r_attr"))
  /\ UNCHANGED <<jobVars, outsideVars, countVars>>

\* The plan is activated whether or not the payment was new.
YearlyLoad(w) ==
  LET s == worker[w]
  IN  /\ At(w, "y_load")
      /\ Step(w, [s EXCEPT !.pc = "x_commit", !.prof = Activated(s, s.user, "yearly")])
      /\ UNCHANGED <<tables, jobVars, lockVars, outsideVars, countVars>>
=============================================================================
