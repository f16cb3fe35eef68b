---------------------------- MODULE WordCredits ----------------------------
(***************************************************************************)
(* app/services/word_credits.py and app/payg_pricing.py: the word pools of *)
(* a profile, as functions of its row.  A row is a record with the columns *)
(* of app/db/models.py that these functions read or write; time is counted *)
(* in a unit of the model's choice, and NoTime is the NULL of a timestamp. *)
(***************************************************************************)
EXTENDS Integers

CONSTANTS
  Month,        \* SUBSCRIPTION_PERIOD_DAYS
  Year,         \* SUBSCRIPTION_YEAR_DAYS
  PoolWords,    \* SUBSCRIPTION_CREDITS_MONTHLY
  Per100k       \* how many of the model's words stand for 100,000

ASSUME CreditConstants == /\ {Month, Year, PoolWords, Per100k} \subseteq Nat \ {0}
                          /\ Month < Year

NoTime == -1
None   == "none"

PaidPlans == {"monthly", "yearly"}
Plans     == {"free", "payg"} \cup PaidPlans

Least(a, b)  == IF a <= b THEN a ELSE b
Latest(a, b) == IF a >= b THEN a ELSE b
Or(t, other) == IF t = NoTime THEN other ELSE t

-----------------------------------------------------------------------------
(* Price of words that no pool covers *)

\* Python's round(): a tie goes to the even neighbour.
RoundHalfEven(n, d) ==
  LET q == n \div d
      r == n % d
  IN  IF 2 * r > d \/ (2 * r = d /\ q % 2 = 1) THEN q + 1 ELSE q

EstimatePaygInr(words) == RoundHalfEven(99 * words, Per100k)

-----------------------------------------------------------------------------
(* Expiry and the monthly refill of a yearly plan *)

\* The loop over the month boundaries in closed form: since now is before the end
\* of the contract, every boundary it passes is too.
RefreshYearlyBucket(p, now) ==
  LET contract == Or(p.subscription_contract_end, p.subscription_expiry)
      start    == Or(p.subscription_period_start, p.subscription_started_at)
      months   == IF now >= start THEN (now - start) \div Month ELSE 0
  IN  IF p.plan # "yearly" \/ ~p.subscription_active \/ contract = NoTime \/ now >= contract
      THEN p
      ELSE IF start = NoTime THEN [p EXCEPT !.subscription_period_start = now]
      ELSE [p EXCEPT !.subscription_period_start = start + months * Month,
                     !.subscription_credits = IF months > 0 THEN PoolWords ELSE @]

PlanAfterSubscriptionEnds(p) ==
  [p EXCEPT !.plan = IF p.free_credits <= 0 THEN "payg" ELSE "free"]

RefreshExpiry(p, now) ==
  LET q == RefreshYearlyBucket(p, now)
  IN  IF q.subscription_active /\ (q.subscription_expiry = NoTime \/ q.subscription_expiry < now)
      THEN PlanAfterSubscriptionEnds([q EXCEPT !.subscription_active = FALSE,
                                               !.subscription_credits = 0])
      ELSE q

-----------------------------------------------------------------------------
(* Charge *)

\* How a charge of words is split over the pools of a refreshed row.
ComputeCharge(p, words, now) ==
  LET fromFree  == Least(words, p.free_credits)
      fromBonus == Least(words - fromFree, p.referral_bonus_words)
      free      == fromFree + fromBonus
      usable    == /\ p.subscription_active /\ p.subscription_credits > 0
                   /\ p.subscription_expiry = NoTime \/ p.subscription_expiry >= now
      sub       == IF usable THEN Least(words - free, p.subscription_credits) ELSE 0
      payg      == words - free - sub
  IN  [free_used |-> free, subscription_used |-> sub, payg_words |-> payg,
       amount_to_pay |-> IF payg > 0 THEN EstimatePaygInr(payg) ELSE 0]

SyncPlanAfterFreePool(p) ==
  IF ~p.subscription_active /\ p.free_credits <= 0 /\ p.plan = "free"
  THEN [p EXCEPT !.plan = "payg"] ELSE p

ApplyFromFree(p, b) ==
  SyncPlanAfterFreePool([p EXCEPT !.free_credits = @ - b.free_used,
                                  !.credits_inr_balance = @ - b.amount_to_pay])

ApplyCharge(p, b) ==
  LET fromFree  == Least(b.free_used, p.free_credits)
      fromBonus == Least(b.free_used - fromFree, p.referral_bonus_words)
  IN  SyncPlanAfterFreePool(
        [p EXCEPT !.free_credits = @ - fromFree,
                  !.referral_bonus_words = @ - fromBonus,
                  !.subscription_credits =
                      IF p.subscription_active THEN Latest(0, @ - b.subscription_used) ELSE @,
                  !.credits_inr_balance = @ - b.amount_to_pay])

-----------------------------------------------------------------------------
(* Activation, renewal and end of a subscription *)

ActivateYearly(p, pe, ps, now) ==
  LET anchor   == Or(ps, now)
      contract == Latest(Or(pe, now + Year), p.subscription_contract_end)
  IN  [p EXCEPT !.plan = "yearly",
                !.subscription_started_at = Or(@, anchor),
                !.subscription_period_start = anchor,
                !.subscription_contract_end = contract,
                !.subscription_expiry = Latest(contract, @)]

ActivateMonthlyTo(p, pe, ps, now) ==
  [p EXCEPT !.plan = "monthly",
            !.subscription_started_at = Or(@, Or(ps, now)),
            !.subscription_period_start = IF ps # NoTime THEN ps ELSE Or(@, now),
            !.subscription_expiry = Or(pe, now + Month)]

ActivateMonthly(p, pe, ps, now) ==
  [p EXCEPT !.plan = "monthly",
            !.subscription_contract_end = NoTime,
            !.subscription_period_start = IF ps # NoTime THEN ps ELSE Or(@, now),
            !.subscription_started_at = Or(@, Or(ps, now)),
            !.subscription_expiry = IF pe # NoTime THEN Latest(pe, @) ELSE now + Month]

\* kind is None unless the caller names the plan.
Activate(p, kind, pe, ps, now) ==
  LET raw == IF kind # None THEN kind
             ELSE IF p.pending_subscription_kind # None THEN p.pending_subscription_kind
             ELSE p.plan
      q   == [p EXCEPT !.pending_subscription_kind = None,
                       !.subscription_active = TRUE,
                       !.subscription_credits = PoolWords]
  IN  IF raw = "yearly" THEN ActivateYearly(q, pe, ps, now) ELSE ActivateMonthly(q, pe, ps, now)

DeactivateKeepsPool(p) ==
  PlanAfterSubscriptionEnds([p EXCEPT !.subscription_active = FALSE,
                                      !.subscription_contract_end = NoTime,
                                      !.pending_subscription_kind = None])
Deactivate(p) ==
  PlanAfterSubscriptionEnds([p EXCEPT !.subscription_active = FALSE,
                                      !.subscription_credits = 0,
                                      !.subscription_contract_end = NoTime,
                                      !.pending_subscription_kind = None])
=============================================================================
