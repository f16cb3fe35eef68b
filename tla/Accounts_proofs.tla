--------------------------- MODULE Accounts_proofs ---------------------------
(***************************************************************************)
(* Accounts for every number of users, workers, payments, requests and     *)
(* crashes: the types, the referral ledger and its caps, and that no job   *)
(* leaves awaiting_payment unpaid; and for requests that do not overlap,   *)
(* the wallet, the job's one place in the queue, the total of an           *)
(* invitation, and the shape and the period of a subscription.             *)
(*                                                                         *)
(* The difficulty is the session: it commits rows it read long ago.  The   *)
(* invariant says of each object in an identity map what it may still be   *)
(* relied on for: nobody writes the earned total of a referrer, nor starts *)
(* another reward, while the session that read it holds the row.  Without  *)
(* overlaps all of it may be relied on, and the tables add up (Solo).      *)
(***************************************************************************)
EXTENDS Accounts, FiniteSetTheorems, TLAPS

-----------------------------------------------------------------------------
(* Types *)

\* The user a request is about.
UserOf(r) == IF r.op \in {"capture", "delivery", "yearly"} THEN PaymentOf(r.id).user ELSE r.user

AllRequests == UNION {sc.requests : sc \in Scenarios}
SubscriptionIds == {None} \cup {r.sub : r \in {q \in AllRequests : q.op = "create"}}
Devices == {None} \cup {r.device : r \in {q \in AllRequests : q.op = "claim"}}
           \cup UNION {{sc.attrs[u].device : u \in Users} : sc \in Scenarios}
Ids   == PaymentIds \cup {e.id : e \in Events}
Times == Nat \cup {NoTime}

Row == [plan : Plans, credits_inr_balance : Int, free_credits : Nat, referral_bonus_words : Nat,
        subscription_active : BOOLEAN, subscription_credits : Nat, subscription_started_at : Times,
        subscription_period_start : Times, subscription_contract_end : Times,
        subscription_expiry : Times, pending_subscription_kind : PaidPlans \cup {None},
        razorpay_subscription_id : SubscriptionIds, referred_by_user_id : Users \cup {Nobody},
        referral_words_earned_total : Nat]
Attribution == [status : {"none", "pending", "verified", "completed"}, words : Nat,
                referrer : Users \cup {Nobody}, device : Devices]
Loaded(R) == [old : R, new : R]
RewardKeys == {VerifyKey(u) : u \in Users} \cup {PaymentKey(u) : u \in Users}
Keys  == RewardKeys \cup {BonusKey(u) : u \in Users}
Entry == [key : Keys, user : Users, credits : Nat]

\* The words a profile has earned as a referrer.
E(p) == p.referral_words_earned_total

TablesOK ==
  /\ profiles \in [Users -> Row]
  /\ attrs \in [Users -> Attribution]
  /\ transactions \in [Ids -> Nat]
  /\ ledger \subseteq Entry /\ IsFiniteSet(ledger)
  /\ \A u \in Users : attrs[u] # NoAttr => attrs[u].status # "none" /\ attrs[u].referrer \in Users \ {u}

RestOK ==
  /\ scenario \in Scenarios
  /\ now \in Nat
  /\ orders \subseteq PaymentIds
  /\ jobStatus \in {"awaiting_payment", "pending"}
  /\ {enqueued, threads, served, faults} \subseteq Nat
  /\ attrLock \in [Users -> Workers \cup {Nobody}] /\ rowLock \in [Users -> Workers \cup {Nobody}]
  /\ confirmed \in [Users -> BOOLEAN]
  /\ worker = [w \in Workers |-> worker[w]]

\* Whoever gives back a place of the day has taken it.
Undoing == {w \in Workers : At(w, "a_undo")}
QuotaOK == quota \in Nat /\ quota >= Cardinality(Undoing)

-----------------------------------------------------------------------------
(* Sessions *)

Capturing  == {"capture", "delivery"}
Rewarding  == {"r_attr", "r_verify", "r_pay", "r_end"}
Activating == {"a_commit", "a_quota", "a_undo", "a_spawn"}

\* Where a session has read nothing yet.
Reading == {"c_lookup", "c_load", "a_load", "done", "y_lookup", "y_load", "s_lookup", "s_load",
            "d_load", "k_load", "n_load", "g_load", "m_check", "h_load"}

Places == Reading \cup Rewarding \cup Activating
          \cup {"idle", "c_commit", "s_commit", "x_commit", "m_commit", "h_commit", "y_insert"}

Maps(K, R) == UNION {[D -> Loaded(R)] : D \in SUBSET K}
Session == [pc : Places, req : scenario.requests \cup {NoRequest}, user : Users \cup {Nobody},
            prof : Maps(Users, Row), attr : Maps(Users, Attribution), rows : SUBSET Ids,
            grants : SUBSET Entry, start : Times, end : Times, changed : BOOLEAN, cost : Int]

SessionType(s) == s \in Session /\ DOMAIN s.attr \subseteq {s.user} /\ IsFiniteSet(s.grants)

\* The request a session serves where it stands.
Serves(s) ==
  \/ s.pc \in {"c_lookup", "c_load", "c_commit", "a_load", "done"} \cup Activating /\ s.req.op \in Capturing
  \/ s.pc \in {"y_lookup", "y_insert", "y_load"} /\ s.req.op = "yearly"
  \/ s.pc \in {"s_lookup", "s_load"} /\ s.req.op = "event"
  \/ s.pc = "s_commit" /\ s.req.op \in {"event", "sync"}
  \/ s.pc = "d_load" /\ s.req.op = "cancel"
  \/ s.pc = "k_load" /\ s.req.op = "create"
  \/ s.pc = "n_load" /\ s.req.op = "sync"
  \/ s.pc = "x_commit" /\ s.req.op \in {"cancel", "create", "yearly"}
  \/ s.pc = "g_load" /\ s.req.op = "signin"
  \/ s.pc \in {"m_check", "m_commit"} /\ s.req.op = "claim"
  \/ s.pc \in {"h_load", "h_commit"} /\ s.req.op = "charge"
  \/ s.pc \in Rewarding /\ s.req.op \in Capturing \cup {"yearly", "event", "sync", "signin"}

\* What a worker has behind it where it stands: what it has read, what it has granted,
\* and, past the credit of a payment, that the payment is on record.
Stands(s) ==
  /\ s.pc # "idle"
  /\ s.req \in scenario.requests /\ s.user = UserOf(s.req) /\ Serves(s)
  /\ s.pc \in Reading => DOMAIN s.prof = {}
  /\ s.pc \notin Rewarding \cup {"m_commit"} => DOMAIN s.attr = {}
  /\ s.pc \notin {"r_pay", "r_end", "m_commit"} => s.grants = {}
  /\ s.pc = "r_pay" => \A g \in s.grants : \A u \in Users : g.key # PaymentKey(u)
  /\ s.pc = "c_commit" => s.req.id \in s.rows
  /\ s.pc \in {"r_verify", "r_pay"} => s.user \in DOMAIN s.attr
  /\ s.pc # "m_commit" => \A u \in DOMAIN s.attr : s.attr[u].old # NoAttr
  /\ s.pc \in Activating => s.user = JobOwner
  /\ s.pc \in {"a_load"} \cup Activating \cup Rewarding /\ s.req.op \in Capturing => transactions[s.req.id] > 0

Control(s) == s = Idle \/ Stands(s)

RewardsIn(L, r) == {l \in L : l.user = r /\ l.key[1] # "referee_signup_bonus"}

\* The profiles a session has read: its own user's, whose earned total it leaves alone,
\* and a referrer's, whose row it holds and whose total is therefore the table's.
ProfilesOK(w, s) == \A r \in DOMAIN s.prof :
  /\ r = s.user => E(s.prof[r].new) = E(s.prof[r].old)
  /\ r # s.user => rowLock[r] = w /\ E(s.prof[r].old) = E(profiles[r])
  /\ E(s.prof[r].new) <= scenario.maxEarned
  /\ E(s.prof[r].new) = E(s.prof[r].old) + Credits(RewardsIn(s.grants, r))

\* A reward is granted to a profile that is in the session.
GrantsOK(s) == \A g \in s.grants : g.key[1] # "referee_signup_bonus" => g.user \in DOMAIN s.prof

\* The referees whose rewards a referrer has started to receive.
Started(r) == {u \in Users : attrs[u].referrer = r /\ attrs[u].words > 0}

\* The attribution a session has read may be out of date, but not in its referrer.
InviteOK(w, s) == \A u \in DOMAIN s.attr :
  LET o == s.attr[u].old
      n == s.attr[u].new
  IN  /\ n.status # "none" /\ n.referrer \in Users \ {u}
      /\ o = NoAttr => n.words = 0
      /\ o # NoAttr => /\ attrs[u] # NoAttr
                       /\ o.referrer = attrs[u].referrer /\ n.referrer = attrs[u].referrer
                       /\ o.words > 0 => attrs[u].words > 0
      /\ n.words >= o.words

\* Who adds words to an attribution holds the referrer's row and has a place there.
SlotOK(w, s) == \A u \in DOMAIN s.attr :
  LET n == s.attr[u].new
  IN  n.words # s.attr[u].old.words =>
         /\ rowLock[n.referrer] = w
         /\ u \in Started(n.referrer) \/ Cardinality(Started(n.referrer)) < MaxRewarded

SessionOK(w, s) == /\ SessionType(s) /\ Control(s) /\ ProfilesOK(w, s) /\ GrantsOK(s)
                   /\ InviteOK(w, s) /\ (VerifyReward > 0 => SlotOK(w, s))

Earned == \A r \in Users : E(profiles[r]) <= scenario.maxEarned
Slots  == VerifyReward > 0 => \A r \in Users : Cardinality(Started(r)) <= MaxRewarded

-----------------------------------------------------------------------------
(* Rows and requests *)

\* The end of a subscription leaves a row of the table, and the referral total alone.
LEMMA PlanAfterType ==
  ASSUME NEW p \in Row
  PROVE  PlanAfterSubscriptionEnds(p) \in Row /\ E(PlanAfterSubscriptionEnds(p)) = E(p)
BY DEF PlanAfterSubscriptionEnds, Row, Plans, E

\* So does the refill of the yearly bucket ...
LEMMA RefreshBucketType ==
  ASSUME NEW p \in Row, NEW t \in Nat
  PROVE  RefreshYearlyBucket(p, t) \in Row /\ E(RefreshYearlyBucket(p, t)) = E(p)
<1> DEFINE q == RefreshYearlyBucket(p, t)
           start == Or(p.subscription_period_start, p.subscription_started_at)
           months == IF t >= start THEN (t - start) \div Month ELSE 0
<1>1. start \in Times
  BY DEF Or, Row
<1>2. months \in Nat /\ (start # NoTime => start + months * Month \in Times)
  <2>1. Month \in Nat \ {0}
    BY CreditConstants
  <2>2. t >= start => t - start \in Nat
    BY <1>1 DEF Times, NoTime
  <2> HIDE DEF start
  <2>3. months \in Nat
    BY <2>1, <2>2
  <2> HIDE DEF months
  <2>4. months * Month \in Nat
    BY <2>1, <2>3
  <2> QED
    BY <1>1, <2>3, <2>4 DEF Times, NoTime
<1>3. PoolWords \in Nat
  BY CreditConstants
<1> HIDE DEF start, months
<1>4. \/ q = p
      \/ start = NoTime /\ q = [p EXCEPT !.subscription_period_start = t]
      \/ start # NoTime /\ q = [p EXCEPT !.subscription_period_start = start + months * Month,
                   !.subscription_credits = IF months > 0 THEN PoolWords ELSE @]
  BY DEF RefreshYearlyBucket, start, months
<1> QED
  BY <1>2, <1>3, <1>4, ZenonT(60) DEF Row, Times, E

\* ... and with it the refresh of the expiry.
LEMMA RefreshExpiryType ==
  ASSUME NEW p \in Row, NEW t \in Nat
  PROVE  RefreshExpiry(p, t) \in Row /\ E(RefreshExpiry(p, t)) = E(p)
<1> DEFINE q == RefreshYearlyBucket(p, t)
           r == [q EXCEPT !.subscription_active = FALSE, !.subscription_credits = 0]
<1>1. q \in Row /\ E(q) = E(p)
  BY RefreshBucketType
<1>2. RefreshExpiry(p, t) = IF q.subscription_active /\ (q.subscription_expiry = NoTime \/ q.subscription_expiry < t)
                            THEN PlanAfterSubscriptionEnds(r) ELSE q
  BY DEF RefreshExpiry, q, r
<1> HIDE DEF q
<1>3. r \in Row /\ E(r) = E(q)
  BY <1>1 DEF Row, E
<1> HIDE DEF r
<1> QED
  BY <1>1, <1>2, <1>3, PlanAfterType

\* The parts of a charge are numbers.
LEMMA ComputeChargeType ==
  ASSUME NEW p \in Row, NEW n \in Nat, NEW t \in Nat
  PROVE  LET b == ComputeCharge(p, n, t)
         IN  b.free_used \in Nat /\ b.subscription_used \in Nat /\ b.amount_to_pay \in Int
<1>1. \A k \in Nat : EstimatePaygInr(k) \in Int
  <2>1. Per100k \in Nat \ {0}
    BY CreditConstants
  <2> SUFFICES ASSUME NEW k \in Nat PROVE RoundHalfEven(99 * k, Per100k) \in Int
    BY DEF EstimatePaygInr
  <2>2. (99 * k) \div Per100k \in Int
    BY <2>1
  <2> QED
    BY <2>2 DEF RoundHalfEven
<1> QED
  BY <1>1 DEF ComputeCharge, Row, Least

\* A charge leaves no word pool below zero, and the referral total alone.
LEMMA ApplyChargeType ==
  ASSUME NEW p \in Row, NEW b, b.free_used \in Nat, b.subscription_used \in Nat, b.amount_to_pay \in Int
  PROVE  ApplyCharge(p, b) \in Row /\ E(ApplyCharge(p, b)) = E(p)
<1> DEFINE fromFree  == Least(b.free_used, p.free_credits)
           fromBonus == Least(b.free_used - fromFree, p.referral_bonus_words)
           sub == IF p.subscription_active THEN Latest(0, p.subscription_credits - b.subscription_used)
                  ELSE p.subscription_credits
           q == [p EXCEPT !.free_credits = @ - fromFree,
                          !.referral_bonus_words = @ - fromBonus,
                          !.subscription_credits = sub,
                          !.credits_inr_balance = @ - b.amount_to_pay]
<1>1. ApplyCharge(p, b) = SyncPlanAfterFreePool(q)
  BY DEF ApplyCharge
<1>2. /\ p.free_credits - fromFree \in Nat
      /\ p.referral_bonus_words - fromBonus \in Nat
      /\ sub \in Nat
      /\ p.credits_inr_balance - b.amount_to_pay \in Int
  BY DEF Row, Least, Latest
<1> HIDE DEF fromFree, fromBonus, sub
<1>3. q \in Row /\ E(q) = E(p)
  BY <1>2 DEF Row, E
<1> HIDE DEF q
<1> QED
  BY <1>1, <1>3 DEF SyncPlanAfterFreePool, Row, Plans, E

\* The activation of a plan leaves a row of the table, and the referral total alone.
LEMMA ActivateType ==
  ASSUME NEW p \in Row, NEW kind \in PaidPlans \cup {None}, NEW pe \in Times, NEW ps \in Times, NEW t \in Nat
  PROVE  Activate(p, kind, pe, ps, t) \in Row /\ E(Activate(p, kind, pe, ps, t)) = E(p)
<1> DEFINE q == [p EXCEPT !.pending_subscription_kind = None,
                       !.subscription_active = TRUE,
                       !.subscription_credits = PoolWords]
<1>1. q \in Row /\ E(q) = E(p)
  BY CreditConstants DEF Row, E
<1>2. {Month, Year} \subseteq Nat
  BY CreditConstants
<1> HIDE DEF q
<1>3. ActivateYearly(q, pe, ps, t) \in Row /\ E(ActivateYearly(q, pe, ps, t)) = E(q)
  <2> DEFINE anchor == Or(ps, t)
             contract == Latest(Or(pe, t + Year), q.subscription_contract_end)
             begun == Or(q.subscription_started_at, anchor)
             expiry == Latest(contract, q.subscription_expiry)
  <2>1. anchor \in Times /\ contract \in Times /\ begun \in Times /\ expiry \in Times
    BY <1>1, <1>2 DEF Row, Or, Latest, Times, NoTime
  <2>2. ActivateYearly(q, pe, ps, t) =
          [q EXCEPT !.plan = "yearly", !.subscription_started_at = begun, !.subscription_period_start = anchor,
                    !.subscription_contract_end = contract, !.subscription_expiry = expiry]
    BY <1>1 DEF ActivateYearly, Row, Or, Latest
  <2> HIDE DEF anchor, contract, begun, expiry
  <2> QED
    <3>1. "yearly" \in Plans
      BY DEF Plans, PaidPlans
    <3> QED
      BY <1>1, <2>1, <2>2, <3>1, ZenonT(60) DEF Row, E
<1>4. ActivateMonthly(q, pe, ps, t) \in Row /\ E(ActivateMonthly(q, pe, ps, t)) = E(q)
  <2> DEFINE start == IF ps # NoTime THEN ps ELSE Or(q.subscription_period_start, t)
             begun == Or(q.subscription_started_at, Or(ps, t))
             expiry == IF pe # NoTime THEN Latest(pe, q.subscription_expiry) ELSE t + Month
  <2>1. start \in Times /\ begun \in Times /\ expiry \in Times /\ NoTime \in Times
    BY <1>1, <1>2 DEF Row, Or, Latest, Times, NoTime
  <2>2. ActivateMonthly(q, pe, ps, t) =
          [q EXCEPT !.plan = "monthly", !.subscription_contract_end = NoTime, !.subscription_period_start = start,
                    !.subscription_started_at = begun, !.subscription_expiry = expiry]
    BY <1>1 DEF ActivateMonthly, Row, Or, Latest
  <2> HIDE DEF start, begun, expiry
  <2> QED
    <3>1. "monthly" \in Plans
      BY DEF Plans, PaidPlans
    <3> QED
      BY <1>1, <2>1, <2>2, <3>1, ZenonT(60) DEF Row, E
<1> QED
  BY <1>1, <1>3, <1>4 DEF Activate, q

\* So does its deactivation.
LEMMA DeactivateType ==
  ASSUME NEW p \in Row
  PROVE  Deactivate(p) \in Row /\ E(Deactivate(p)) = E(p)
<1> DEFINE q == [p EXCEPT !.subscription_active = FALSE, !.subscription_credits = 0,
                          !.subscription_contract_end = NoTime, !.pending_subscription_kind = None]
<1>1. q \in Row /\ E(q) = E(p)
  BY DEF Row, E, Times
<1>2. Deactivate(p) = PlanAfterSubscriptionEnds(q)
  BY DEF Deactivate
<1> HIDE DEF q
<1> QED
  BY <1>1, <1>2, PlanAfterType

\* What the type of a session says of its objects, one by one.
LEMMA SessionParts ==
  ASSUME NEW s, SessionType(s)
  PROVE  /\ s \in Session
         /\ s.prof \in [DOMAIN s.prof -> Loaded(Row)] /\ DOMAIN s.prof \subseteq Users
         /\ s.attr \in [DOMAIN s.attr -> Loaded(Attribution)] /\ DOMAIN s.attr \subseteq {s.user}
         /\ s.rows \subseteq Ids
         /\ s.grants \subseteq Entry /\ IsFiniteSet(s.grants)
         /\ s.start \in Times /\ s.end \in Times /\ s.cost \in Int
<1>1. s \in Session
  BY DEF SessionType
<1>2. s.prof \in Maps(Users, Row) /\ s.attr \in Maps(Users, Attribution)
  BY <1>1 DEF Session
<1>3. \A R, map : map \in Maps(Users, R) => map \in [DOMAIN map -> Loaded(R)] /\ DOMAIN map \subseteq Users
  BY DEF Maps
<1>4. s.rows \subseteq Ids /\ s.grants \subseteq Entry /\ s.start \in Times /\ s.end \in Times /\ s.cost \in Int
  BY <1>1 DEF Session
<1> QED
  BY <1>1, <1>2, <1>3, <1>4 DEF SessionType

\* A request is about a user.
LEMMA UserOfType ==
  ASSUME scenario \in Scenarios, NEW r \in scenario.requests
  PROVE  UserOf(r) \in Users
<1>1. RequestOK(r)
  BY ScenariosOK
<1>2. ASSUME NEW id \in PaymentIds PROVE PaymentOf(id) \in Payments /\ PaymentOf(id).id = id
  BY <1>2 DEF PaymentOf, PaymentIds
<1> QED
  BY <1>1, <1>2, PaymentsOK DEF UserOf, RequestOK

\* A payment id names its payment.
LEMMA PaymentOfType ==
  ASSUME NEW id \in PaymentIds
  PROVE PaymentOf(id) \in Payments /\ PaymentOf(id).id = id /\ id \in Ids
  BY DEF PaymentOf, PaymentIds, Ids

\* A session keeps what is known of it when the tables and its locks stay.
LEMMA FrameSession ==
  ASSUME NEW v \in Workers, NEW s, SessionOK(v, s), scenario \in Scenarios,
         UNCHANGED <<profiles, attrs, transactions, scenario>>,
         \A r \in Users : rowLock[r] = v => rowLock'[r] = v, worker'[v] = s
  PROVE  SessionOK(v, worker[v])'
<1>1. SessionType(worker[v])' /\ GrantsOK(worker[v])'
  BY DEF SessionOK, SessionType, Session, GrantsOK
<1>2. Control(worker[v])'
  BY DEF SessionOK, Control, Stands, Serves
<1>3. ProfilesOK(v, worker[v])'
  BY SessionParts DEF SessionOK, ProfilesOK
<1>4. InviteOK(v, worker[v])'
  BY DEF SessionOK, InviteOK
<1>5. VerifyReward > 0 => SlotOK(v, worker[v])'
  <2> SUFFICES ASSUME VerifyReward > 0, NEW u \in DOMAIN s.attr, s.attr[u].new.words # s.attr[u].old.words
               PROVE  LET n == s.attr[u].new
                      IN  /\ rowLock'[n.referrer] = v
                          /\ u \in Started(n.referrer) \/ Cardinality(Started(n.referrer)) < MaxRewarded
    BY DEF SlotOK, Started
  <2> QED
    BY DEF SessionOK, InviteOK, SlotOK
<1> QED
  BY <1>1, <1>2, <1>3, <1>4, <1>5 DEF SessionOK
Pick(s) == CHOOSE x \in s : TRUE

\* g adds the weights of every subset of S, one chosen element after the other.
Adds(g, f, S) ==
  g = [s \in SUBSET S |-> IF s = {} THEN 0 ELSE f[Pick(s)] + g[s \ {Pick(s)}]]

\* Among sets of subsets of a finite set there is a smallest one: the induction of this section.
LEMMA SmallestBad ==
  ASSUME NEW S, IsFiniteSet(S), NEW B \in SUBSET SUBSET S, B # {}
  PROVE  \E t \in B : \A s \in B : s \subseteq t => s = t
<1>1. B \subseteq FiniteSubsetsOf(S)
  BY FS_FiniteSubsetsOfFinite
<1>2. \E t \in B : \A s \in B : <<s, t>> \notin StrictSubsetOrdering(S)
  BY <1>1, WFMin, FS_StrictSubsetOrderingWellFounded
<1> QED
  BY <1>2 DEF StrictSubsetOrdering

\* Pick chooses an element.
LEMMA PickIn == ASSUME NEW s, s # {} PROVE Pick(s) \in s
BY DEF Pick

\* Two such sums agree where both are defined.
LEMMA AddsAgree ==
  ASSUME NEW f, NEW S, IsFiniteSet(S), NEW T, NEW g, NEW h, Adds(g, f, S), Adds(h, f, T),
         NEW t, t \subseteq S, t \subseteq T
  PROVE  g[t] = h[t]
<1> DEFINE B == {s \in SUBSET S : s \subseteq T /\ g[s] # h[s]}
<1>1. SUFFICES ASSUME B # {} PROVE FALSE
  OBVIOUS
<1>2. PICK b \in B : \A s \in B : s \subseteq b => s = b
  <2>1. B \in SUBSET SUBSET S
    OBVIOUS
  <2> HIDE DEF B
  <2> QED
    BY <1>1, <2>1, SmallestBad
<1>3. g[b] = (IF b = {} THEN 0 ELSE f[Pick(b)] + g[b \ {Pick(b)}])
  BY <1>2 DEF Adds
<1>4. h[b] = (IF b = {} THEN 0 ELSE f[Pick(b)] + h[b \ {Pick(b)}])
  BY <1>2 DEF Adds
<1>5. b # {} => g[b \ {Pick(b)}] = h[b \ {Pick(b)}]
  BY <1>2, PickIn
<1> QED
  BY <1>2, <1>3, <1>4, <1>5

\* A function with the equation of a sum is one.
LEMMA AddsStep ==
  ASSUME NEW b, NEW f, NEW h,
         \A t \in SUBSET b : h[t] = IF t = {} THEN 0 ELSE f[Pick(t)] + h[t \ {Pick(t)}],
         h = [t \in SUBSET b |-> h[t]]
  PROVE  Adds(h, f, b)
<1> DEFINE k == [t \in SUBSET b |-> IF t = {} THEN 0 ELSE f[Pick(t)] + h[t \ {Pick(t)}]]
<1>1. \A t \in SUBSET b : h[t] = k[t]
  OBVIOUS
<1>2. h = k
  <2> HIDE DEF k
  <2>1. k = [t \in SUBSET b |-> k[t]]
    BY DEF k
  <2> QED
    BY <1>1, <2>1, Zenon
<1> QED
  BY <1>2 DEF Adds

\* Every finite set has such a sum.
LEMMA AddsExists ==
  ASSUME NEW S, IsFiniteSet(S), NEW f
  PROVE  \E g : Adds(g, f, S)
<1> DEFINE B == {s \in SUBSET S : ~\E g : Adds(g, f, s)}
<1>1. SUFFICES ASSUME B # {} PROVE FALSE
  OBVIOUS
<1>2. PICK b \in B : \A s \in B : s \subseteq b => s = b
  <2>1. B \in SUBSET SUBSET S
    OBVIOUS
  <2> HIDE DEF B
  <2> QED
    BY <1>1, <2>1, SmallestBad
<1> DEFINE G(s) == CHOOSE g : Adds(g, f, s)
           h == [t \in SUBSET b |-> IF t = {} THEN 0 ELSE f[Pick(t)] + G(t \ {Pick(t)})[t \ {Pick(t)}]]
<1>3. ASSUME NEW s \in SUBSET b, s # b PROVE Adds(G(s), f, s)
  <2>1. \E g : Adds(g, f, s)
    BY <1>2, <1>3
  <2> QED
    BY <2>1, Zenon
<1>4. ASSUME NEW t \in SUBSET b, t # {}
      PROVE  h[t \ {Pick(t)}] = G(t \ {Pick(t)})[t \ {Pick(t)}]
  <2> DEFINE s == t \ {Pick(t)}
  <2>1. s \in SUBSET b /\ s # b /\ IsFiniteSet(s)
    BY <1>2, <1>4, PickIn, FS_Subset
  <2>2. Adds(G(s), f, s)
    BY <1>3, <2>1
  <2>3. h[s] = IF s = {} THEN 0 ELSE f[Pick(s)] + G(s \ {Pick(s)})[s \ {Pick(s)}]
    <3> HIDE DEF G
    <3> QED
      BY <2>1
  <2>4. G(s)[s] = IF s = {} THEN 0 ELSE f[Pick(s)] + G(s)[s \ {Pick(s)}]
    <3> HIDE DEF G, s
    <3> QED
      BY <2>2 DEF Adds
  <2>5. s # {} => G(s)[s \ {Pick(s)}] = G(s \ {Pick(s)})[s \ {Pick(s)}]
    <3> SUFFICES ASSUME s # {} PROVE G(s)[s \ {Pick(s)}] = G(s \ {Pick(s)})[s \ {Pick(s)}]
      OBVIOUS
    <3> DEFINE r == s \ {Pick(s)}
    <3>1. r \in SUBSET b /\ r # b /\ IsFiniteSet(r) /\ r \subseteq s
      BY <2>1, PickIn, FS_Subset
    <3>2. Adds(G(r), f, r)
      BY <1>3, <3>1
    <3> HIDE DEF G, r, s
    <3> QED
      BY <2>1, <2>2, <3>1, <3>2, AddsAgree, SMTT(60) DEF r
  <2> HIDE DEF G, h, s
  <2> QED
    BY <2>3, <2>4, <2>5 DEF s
<1>5. Adds(h, f, b)
  <2>1. \A t \in SUBSET b : h[t] = IF t = {} THEN 0 ELSE f[Pick(t)] + h[t \ {Pick(t)}]
    <3> SUFFICES ASSUME NEW t \in SUBSET b
                 PROVE  h[t] = IF t = {} THEN 0 ELSE f[Pick(t)] + h[t \ {Pick(t)}]
      OBVIOUS
    <3>1. h[t] = IF t = {} THEN 0 ELSE f[Pick(t)] + G(t \ {Pick(t)})[t \ {Pick(t)}]
      <4> HIDE DEF G
      <4> QED
        OBVIOUS
    <3> HIDE DEF G, h
    <3> QED
      BY <3>1, <1>4
  <2>2. h = [t \in SUBSET b |-> h[t]]
    <3> HIDE DEF G
    <3> QED
      OBVIOUS
  <2> HIDE DEF G, h
  <2> QED
    BY <2>1, <2>2, AddsStep
<1> QED
  BY <1>2, <1>5

\* Each element of a set may be added last.
LEMMA AddsAnyOrder ==
  ASSUME NEW S, IsFiniteSet(S), NEW f, \A x \in S : f[x] \in Int, NEW g, Adds(g, f, S)
  PROVE  \A t \in SUBSET S : g[t] \in Int /\ \A x \in t : g[t] = f[x] + g[t \ {x}]
<1> DEFINE Good(t) == g[t] \in Int /\ \A x \in t : g[t] = f[x] + g[t \ {x}]
           B == {t \in SUBSET S : ~Good(t)}
<1>1. SUFFICES ASSUME B # {} PROVE FALSE
  OBVIOUS
<1>2. PICK b \in B : \A s \in B : s \subseteq b => s = b
  <2>1. B \in SUBSET SUBSET S
    OBVIOUS
  <2> HIDE DEF B
  <2> QED
    BY <1>1, <2>1, SmallestBad
<1>3. g[b] = IF b = {} THEN 0 ELSE f[Pick(b)] + g[b \ {Pick(b)}]
  BY <1>2 DEF Adds
<1>4. \A s \in SUBSET b : s # b => Good(s)
  BY <1>2
<1>5. CASE b = {}
  BY <1>2, <1>3, <1>5
<1>6. CASE b # {}
  <2> DEFINE c == Pick(b)
  <2>1. c \in b /\ g[b] = f[c] + g[b \ {c}] /\ Good(b \ {c})
    BY <1>3, <1>4, <1>6, PickIn
  <2>2. ASSUME NEW x \in b PROVE g[b] = f[x] + g[b \ {x}]
    <3>1. CASE x = c
      BY <2>1, <3>1
    <3>2. CASE x # c
      <4>1. Good(b \ {x})
        BY <1>4
      <4>2. (b \ {x}) \ {c} = (b \ {c}) \ {x} /\ x \in b \ {c} /\ c \in b \ {x}
        BY <2>1, <3>2
      <4>3. Good((b \ {c}) \ {x})
        BY <1>4, <2>1
      <4>4. f[x] \in Int /\ f[c] \in Int
        BY <1>2, <2>1
      <4>5. g[b \ {c}] = f[x] + g[(b \ {c}) \ {x}]
        BY <2>1, <4>2
      <4>6. g[b \ {x}] = f[c] + g[(b \ {c}) \ {x}]
        BY <4>1, <4>2
      <4>7. g[(b \ {c}) \ {x}] \in Int
        BY <4>3
      <4> HIDE DEF c, Good
      <4> QED
        BY <2>1, <4>4, <4>5, <4>6, <4>7
    <3> QED
      BY <3>1, <3>2
  <2>3. f[c] \in Int
    BY <1>2, <2>1
  <2>4. g[b \ {c}] \in Int
    BY <2>1
  <2>5. g[b] \in Int
    <3> HIDE DEF c, Good
    <3> QED
      BY <2>1, <2>3, <2>4
  <2> QED
    BY <1>2, <2>2, <2>5
<1> QED
  BY <1>5, <1>6

\* Credits is such a sum, over the whole set.
LEMMA CreditsAdds ==
  ASSUME NEW L, IsFiniteSet(L)
  PROVE  \E g : Adds(g, [l \in L |-> l.credits], L) /\ Credits(L) = g[L]
<1> DEFINE f == [l \in L |-> l.credits]
           P(iter) == iter = [s \in SUBSET L |-> IF s = {} THEN 0 ELSE Pick(s).credits + iter[s \ {Pick(s)}]]
<1>1. Credits(L) = (CHOOSE iter : P(iter))[L]
  BY DEF Credits, MapThenSumSet, MapThenFoldSet, Pick
<1>2. ASSUME NEW g PROVE Adds(g, f, L) <=> P(g)
  <2>1. \A s \in SUBSET L : s # {} => f[Pick(s)] = Pick(s).credits
    BY PickIn
  <2>2. [s \in SUBSET L |-> IF s = {} THEN 0 ELSE f[Pick(s)] + g[s \ {Pick(s)}]]
      = [s \in SUBSET L |-> IF s = {} THEN 0 ELSE Pick(s).credits + g[s \ {Pick(s)}]]
    <3> HIDE DEF f
    <3> QED
      BY <2>1
  <2> HIDE DEF f
  <2> QED
    BY <2>2 DEF Adds
<1>3. \E g : P(g)
  BY <1>2, AddsExists
<1>4. P(CHOOSE g : P(g))
  <2> HIDE DEF P
  <2> QED
    BY <1>3, Zenon
<1> HIDE DEF P, f
<1> QED
  BY <1>1, <1>2, <1>4 DEF f

\* What the last element adds.
LEMMA AddsLast ==
  ASSUME NEW M, IsFiniteSet(M), NEW e, \A l \in M : e[l] \in Int, NEW h, Adds(h, e, M), NEW x \in M
  PROVE  h[M] = e[x] + h[M \ {x}] /\ h[M \ {x}] \in Int
<1>1. \A t \in SUBSET M : h[t] \in Int /\ \A y \in t : h[t] = e[y] + h[t \ {y}]
  BY AddsAnyOrder
<1>2. M \in SUBSET M /\ M \ {x} \in SUBSET M
  OBVIOUS
<1> QED
  BY <1>1, <1>2

\* One element more adds its weight.
LEMMA AddsOneMore ==
  ASSUME NEW L, IsFiniteSet(L), NEW x, x \notin L, NEW M, M = L \cup {x}, NEW f, NEW e,
         \A l \in L : e[l] = f[l], \A l \in M : e[l] \in Int, NEW g, Adds(g, f, L), NEW h, Adds(h, e, M)
  PROVE  h[M] = g[L] + e[x]
<1>1. IsFiniteSet(M)
  BY FS_AddElement
<1>2. x \in M /\ M \ {x} = L
  OBVIOUS
<1>3. h[M] = e[x] + h[L] /\ h[L] \in Int
  <2>1. h[M] = e[x] + h[M \ {x}] /\ h[M \ {x}] \in Int
    BY <1>1, <1>2, AddsLast
  <2> QED
    BY <1>2, <2>1
<1> DEFINE k == [s \in SUBSET L |-> h[s]]
<1>4. Adds(k, f, L)
  <2>1. \A s \in SUBSET L : h[s] = IF s = {} THEN 0 ELSE e[Pick(s)] + h[s \ {Pick(s)}]
    BY DEF Adds
  <2>2. \A s \in SUBSET L : k[s] = IF s = {} THEN 0 ELSE f[Pick(s)] + k[s \ {Pick(s)}]
    BY <2>1, PickIn
  <2>3. k = [s \in SUBSET L |-> k[s]]
    OBVIOUS
  <2> HIDE DEF k
  <2> QED
    BY <2>2, <2>3, AddsStep
<1>5. k[L] = g[L] /\ k[L] = h[L]
  <2>1. k[L] = h[L]
    OBVIOUS
  <2> HIDE DEF k
  <2> QED
    BY <1>4, <2>1, AddsAgree
<1> HIDE DEF k
<1> QED
  BY <1>2, <1>3, <1>5

\* What one more entry adds to the credits of a set of entries.
LEMMA CreditsOfOneMore ==
  ASSUME NEW L, IsFiniteSet(L), NEW x, x \notin L, \A l \in L \cup {x} : l.credits \in Int
  PROVE  Credits(L \cup {x}) = Credits(L) + x.credits
<1> DEFINE M == L \cup {x}
           f == [l \in L |-> l.credits]
           e == [l \in M |-> l.credits]
<1>1. IsFiniteSet(M)
  BY FS_AddElement
<1>2. PICK g : Adds(g, f, L) /\ Credits(L) = g[L]
  BY CreditsAdds
<1>3. PICK h : Adds(h, e, M) /\ Credits(M) = h[M]
  BY <1>1, CreditsAdds
<1>4. (\A l \in L : e[l] = f[l]) /\ (\A l \in M : e[l] \in Int) /\ e[x] = x.credits
  OBVIOUS
<1> HIDE DEF f, e
<1>5. h[M] = g[L] + e[x]
  BY <1>2, <1>3, <1>4, AddsOneMore
<1> HIDE DEF M
<1> QED
  BY <1>2, <1>3, <1>4, <1>5 DEF M

\* No entries, no credits.
LEMMA CreditsOfNone == Credits({}) = 0
BY CreditsAdds, FS_EmptySet DEF Adds

\* The credits of finitely many entries are a number.
LEMMA CreditsType ==
  ASSUME NEW L, IsFiniteSet(L), \A l \in L : l.credits \in Int
  PROVE  Credits(L) \in Int
<1>1. PICK g : Adds(g, [l \in L |-> l.credits], L) /\ Credits(L) = g[L]
  BY CreditsAdds
<1> DEFINE f == [l \in L |-> l.credits]
<1>2. \A l \in L : f[l] \in Int
  OBVIOUS
<1> HIDE DEF f
<1> QED
  BY <1>1, <1>2, AddsAnyOrder DEF f

\* The credits of two separate sets of entries add up.
LEMMA CreditsOfBoth ==
  ASSUME NEW L, IsFiniteSet(L), NEW M, IsFiniteSet(M), L \cap M = {}, \A l \in L \cup M : l.credits \in Int
  PROVE  Credits(L \cup M) = Credits(L) + Credits(M)
<1> DEFINE B == {T \in SUBSET M : Credits(L \cup T) # Credits(L) + Credits(T)}
<1>1. SUFFICES ASSUME B # {} PROVE FALSE
  OBVIOUS
<1>2. PICK T \in B : \A t \in B : t \subseteq T => t = T
  <2>1. B \in SUBSET SUBSET M
    OBVIOUS
  <2> HIDE DEF B
  <2> QED
    BY <1>1, <2>1, SmallestBad
<1>3. T # {}
  <2>1. L \cup {} = L /\ Credits(L) \in Int
    BY CreditsType
  <2>2. Credits(L \cup T) # Credits(L) + Credits(T)
    BY <1>2
  <2> SUFFICES ASSUME T = {} PROVE FALSE
    OBVIOUS
  <2>3. Credits(L \cup T) = Credits(L) /\ Credits(T) = 0
    BY <2>1, CreditsOfNone
  <2> HIDE DEF B
  <2> QED
    BY <2>1, <2>2, <2>3
<1>4. PICK x \in T : TRUE
  BY <1>3
<1> DEFINE S == T \ {x}
<1>5. Credits(L \cup S) = Credits(L) + Credits(S)
  BY <1>2
<1>6. T = S \cup {x} /\ L \cup T = (L \cup S) \cup {x} /\ x \notin S /\ x \notin L \cup S
  BY <1>2
<1>7. IsFiniteSet(S) /\ IsFiniteSet(L \cup S)
  BY <1>2, FS_Subset, FS_Union
<1>8. \A l \in (L \cup S) \cup {x} : l.credits \in Int
  BY <1>2
<1>9. Credits(L \cup T) # Credits(L) + Credits(T)
  BY <1>2
<1> HIDE DEF S, B
<1>10. Credits(T) = Credits(S) + x.credits
  BY <1>6, <1>7, <1>8, CreditsOfOneMore
<1>11. Credits(L \cup T) = Credits(L \cup S) + x.credits
  BY <1>6, <1>7, <1>8, CreditsOfOneMore
<1>12. Credits(L) \in Int /\ Credits(S) \in Int /\ x.credits \in Int
  BY <1>7, <1>8, CreditsType
<1> QED
  BY <1>5, <1>9, <1>10, <1>11, <1>12

\* UPDATE of a profile: a row again, whose earned total is the session's only if the session changed it.
LEMMA FlushType ==
  ASSUME NEW p \in Row, NEW o \in Row, NEW n \in Row
  PROVE  /\ Flush(p, o, n) \in Row
         /\ E(Flush(p, o, n)) = IF E(n) = E(o) THEN E(p) ELSE E(n)
BY DEF Flush, Row, E

\* UPDATE of an attribution, column by column.
LEMMA FlushAttribution ==
  ASSUME NEW p \in Attribution, NEW o \in Attribution, NEW n \in Attribution
  PROVE  /\ Flush(p, o, n) \in Attribution
         /\ Flush(p, o, n).words = IF n.words = o.words THEN p.words ELSE n.words
         /\ Flush(p, o, n).referrer = IF n.referrer = o.referrer THEN p.referrer ELSE n.referrer
         /\ Flush(p, o, n).status = IF n.status = o.status THEN p.status ELSE n.status
BY DEF Flush, Attribution

\* The rewards of one referrer are finitely many numbers.
LEMMA RewardsInType ==
  ASSUME NEW L \in SUBSET Entry, IsFiniteSet(L), NEW r
  PROVE  /\ IsFiniteSet(RewardsIn(L, r)) /\ Credits(RewardsIn(L, r)) \in Int
         /\ \A l \in RewardsIn(L, r) : l.credits \in Int
<1>1. RewardsIn(L, r) \subseteq L /\ \A l \in RewardsIn(L, r) : l.credits \in Int
  BY DEF RewardsIn, Entry
<1> QED
  BY <1>1, FS_Subset, CreditsType

\* What a commit does to the earned totals.
LEMMA SavedProfiles ==
  ASSUME TablesOK, NEW w \in Workers, NEW s, SessionOK(w, s), NEW r \in Users
  PROVE  LET p == Saved(profiles, s.prof)
         IN  /\ p[r] \in Row
             /\ E(p[r]) = E(profiles[r]) + Credits(RewardsIn(s.grants, r))
             /\ E(p[r]) # E(profiles[r]) => rowLock[r] = w /\ E(p[r]) <= scenario.maxEarned
<1> DEFINE p == Saved(profiles, s.prof)
<1>1. profiles[r] \in Row /\ E(profiles[r]) \in Nat
  BY DEF TablesOK, Row, E
<1>2. Credits(RewardsIn(s.grants, r)) \in Int
  BY SessionParts, RewardsInType DEF SessionOK
<1>3. CASE r \notin DOMAIN s.prof
  <2>1. p[r] = profiles[r]
    BY <1>3 DEF Saved, TablesOK
  <2>2. RewardsIn(s.grants, r) = {}
    BY <1>3 DEF SessionOK, GrantsOK, RewardsIn
  <2> QED
    BY <1>1, <2>1, <2>2, CreditsOfNone
<1>4. CASE r \in DOMAIN s.prof
  <2> DEFINE o == s.prof[r].old
             n == s.prof[r].new
  <2>1. o \in Row /\ n \in Row /\ E(o) \in Nat /\ E(n) \in Nat
    BY <1>4, SessionParts DEF SessionOK, Loaded, Row, E
  <2>2. p[r] = Flush(profiles[r], o, n)
    BY <1>4 DEF Saved, TablesOK
  <2>3. p[r] \in Row /\ E(p[r]) = IF E(n) = E(o) THEN E(profiles[r]) ELSE E(n)
    BY <1>1, <2>1, <2>2, FlushType
  <2>4. /\ r = s.user => E(n) = E(o)
        /\ r # s.user => rowLock[r] = w /\ E(o) = E(profiles[r])
        /\ E(n) <= scenario.maxEarned
        /\ E(n) = E(o) + Credits(RewardsIn(s.grants, r))
    BY <1>4 DEF SessionOK, ProfilesOK
  <2> HIDE DEF o, n, p
  <2> QED
    BY <1>1, <1>2, <2>1, <2>3, <2>4 DEF p
<1> QED
  BY <1>3, <1>4

\* Where there is no attribution there are no words and no status.
LEMMA NoAttrWords == NoAttr.words = 0 /\ NoAttr.status = "none"
BY DEF NoAttr

\* What a commit does to the attributions.
LEMMA SavedAttrs ==
  ASSUME TablesOK, NEW w \in Workers, NEW s, SessionOK(w, s), ~Conflict(s), NEW u \in Users
  PROVE  LET a == Saved(attrs, s.attr)
         IN  /\ a[u] \in Attribution
             /\ a[u] # NoAttr => a[u].status # "none" /\ a[u].referrer \in Users \ {u}
             /\ attrs[u] # NoAttr => a[u] # NoAttr /\ a[u].referrer = attrs[u].referrer
             /\ attrs[u].words > 0 => a[u].words > 0
             /\ u # s.user => a[u] = attrs[u]
             /\ (a[u].words > 0 /\ ~(attrs[u].words > 0)) =>
                   /\ u \in DOMAIN s.attr /\ s.attr[u].new.words # s.attr[u].old.words
                   /\ a[u].referrer = s.attr[u].new.referrer
<1> DEFINE a == Saved(attrs, s.attr)
<1>1. attrs[u] \in Attribution /\ attrs[u].words \in Nat
  BY DEF TablesOK, Attribution
<1>2. CASE u \notin DOMAIN s.attr
  <2>1. a[u] = attrs[u]
    BY <1>2 DEF Saved, TablesOK
  <2> QED
    BY <1>1, <2>1 DEF TablesOK
<1>3. CASE u \in DOMAIN s.attr
  <2> DEFINE o == s.attr[u].old
             n == s.attr[u].new
  <2>1. o \in Attribution /\ n \in Attribution /\ o.words \in Nat /\ n.words \in Nat /\ u = s.user
    BY <1>3, SessionParts DEF SessionOK, Loaded, Attribution
  <2>2. a[u] = Flush(attrs[u], o, n)
    BY <1>3 DEF Saved, TablesOK
  <2>3. /\ a[u] \in Attribution
        /\ a[u].words = IF n.words = o.words THEN attrs[u].words ELSE n.words
        /\ a[u].referrer = IF n.referrer = o.referrer THEN attrs[u].referrer ELSE n.referrer
        /\ a[u].status = IF n.status = o.status THEN attrs[u].status ELSE n.status
    BY <1>1, <2>1, <2>2, FlushAttribution, SMTT(60)
  <2>4. /\ n.status # "none" /\ n.referrer \in Users \ {u}
        /\ o = NoAttr => n.words = 0
        /\ o # NoAttr => /\ attrs[u] # NoAttr
                         /\ o.referrer = attrs[u].referrer /\ n.referrer = attrs[u].referrer
                         /\ o.words > 0 => attrs[u].words > 0
        /\ n.words >= o.words
    BY <1>3 DEF SessionOK, InviteOK
  <2>5. o = NoAttr => attrs[u] = NoAttr
    BY <1>3 DEF Conflict
  <2>6. attrs[u] # NoAttr => attrs[u].status # "none" /\ attrs[u].referrer \in Users \ {u}
    BY DEF TablesOK
  <2>7. NoAttr.words = 0 /\ NoAttr.status = "none"
    BY DEF NoAttr
  <2> HIDE DEF o, n, a
  <2>8. CASE o = NoAttr
    <3>1. a[u].words = 0 /\ attrs[u] = NoAttr /\ a[u].status = n.status
      BY <2>3, <2>4, <2>5, <2>7, <2>8
    <3>2. a[u].referrer = n.referrer
      BY <2>3, <2>5, <2>8
    <3> QED
      BY <2>1, <2>3, <2>4, <2>7, <2>8, <3>1, <3>2 DEF a
  <2>9. CASE o # NoAttr
    <3>1. a[u].referrer = attrs[u].referrer
      BY <2>3, <2>4, <2>9
    <3>2. a[u].status # "none" /\ a[u] # NoAttr
      BY <2>3, <2>4, <2>6, <2>7, <2>9
    <3>3. attrs[u].words > 0 => a[u].words > 0
      BY <1>1, <2>1, <2>3, <2>4
    <3> QED
      BY <1>1, <1>3, <2>1, <2>3, <2>4, <2>6, <2>9, <3>1, <3>2, <3>3 DEF a, n, o
  <2> QED
    BY <2>8, <2>9
<1> QED
  BY <1>2, <1>3

\* What a step of w leaves to the other workers.
OthersKeep(w) ==
  /\ \A r \in Users : rowLock[r] \in Workers \ {w} => /\ E(profiles'[r]) = E(profiles[r]) /\ rowLock'[r] = rowLock[r]
                                                      /\ VerifyReward > 0 => Started(r)' = Started(r)
  /\ \A u \in Users : attrs[u] # NoAttr =>
       /\ attrs'[u] # NoAttr /\ attrs'[u].referrer = attrs[u].referrer
       /\ attrs[u].words > 0 => attrs'[u].words > 0
  /\ \A k \in Ids : transactions[k] > 0 => transactions'[k] > 0
  /\ UNCHANGED scenario

\* A captured payment is one of the payments.
LEMMA CaptureId ==
  ASSUME scenario \in Scenarios, NEW r \in scenario.requests
  PROVE  r.op \in Capturing => r.id \in PaymentIds /\ r.id \in Ids /\ PaymentOf(r.id).kind = "payg"
<1>1. RequestOK(r)
  BY ScenariosOK
<1> QED
  BY <1>1 DEF RequestOK, Capturing, Ids

\* What is known of the session of one worker survives the step of another.
LEMMA OtherSession ==
  ASSUME NEW w \in Workers, NEW v \in Workers \ {w}, NEW s, SessionOK(v, s), scenario \in Scenarios,
         OthersKeep(w), worker'[v] = s
  PROVE  SessionOK(v, worker[v])'
<1>1. SessionType(worker[v])' /\ GrantsOK(worker[v])'
  BY DEF SessionOK, SessionType, Session, GrantsOK, OthersKeep
<1>2. Control(worker[v])'
  <2>1. Control(s) /\ scenario' = scenario
    BY DEF SessionOK, OthersKeep
  <2>2. s # Idle /\ s.req.op \in Capturing /\ transactions[s.req.id] > 0 => transactions'[s.req.id] > 0
    BY <2>1, CaptureId DEF Control, Stands, OthersKeep
  <2> QED
    BY <2>1, <2>2 DEF Control, Stands, Serves
<1>3. ProfilesOK(v, worker[v])'
  <2> SUFFICES ASSUME NEW r \in DOMAIN s.prof
               PROVE /\ r = s.user => E(s.prof[r].new) = E(s.prof[r].old)
                     /\ r # s.user => rowLock'[r] = v /\ E(s.prof[r].old) = E(profiles'[r])
                     /\ E(s.prof[r].new) <= scenario'.maxEarned
                     /\ E(s.prof[r].new) = E(s.prof[r].old) + Credits(RewardsIn(s.grants, r))
    BY DEF ProfilesOK
  <2>1. r \in Users /\ scenario' = scenario
    BY SessionParts DEF SessionOK, OthersKeep
  <2> QED
    BY <2>1 DEF SessionOK, ProfilesOK, OthersKeep
<1>4. InviteOK(v, worker[v])'
  <2> SUFFICES ASSUME NEW u \in DOMAIN s.attr
               PROVE  LET o == s.attr[u].old
                          n == s.attr[u].new
                      IN  /\ n.status # "none" /\ n.referrer \in Users \ {u}
                          /\ o = NoAttr => n.words = 0
                          /\ o # NoAttr => /\ attrs'[u] # NoAttr
                                           /\ o.referrer = attrs'[u].referrer /\ n.referrer = attrs'[u].referrer
                                           /\ o.words > 0 => attrs'[u].words > 0
                          /\ n.words >= o.words
    BY DEF InviteOK
  <2>1. s.attr[u].old # NoAttr => u \in Users
    <3>1. s # Idle
      BY DEF Idle, Empty
    <3>2. s.user \in Users
      BY <3>1, UserOfType DEF SessionOK, Control, Stands
    <3> QED
      BY <3>2, SessionParts DEF SessionOK
  <2> QED
    BY <2>1 DEF SessionOK, InviteOK, OthersKeep
<1>5. VerifyReward > 0 => SlotOK(v, worker[v])'
  <2> SUFFICES ASSUME VerifyReward > 0, NEW u \in DOMAIN s.attr, s.attr[u].new.words # s.attr[u].old.words
               PROVE  LET n == s.attr[u].new
                      IN  /\ rowLock'[n.referrer] = v
                          /\ u \in Started(n.referrer)' \/ Cardinality(Started(n.referrer)') < MaxRewarded
    BY DEF SlotOK, Started
  <2> DEFINE r == s.attr[u].new.referrer
  <2>1. r \in Users /\ rowLock[r] = v /\ (u \in Started(r) \/ Cardinality(Started(r)) < MaxRewarded)
    BY DEF SessionOK, SlotOK, InviteOK
  <2>2. rowLock'[r] = v /\ Started(r)' = Started(r)
    BY <2>1 DEF OthersKeep
  <2> HIDE DEF r
  <2> QED
    BY <2>1, <2>2 DEF r
<1> QED
  BY <1>1, <1>2, <1>3, <1>4, <1>5 DEF SessionOK

\* The part of the invariant that is about tables.
Accounting == TablesOK /\ EarnedMatchesLedger /\ Earned /\ Slots

\* A commit keeps the tables, what they add up to, and what other sessions rely on.
LEMMA CommitKeeps ==
  ASSUME Accounting, scenario \in Scenarios, NEW w \in Workers, NEW s, SessionOK(w, s), Commit(w, s),
         UNCHANGED scenario, rowLock \in [Users -> Workers \cup {Nobody}]
  PROVE  Accounting' /\ OthersKeep(w)
<1>1. \A r \in Users : rowLock[r] # w => rowLock'[r] = rowLock[r]
  BY DEF Commit, ReleaseLocks, Released
<1>2. CASE Conflict(s)
  <2>1. UNCHANGED <<profiles, attrs, transactions, ledger>>
    BY <1>2 DEF Commit, tables
  <2>2. Accounting'
    BY <2>1 DEF Accounting, TablesOK, EarnedMatchesLedger, RewardsOf, Earned, Slots, Started, E
  <2>3. OthersKeep(w)
    BY <1>1, <2>1 DEF OthersKeep, Started, E
  <2> QED
    BY <2>2, <2>3
<1>3. CASE ~Conflict(s)
  <2>1. /\ profiles' = Saved(profiles, s.prof)
        /\ attrs' = Saved(attrs, s.attr)
        /\ transactions' = [k \in DOMAIN transactions |->
                              transactions[k] + (IF k \in s.rows THEN 1 ELSE 0)]
        /\ ledger' = ledger \cup s.grants
    BY <1>3 DEF Commit
  <2> TablesOK
    BY DEF Accounting
  <2> DOMAIN profiles = Users /\ DOMAIN attrs = Users
    BY DEF TablesOK
  <2>2. profiles' = [r \in Users |-> profiles'[r]] /\ attrs' = [r \in Users |-> attrs'[r]]
    BY <2>1 DEF Saved
  <2>3. ASSUME NEW r \in Users
        PROVE  /\ profiles'[r] \in Row
               /\ E(profiles'[r]) = E(profiles[r]) + Credits(RewardsIn(s.grants, r))
               /\ E(profiles'[r]) # E(profiles[r]) => rowLock[r] = w /\ E(profiles'[r]) <= scenario.maxEarned
    BY <2>1, SavedProfiles
  <2>4. ASSUME NEW u \in Users
        PROVE  /\ attrs'[u] \in Attribution
               /\ attrs'[u] # NoAttr => attrs'[u].status # "none" /\ attrs'[u].referrer \in Users \ {u}
               /\ attrs[u] # NoAttr => attrs'[u] # NoAttr /\ attrs'[u].referrer = attrs[u].referrer
               /\ attrs[u].words > 0 => attrs'[u].words > 0
               /\ u # s.user => attrs'[u] = attrs[u]
               /\ (attrs'[u].words > 0 /\ ~(attrs[u].words > 0)) =>
                     /\ u \in DOMAIN s.attr /\ s.attr[u].new.words # s.attr[u].old.words
                     /\ attrs'[u].referrer = s.attr[u].new.referrer
    BY <1>3, <2>1, SavedAttrs
  <2>5. transactions' \in [Ids -> Nat] /\ \A k \in Ids : transactions'[k] >= transactions[k]
    BY <2>1 DEF TablesOK
  <2>6. s.grants \in SUBSET Entry /\ IsFiniteSet(s.grants) /\ ledger \in SUBSET Entry /\ IsFiniteSet(ledger)
    BY SessionParts DEF SessionOK, TablesOK
  <2>7. TablesOK'
    <3>1. ledger' \subseteq Entry /\ IsFiniteSet(ledger')
      BY <2>1, <2>6, FS_Union
    <3>2. profiles' \in [Users -> Row]
      BY <2>2, <2>3
    <3>3. attrs' \in [Users -> Attribution]
      BY <2>2, <2>4
    <3> QED
      BY <2>4, <2>5, <3>1, <3>2, <3>3 DEF TablesOK
  <2>8. EarnedMatchesLedger'
    <3> SUFFICES ASSUME NEW r \in Users PROVE E(profiles'[r]) = Credits(RewardsIn(ledger', r))
      BY DEF EarnedMatchesLedger, RewardsOf, RewardsIn, E
    <3> DEFINE L == RewardsIn(ledger, r)
               M == RewardsIn(s.grants, r)
    <3>1. IsFiniteSet(L) /\ IsFiniteSet(M) /\ \A l \in L \cup M : l.credits \in Int
      BY <2>6, RewardsInType
    <3>2. L \cap M = {}
      BY <1>3 DEF RewardsIn, Conflict
    <3>3. RewardsIn(ledger', r) = L \cup M
      BY <2>1 DEF RewardsIn
    <3>4. E(profiles[r]) = Credits(L)
      BY DEF Accounting, EarnedMatchesLedger, RewardsOf, RewardsIn, E
    <3>5. E(profiles'[r]) = E(profiles[r]) + Credits(M)
      BY <2>3
    <3> HIDE DEF L, M
    <3> QED
      BY <3>1, <3>2, <3>3, <3>4, <3>5, CreditsOfBoth
  <2>9. Earned'
    BY <2>3 DEF Accounting, Earned
  <2>10. ASSUME VerifyReward > 0, NEW r \in Users, NEW u \in Users, u \in Started(r)', u \notin Started(r)
         PROVE  u = s.user /\ rowLock[r] = w /\ Cardinality(Started(r)) < MaxRewarded
    <3>1. attrs'[u].referrer = r /\ attrs'[u].words > 0
      BY <2>10 DEF Started
    <3>2. ~(attrs[u].words > 0)
      BY <2>4, <2>10, <3>1, NoAttrWords DEF Started
    <3>3. /\ u = s.user /\ u \in DOMAIN s.attr /\ s.attr[u].new.words # s.attr[u].old.words
          /\ s.attr[u].new.referrer = r
      BY <2>4, <3>1, <3>2
    <3> QED
      BY <2>10, <3>3 DEF SessionOK, SlotOK
  <2>11. ASSUME NEW r \in Users, NEW u \in Started(r) PROVE u \in Started(r)'
    BY <2>4, <2>11, NoAttrWords DEF Started
  <2>12. Slots'
    <3> SUFFICES ASSUME VerifyReward > 0, NEW r \in Users PROVE Cardinality(Started(r)') <= MaxRewarded
      BY DEF Slots, Started
    <3>1. IsFiniteSet(Started(r)) /\ Cardinality(Started(r)) \in Nat /\ Cardinality(Started(r)) <= MaxRewarded
      <4>1. Started(r) \subseteq Users
        BY DEF Started
      <4> QED
        BY <4>1, ActorsOK, FS_Subset, FS_CardinalityType DEF Accounting, Slots
    <3>2. CASE Started(r)' = Started(r)
      BY <3>1, <3>2
    <3>3. CASE Started(r)' # Started(r)
      <4>1. PICK u \in Users : u \in Started(r)' /\ u \notin Started(r)
        <5>1. Started(r)' \subseteq Users
          BY DEF Started
        <5> QED
          BY <2>11, <3>3, <5>1
      <4>2. u = s.user /\ Cardinality(Started(r)) < MaxRewarded
        BY <2>10, <4>1
      <4>3. Started(r)' = Started(r) \cup {u}
        <5>1. Started(r)' \subseteq Users
          BY DEF Started
        <5> QED
          BY <2>10, <2>11, <4>1, <4>2, <5>1
      <4>4. Cardinality(Started(r) \cup {u}) = Cardinality(Started(r)) + 1
        BY <3>1, <4>1, FS_AddElement
      <4>5. MaxRewarded \in Nat
        BY ReferralConstants
      <4> QED
        BY <3>1, <4>2, <4>3, <4>4, <4>5
    <3> QED
      BY <3>2, <3>3
  <2>13. OthersKeep(w)
    <3>1. ASSUME NEW r \in Users, rowLock[r] \in Workers \ {w}
          PROVE  /\ E(profiles'[r]) = E(profiles[r]) /\ rowLock'[r] = rowLock[r]
                 /\ VerifyReward > 0 => Started(r)' = Started(r)
      <4>1. E(profiles'[r]) = E(profiles[r]) /\ rowLock'[r] = rowLock[r]
        BY <1>1, <2>3, <3>1
      <4>2. VerifyReward > 0 => Started(r)' = Started(r)
        <5>1. Started(r)' \subseteq Users
          BY DEF Started
        <5> QED
          BY <2>10, <2>11, <3>1, <5>1
      <4> QED
        BY <4>1, <4>2
    <3>2. \A k \in Ids : transactions[k] > 0 => transactions'[k] > 0
      BY <2>5 DEF TablesOK
    <3> QED
      BY <2>4, <3>1, <3>2 DEF OthersKeep
  <2> QED
    BY <2>7, <2>8, <2>9, <2>12, <2>13 DEF Accounting
<1> QED
  BY <1>2, <1>3

\* The part that is about everything but tables and sessions.
AccountsInv == /\ Accounting /\ RestOK /\ QuotaOK /\ ActivatedIsPaid
        /\ \A w \in Workers : SessionOK(w, worker[w])

\* A step of w into session t.
LEMMA AnyStep ==
  ASSUME AccountsInv, NEW w \in Workers, NEW t, Step(w, t), OthersKeep(w),
         Accounting', RestOK', QuotaOK', ActivatedIsPaid', SessionOK(w, worker[w])'
  PROVE  AccountsInv'
<1> SUFFICES ASSUME NEW v \in Workers, v # w PROVE SessionOK(v, worker[v])'
  BY DEF AccountsInv
<1>1. worker'[v] = worker[v] /\ SessionOK(v, worker[v])
  BY DEF AccountsInv, RestOK, Step
<1> QED
  BY <1>1, OtherSession DEF AccountsInv, RestOK

\* A step moves one worker.
LEMMA SteppedTo ==
  ASSUME RestOK, NEW w \in Workers, NEW t, Step(w, t)
  PROVE  /\ worker'[w] = t /\ worker' = [v \in Workers |-> worker'[v]]
         /\ \A v \in Workers \ {w} : worker'[v] = worker[v]
BY DEF RestOK, Step

\* A worker that neither comes to give back a place of the day nor leaves it.
LEMMA SameUndoing ==
  ASSUME RestOK, QuotaOK, NEW w \in Workers, NEW t, Step(w, t), worker[w].pc # "a_undo", t.pc # "a_undo",
         quota' >= quota, quota' \in Nat
  PROVE  QuotaOK'
<1>1. Undoing' = Undoing
  BY SteppedTo DEF Undoing, At
<1>2. Cardinality(Undoing) \in Nat
  <2>1. Undoing \subseteq Workers
    BY DEF Undoing
  <2> QED
    BY <2>1, ActorsOK, FS_Subset, FS_CardinalityType
<1> QED
  BY <1>1, <1>2 DEF QuotaOK

\* The tables stay.
LEMMA SameTables ==
  ASSUME Accounting, NEW w \in Workers, UNCHANGED <<tables, scenario>>,
         \A r \in Users : rowLock[r] \in Workers \ {w} => rowLock'[r] = rowLock[r]
  PROVE  Accounting' /\ OthersKeep(w)
<1>1. UNCHANGED <<profiles, attrs, transactions, ledger, scenario>>
  BY DEF tables
<1>2. Accounting'
  BY <1>1 DEF Accounting, TablesOK, EarnedMatchesLedger, RewardsOf, Earned, Slots, Started, E
<1>3. OthersKeep(w)
  BY <1>1 DEF OthersKeep, Started, E
<1> QED
  BY <1>2, <1>3

\* A payment on record stays on record.
LEMMA SamePaid ==
  ASSUME ActivatedIsPaid, Accounting, NEW w \in Workers, OthersKeep(w), UNCHANGED jobStatus
  PROVE  ActivatedIsPaid'
<1> SUFFICES ASSUME NEW p \in Payments, transactions[p.id] > 0 PROVE transactions'[p.id] > 0
  BY DEF ActivatedIsPaid
<1>1. p.id \in Ids
  BY DEF Ids, PaymentIds
<1> QED
  BY <1>1 DEF OthersKeep

\* A step that changes nothing but the session of w.
LEMMA LocalStep ==
  ASSUME AccountsInv, NEW w \in Workers, NEW t, Step(w, t), SessionOK(w, t), t.pc # "a_undo", worker[w].pc # "a_undo",
         UNCHANGED <<tables, jobVars, lockVars, outsideVars, scenario>>, served' \in Nat, faults' \in Nat
  PROVE  AccountsInv'
<1>1. UNCHANGED <<profiles, attrs, transactions, ledger, jobStatus, enqueued, quota, threads, attrLock, rowLock,
                  now, confirmed, orders, scenario>>
  BY DEF tables, jobVars, lockVars, outsideVars
<1>2. Accounting' /\ OthersKeep(w)
  BY <1>1, SameTables DEF AccountsInv, tables
<1>3. RestOK'
  BY <1>1, SteppedTo DEF AccountsInv, RestOK
<1>4. QuotaOK'
  BY <1>1, SameUndoing DEF AccountsInv, QuotaOK
<1>5. ActivatedIsPaid'
  BY <1>1, <1>2, SamePaid DEF AccountsInv
<1>6. SessionOK(w, worker[w])'
  BY <1>1, SteppedTo, FrameSession DEF AccountsInv, RestOK
<1> QED
  BY <1>2, <1>3, <1>4, <1>5, <1>6, AnyStep

\* A session that has loaded and changed nothing.
Blank(t) == t \in Session /\ t.prof = Empty /\ t.attr = Empty /\ t.rows = {} /\ t.grants = {}

\* The empty identity map.
LEMMA EmptyMap == DOMAIN Empty = {} /\ \A R : Empty \in Maps(Users, R)
BY DEF Empty, Maps

\* A new session is blank ...
LEMMA BlankIs ==
  ASSUME NEW pc \in Places, NEW req \in scenario.requests \cup {NoRequest}, NEW user \in Users \cup {Nobody}
  PROVE  Blank([Idle EXCEPT !.pc = pc, !.req = req, !.user = user])
<1> DEFINE t == [Idle EXCEPT !.pc = pc, !.req = req, !.user = user]
<1>1. t.prof = Empty /\ t.attr = Empty /\ t.rows = {} /\ t.grants = {}
  BY DEF Idle
<1>2. Empty \in Maps(Users, Row) /\ Empty \in Maps(Users, Attribution)
  BY EmptyMap
<1>3. Idle \in Session
  BY <1>2 DEF Idle, Session, Times, Places
<1>4. t \in Session
  BY <1>3 DEF Session
<1> QED
  BY <1>1, <1>4 DEF Blank

\* ... holds nothing ...
LEMMA BlankParts ==
  ASSUME NEW t, Blank(t)
  PROVE  SessionType(t) /\ t.prof = Empty /\ t.attr = Empty /\ t.grants = {} /\ DOMAIN Empty = {} /\ t.rows = {}
BY EmptyMap, FS_EmptySet DEF Blank, SessionType

\* ... and satisfies all that is said of its objects.
LEMMA BlankSession ==
  ASSUME NEW w, NEW t, Blank(t), Control(t)
  PROVE  SessionOK(w, t)
BY BlankParts DEF SessionOK, ProfilesOK, GrantsOK, InviteOK, SlotOK

\* So does the session of an idle worker.
LEMMA IdleSession == ASSUME NEW w PROVE SessionOK(w, Idle) /\ Idle.pc = "idle" /\ Blank(Idle)
<1>1. Control(Idle) /\ Idle.pc = "idle"
  BY DEF Idle, Control, Stands
<1>2. Empty \in Maps(Users, Row) /\ Empty \in Maps(Users, Attribution)
  BY EmptyMap
<1>3. Blank(Idle)
  BY <1>2 DEF Blank, Idle, Session, Times, Places
<1> QED
  BY <1>1, <1>3, BlankSession

\* Giving back the locks of w leaves those of others.
LEMMA ReleasedType ==
  ASSUME NEW w \in Workers, ReleaseLocks(w), attrLock \in [Users -> Workers \cup {Nobody}],
         rowLock \in [Users -> Workers \cup {Nobody}]
  PROVE  /\ attrLock' \in [Users -> Workers \cup {Nobody}]
         /\ rowLock' \in [Users -> Workers \cup {Nobody}]
         /\ \A r \in Users : rowLock[r] \in Workers \ {w} => rowLock'[r] = rowLock[r]
BY DEF ReleaseLocks, Released

\* The commit of a session, after which the worker goes on with a blank one.
LEMMA CommitStep ==
  ASSUME AccountsInv, NEW w \in Workers, NEW t, Step(w, t), Commit(w, worker[w]), Blank(t), Control(t)', t.pc # "a_undo",
         worker[w].pc # "a_undo", UNCHANGED <<jobVars, outsideVars, served, faults, scenario>>
  PROVE  AccountsInv'
<1>1. UNCHANGED <<jobStatus, enqueued, quota, threads, now, confirmed, orders, scenario>>
  BY DEF jobVars, outsideVars
<1>2. Accounting' /\ OthersKeep(w)
  BY <1>1, CommitKeeps DEF AccountsInv, RestOK
<1>3. RestOK'
  BY <1>1, SteppedTo, ReleasedType DEF AccountsInv, RestOK, Commit
<1>4. QuotaOK'
  BY <1>1, SameUndoing DEF AccountsInv, QuotaOK
<1>5. ActivatedIsPaid'
  BY <1>1, <1>2, SamePaid DEF AccountsInv
<1>6. SessionOK(w, worker[w])'
  <2>1. worker'[w] = t
    BY SteppedTo DEF AccountsInv
  <2>2. SessionType(t) /\ t.prof = Empty /\ t.attr = Empty /\ t.grants = {} /\ DOMAIN Empty = {}
    BY BlankParts
  <2>3. SessionType(worker[w])' /\ Control(worker[w])'
    BY <2>1, <2>2 DEF SessionType, Session, Control, Stands, Serves
  <2>4. ProfilesOK(w, worker[w])' /\ GrantsOK(worker[w])' /\ InviteOK(w, worker[w])' /\ SlotOK(w, worker[w])'
    BY <2>1, <2>2 DEF ProfilesOK, GrantsOK, InviteOK, SlotOK
  <2> QED
    BY <2>3, <2>4 DEF SessionOK
<1> QED
  BY <1>2, <1>3, <1>4, <1>5, <1>6, AnyStep

\* A session whose only object is the profile of its user, changed to row v.
LEMMA OneRowSession ==
  ASSUME NEW w, NEW t, NEW u \in Users, NEW v \in Row, E(v) = E(profiles[u]), Accounting,
         t.prof = [i \in {u} |-> [old |-> profiles[u], new |-> v]], t.user = u, DOMAIN t.attr = {}, t.grants = {}
  PROVE  /\ t.prof \in [DOMAIN t.prof -> Loaded(Row)] /\ DOMAIN t.prof \subseteq Users
         /\ t.attr \in [DOMAIN t.attr -> Loaded(Attribution)] => t.attr \in [{} -> Loaded(Attribution)]
         /\ ProfilesOK(w, t) /\ GrantsOK(t) /\ InviteOK(w, t) /\ SlotOK(w, t)
<1>1. profiles[u] \in Row /\ E(profiles[u]) \in Nat
  BY DEF Accounting, TablesOK, Row, E
<1>2. DOMAIN t.prof = {u} /\ t.prof[u].old = profiles[u] /\ t.prof[u].new = v
  OBVIOUS
<1>3. Credits(RewardsIn(t.grants, u)) = 0
  <2>1. RewardsIn(t.grants, u) = {}
    BY DEF RewardsIn
  <2> QED
    BY <2>1, CreditsOfNone
<1>4. ProfilesOK(w, t)
  BY <1>1, <1>2, <1>3 DEF ProfilesOK, Accounting, Earned
<1>5. t.prof \in [DOMAIN t.prof -> Loaded(Row)]
  BY <1>1 DEF Loaded
<1> QED
  BY <1>2, <1>4, <1>5 DEF GrantsOK, InviteOK, SlotOK

\* A request is answered: its session ends.
LEMMA FinishStep ==
  ASSUME AccountsInv, NEW w \in Workers, Finish(w), UNCHANGED <<tables, outsideVars, scenario, jobStatus>>,
         enqueued' \in Nat, threads' \in Nat, served' \in Nat, faults' \in Nat, QuotaOK'
  PROVE  AccountsInv'
<1>1. UNCHANGED <<now, confirmed, orders, scenario, jobStatus>>
  BY DEF outsideVars
<1>2. Step(w, Idle) /\ ReleaseLocks(w)
  BY DEF Finish
<1>3. Accounting' /\ OthersKeep(w)
  BY <1>1, <1>2, SameTables, ReleasedType DEF AccountsInv, RestOK
<1>4. RestOK'
  BY <1>1, <1>2, SteppedTo, ReleasedType DEF AccountsInv, RestOK
<1>5. ActivatedIsPaid'
  BY <1>1, <1>3, SamePaid DEF AccountsInv
<1>6. SessionOK(w, worker[w])'
  <2>1. worker'[w] = Idle
    BY <1>2, SteppedTo DEF AccountsInv
  <2>2. SessionType(Idle) /\ Idle.prof = Empty /\ Idle.attr = Empty /\ Idle.grants = {} /\ DOMAIN Empty = {}
    BY IdleSession, BlankParts
  <2>3. SessionType(worker[w])' /\ Control(worker[w])'
    BY <1>1, <2>1, <2>2 DEF SessionType, Session, Control, Stands
  <2>4. ProfilesOK(w, worker[w])' /\ GrantsOK(worker[w])' /\ InviteOK(w, worker[w])' /\ SlotOK(w, worker[w])'
    BY <2>1, <2>2 DEF ProfilesOK, GrantsOK, InviteOK, SlotOK
  <2> QED
    BY <2>3, <2>4 DEF SessionOK
<1> QED
  BY <1>2, <1>3, <1>4, <1>5, <1>6, QuotaOK', AnyStep

\* A request that is answered where nothing else happens.
LEMMA PlainFinish ==
  ASSUME AccountsInv, NEW w \in Workers, Finish(w), UNCHANGED <<tables, jobVars, outsideVars, countVars>>,
         worker[w].pc # "a_undo"
  PROVE  AccountsInv'
<1>1. UNCHANGED <<jobStatus, enqueued, quota, threads, served, faults, scenario>>
  BY DEF jobVars, countVars
<1>2. QuotaOK'
  BY <1>1, SameUndoing, IdleSession DEF AccountsInv, QuotaOK, Finish
<1> QED
  BY <1>1, <1>2, FinishStep DEF AccountsInv, RestOK

\* A worker takes up a request.
LEMMA BeginStep ==
  ASSUME AccountsInv, NEW w \in Workers, NEW r \in scenario.requests, NEW pc \in Reading,
         Begin(w, r, pc, UserOf(r)), Serves([pc |-> pc, req |-> r]),
         pc # "a_load"
  PROVE  AccountsInv'
<1> DEFINE t == [Idle EXCEPT !.pc = pc, !.req = r, !.user = UserOf(r)]
<1>1. t.pc = pc /\ t.req = r /\ t.user = UserOf(r) /\ Blank(t)
  BY BlankIs, UserOfType DEF Idle, AccountsInv, RestOK, Places
<1>2. worker[w].pc # "a_undo" /\ Step(w, t) /\ UNCHANGED <<tables, jobVars, lockVars, outsideVars, faults, scenario>>
      /\ served' = served + 1
  BY DEF Begin, At
<1>3. Control(t)
  <2>1. DOMAIN t.prof = {} /\ DOMAIN t.attr = {} /\ t.grants = {}
    BY <1>1, BlankParts
  <2> HIDE DEF t
  <2>2. Serves(t)
    BY <1>1 DEF Serves
  <2> QED
    BY <1>1, <2>1, <2>2 DEF Control, Stands, Reading, Rewarding, Activating
<1> HIDE DEF t
<1>4. t.pc # "a_undo"
  BY <1>1 DEF Reading
<1>5. served' \in Nat /\ faults' \in Nat
  BY <1>2 DEF AccountsInv, RestOK
<1> QED
  BY <1>1, <1>2, <1>3, <1>4, <1>5, BlankSession, LocalStep

\* What is known of the session of a worker that is not idle.
LEMMA Serving ==
  ASSUME AccountsInv, NEW w \in Workers, worker[w].pc # "idle"
  PROVE  /\ SessionOK(w, worker[w]) /\ SessionType(worker[w]) /\ worker[w] \in Session
         /\ Stands(worker[w]) /\ worker[w].req \in scenario.requests /\ RequestOK(worker[w].req)
         /\ worker[w].user \in Users /\ worker[w].user = UserOf(worker[w].req)
         /\ profiles[worker[w].user] \in Row
<1>1. SessionOK(w, worker[w]) /\ SessionType(worker[w]) /\ worker[w] \in Session
  BY DEF AccountsInv, SessionOK, SessionType
<1>2. Stands(worker[w])
  BY <1>1, IdleSession DEF SessionOK, Control
<1>3. worker[w].req \in scenario.requests /\ worker[w].user = UserOf(worker[w].req) /\ scenario \in Scenarios
  BY <1>2 DEF Stands, AccountsInv, RestOK
<1>4. RequestOK(worker[w].req) /\ worker[w].user \in Users
  BY <1>3, ScenariosOK, UserOfType
<1> QED
  BY <1>1, <1>2, <1>3, <1>4 DEF AccountsInv, Accounting, TablesOK

\* A new session for the request.
LEMMA FreshSession ==
  ASSUME AccountsInv, NEW w \in Workers, worker[w].pc # "idle", NEW pc \in Places
  PROVE  /\ Blank(Fresh(w, pc)) /\ Fresh(w, pc).pc = pc
         /\ Fresh(w, pc).req = worker[w].req /\ Fresh(w, pc).user = worker[w].user
         /\ DOMAIN Fresh(w, pc).prof = {} /\ DOMAIN Fresh(w, pc).attr = {} /\ Fresh(w, pc).grants = {}
<1> DEFINE t == [Idle EXCEPT !.pc = pc, !.req = worker[w].req, !.user = worker[w].user]
<1>1. Blank(t)
  BY Serving, BlankIs
<1>2. t.pc = pc /\ t.req = worker[w].req /\ t.user = worker[w].user
  BY DEF Idle
<1> HIDE DEF t
<1> QED
  BY <1>1, <1>2, BlankParts DEF Fresh, t

\* The same session at another place.
LEMMA MovedSession ==
  ASSUME NEW w, NEW s, SessionOK(w, s), NEW pc \in Places, Control([s EXCEPT !.pc = pc])
  PROVE  SessionOK(w, [s EXCEPT !.pc = pc])
<1> DEFINE t == [s EXCEPT !.pc = pc]
<1>1. s \in Session
  BY DEF SessionOK, SessionType
<1>2. /\ t \in Session /\ t.req = s.req /\ t.user = s.user /\ t.prof = s.prof /\ t.attr = s.attr
      /\ t.rows = s.rows /\ t.grants = s.grants
  BY <1>1 DEF Session
<1> HIDE DEF t
<1>3. SessionType(t)
  BY <1>2 DEF SessionOK, SessionType
<1>4. ProfilesOK(w, t) /\ GrantsOK(t) /\ InviteOK(w, t)
  BY <1>2 DEF SessionOK, ProfilesOK, GrantsOK, InviteOK
<1>5. VerifyReward > 0 => SlotOK(w, t)
  BY <1>2 DEF SessionOK, SlotOK
<1> QED
  BY <1>3, <1>4, <1>5 DEF SessionOK, t

\* The counters stay.
LEMMA CountsKept ==
  ASSUME AccountsInv, UNCHANGED countVars
  PROVE  served' \in Nat /\ faults' \in Nat /\ UNCHANGED <<served, faults, scenario>>
BY DEF AccountsInv, RestOK, countVars

\* Whom a request is about.
LEMMA CapturedUser ==
  ASSUME scenario \in Scenarios, NEW r \in scenario.requests
  PROVE  /\ r.op \in Capturing \cup {"yearly"} => UserOf(r) = PaymentOf(r.id).user
         /\ r.op \notin Capturing \cup {"yearly"} => UserOf(r) = r.user
BY DEF UserOf, Capturing

\* Worker w takes up a request at a place where it serves it.
TakesUp(w) == \E r \in scenario.requests, pc \in Reading :
  /\ Begin(w, r, pc, UserOf(r)) /\ Serves([pc |-> pc, req |-> r])
  /\ pc \notin {"a_load", "c_load"}

\* Every way to take up a request.
LEMMA Accepted ==
  ASSUME scenario \in Scenarios, NEW w, Accept(w)
  PROVE  TakesUp(w)
<1>1. scenario \in Scenarios
  OBVIOUS
<1>2. ASSUME VerifyCapturedPayment(w) PROVE TakesUp(w)
  <2>1. PICK r \in scenario.requests : r.op = "capture" /\ Begin(w, r, "c_lookup", PaymentOf(r.id).user)
    BY <1>2 DEF VerifyCapturedPayment, Asked
  <2> QED
    BY <1>1, <2>1, CapturedUser DEF TakesUp, Serves, Capturing, Reading
<1>3. ASSUME WebhookPaymentCaptured(w) PROVE TakesUp(w)
  <2>1. PICK r \in scenario.requests : /\ r.op = "delivery"
                                       /\ \E pc \in {"c_lookup", "done"} : Begin(w, r, pc, PaymentOf(r.id).user)
    BY <1>3 DEF WebhookPaymentCaptured, Asked
  <2> QED
    BY <1>1, <2>1, CapturedUser DEF TakesUp, Serves, Capturing, Reading
<1>4. ASSUME VerifyYearlyPayment(w) PROVE TakesUp(w)
  <2>1. PICK r \in scenario.requests : r.op = "yearly" /\ Begin(w, r, "y_lookup", PaymentOf(r.id).user)
    BY <1>4 DEF VerifyYearlyPayment, Asked
  <2> QED
    BY <1>1, <2>1, CapturedUser DEF TakesUp, Serves, Capturing, Reading
<1>5. ASSUME WebhookSubscription(w) \/ WebhookSubscriptionPayment(w) PROVE TakesUp(w)
  <2>1. PICK r \in scenario.requests : r.op = "event" /\ Begin(w, r, "s_lookup", r.user)
    BY <1>5 DEF WebhookSubscription, WebhookSubscriptionPayment, Asked
  <2> QED
    BY <1>1, <2>1, CapturedUser DEF TakesUp, Serves, Capturing, Reading
<1>6. ASSUME WebhookCancelled(w) PROVE TakesUp(w)
  <2>1. PICK r \in scenario.requests : r.op = "cancel" /\ Begin(w, r, "d_load", r.user)
    BY <1>6 DEF WebhookCancelled, Asked
  <2> QED
    BY <1>1, <2>1, CapturedUser DEF TakesUp, Serves, Capturing, Reading
<1>7. ASSUME CreateSubscription(w) PROVE TakesUp(w)
  <2>1. PICK r \in scenario.requests : r.op = "create" /\ Begin(w, r, "k_load", r.user)
    BY <1>7 DEF CreateSubscription, Asked
  <2> QED
    BY <1>1, <2>1, CapturedUser DEF TakesUp, Serves, Capturing, Reading
<1>8. ASSUME SyncSubscription(w) PROVE TakesUp(w)
  <2>1. PICK r \in scenario.requests : r.op = "sync" /\ Begin(w, r, "n_load", r.user)
    BY <1>8 DEF SyncSubscription, Asked
  <2> QED
    BY <1>1, <2>1, CapturedUser DEF TakesUp, Serves, Capturing, Reading
<1>9. ASSUME SignIn(w) PROVE TakesUp(w)
  <2>1. PICK r \in scenario.requests : r.op = "signin" /\ Begin(w, r, "g_load", r.user)
    BY <1>9 DEF SignIn, Asked
  <2> QED
    BY <1>1, <2>1, CapturedUser DEF TakesUp, Serves, Capturing, Reading
<1>10. ASSUME ClaimReferral(w) PROVE TakesUp(w)
  <2>1. PICK r \in scenario.requests : r.op = "claim" /\ Begin(w, r, "m_check", r.user)
    BY <1>10 DEF ClaimReferral, Asked
  <2> QED
    BY <1>1, <2>1, CapturedUser DEF TakesUp, Serves, Capturing, Reading
<1>11. ASSUME FinishTranslation(w) PROVE TakesUp(w)
  <2>1. PICK r \in scenario.requests : r.op = "charge" /\ Begin(w, r, "h_load", r.user)
    BY <1>11 DEF FinishTranslation, Asked
  <2> QED
    BY <1>1, <2>1, CapturedUser DEF TakesUp, Serves, Capturing, Reading
<1> QED
  BY <1>2, <1>3, <1>4, <1>5, <1>6, <1>7, <1>8, <1>9, <1>10, <1>11 DEF Accept

\* None of them disturbs what is known.
LEMMA AcceptKeeps ==
  ASSUME AccountsInv, NEW w \in Workers, Accept(w)
  PROVE  AccountsInv'
BY Accepted, BeginStep DEF TakesUp, AccountsInv, RestOK

\* An identity map of one changed profile.
LEMMA OneRowMap ==
  ASSUME Accounting, NEW u \in Users, NEW v \in Row
  PROVE  [i \in {u} |-> [old |-> profiles[u], new |-> v]] \in Maps(Users, Row)
<1>1. profiles[u] \in Row
  BY DEF Accounting, TablesOK
<1>2. [i \in {u} |-> [old |-> profiles[u], new |-> v]] \in [{u} -> Loaded(Row)]
  BY <1>1 DEF Loaded
<1> QED
  BY <1>2 DEF Maps

\* A session whose only object is the profile of its user.
LEMMA LoadedSession ==
  ASSUME AccountsInv, NEW w, NEW t \in Session, NEW u \in Users, NEW v \in Row, E(v) = E(profiles[u]),
         t.prof = [i \in {u} |-> [old |-> profiles[u], new |-> v]], t.user = u, DOMAIN t.attr = {}, t.grants = {},
         Control(t)
  PROVE  SessionOK(w, t)
<1>1. SessionType(t)
  BY FS_EmptySet DEF SessionType
<1>2. Accounting
  BY DEF AccountsInv
<1>3. ProfilesOK(w, t) /\ GrantsOK(t) /\ InviteOK(w, t) /\ SlotOK(w, t)
  BY <1>2, OneRowSession
<1> QED
  BY <1>1, <1>3 DEF SessionOK

\* Where a request reads, its session is still empty.
LEMMA ReadsNothingYet ==
  ASSUME NEW s, Stands(s), s.pc \in Reading
  PROVE  /\ DOMAIN s.prof = {} /\ DOMAIN s.attr = {} /\ s.grants = {}
BY DEF Stands, Reading, Rewarding

-----------------------------------------------------------------------------
(* PaymentCapture *)

\* Action Acknowledge.
LEMMA AcknowledgeKeeps == ASSUME AccountsInv, NEW w \in Workers, Acknowledge(w) PROVE AccountsInv'
BY PlainFinish DEF Acknowledge, At

\* Action CreditLookup.
LEMMA CreditLookupKeeps == ASSUME AccountsInv, NEW w \in Workers, CreditLookup(w) PROVE AccountsInv'
<1> DEFINE s == worker[w]
<1>1. s.pc = "c_lookup" /\ UNCHANGED <<tables, jobVars, lockVars, outsideVars, countVars>>
  BY DEF CreditLookup, At
<1>2. Stands(s) /\ SessionOK(w, s)
  BY <1>1, Serving
<1>3. CASE transactions[s.req.id] > 0
  <2>1. Step(w, Fresh(w, "a_load"))
    BY <1>3 DEF CreditLookup
  <2>2. "a_load" \in Places
    BY DEF Places, Reading
  <2>3. Control(Fresh(w, "a_load"))
    BY <1>1, <1>2, <1>3, <2>2, FreshSession DEF Control, Stands, Serves, Activating, Rewarding
  <2>4. SessionOK(w, Fresh(w, "a_load"))
    BY <1>1, <2>2, <2>3, FreshSession, BlankSession
  <2> QED
    BY <1>1, <2>1, <2>2, <2>4, FreshSession, CountsKept, LocalStep
<1>4. CASE ~(transactions[s.req.id] > 0)
  <2> DEFINE t == [s EXCEPT !.pc = "c_load"]
  <2>1. Step(w, t)
    BY <1>4 DEF CreditLookup
  <2>2. "c_load" \in Places /\ t.pc = "c_load"
    BY <1>2 DEF Places, Reading, SessionOK, SessionType, Session
  <2>3. Control(t)
    BY <1>1, <1>2 DEF Control, Stands, Serves, Activating, Rewarding, Reading, SessionOK, SessionType, Session
  <2>4. SessionOK(w, t)
    BY <1>2, <2>2, <2>3, MovedSession
  <2> HIDE DEF t
  <2> QED
    BY <1>1, <2>1, <2>2, <2>4, CountsKept, LocalStep
<1> QED
  BY <1>3, <1>4

\* Action CreditLoad.
LEMMA CreditLoadKeeps == ASSUME AccountsInv, NEW w \in Workers, CreditLoad(w) PROVE AccountsInv'
<1> DEFINE s == worker[w]
           u == s.user
           p == PaymentOf(s.req.id)
           v == [profiles[u] EXCEPT !.credits_inr_balance = @ + p.amount]
           m == [i \in {u} |-> [old |-> profiles[u], new |-> v]]
           t == [s EXCEPT !.pc = "c_commit", !.rows = {p.id}, !.prof = m]
<1>1. s.pc = "c_load" /\ UNCHANGED <<tables, jobVars, lockVars, outsideVars, countVars>>
  BY DEF CreditLoad, At
<1>2. Stands(s) /\ s \in Session /\ u \in Users /\ s.req \in scenario.requests /\ profiles[u] \in Row
  BY <1>1, Serving
<1>3. s.req.op \in Capturing /\ s.req.id \in PaymentIds /\ p \in Payments /\ p.id = s.req.id /\ p.id \in Ids
  BY <1>1, <1>2, CaptureId, PaymentOfType DEF Stands, Serves, AccountsInv, RestOK, Activating, Rewarding
<1>4. v \in Row /\ E(v) = E(profiles[u])
  BY <1>2, <1>3, PaymentsOK DEF Row, E
<1>5. Step(w, t)
  <2>1. DOMAIN s.prof = {}
    BY <1>1, <1>2, ReadsNothingYet DEF Reading
  <2> HIDE DEF v
  <2>2. Put(Load(s.prof, u, profiles[u]), u, v) = m
    BY <2>1 DEF Load, Put
  <2> HIDE DEF m
  <2> QED
    BY <2>2 DEF CreditLoad, v
<1> HIDE DEF v
<1>6. m \in Maps(Users, Row)
  BY <1>2, <1>4, OneRowMap DEF AccountsInv
<1> HIDE DEF m
<1>7. /\ t \in Session /\ t.pc = "c_commit" /\ t.req = s.req /\ t.user = u /\ t.prof = m /\ t.attr = s.attr
      /\ t.grants = s.grants /\ t.rows = {p.id}
  BY <1>2, <1>3, <1>6 DEF Session, Places
<1> HIDE DEF t
<1>8. DOMAIN t.attr = {} /\ t.grants = {}
  BY <1>1, <1>2, <1>7, ReadsNothingYet DEF Reading
<1>9. Control(t)
  BY <1>1, <1>2, <1>3, <1>7, <1>8 DEF Control, Stands, Serves, Activating, Rewarding, Reading
<1>10. SessionOK(w, t)
  BY <1>2, <1>4, <1>7, <1>8, <1>9, LoadedSession DEF m
<1> QED
  BY <1>1, <1>5, <1>7, <1>10, CountsKept, LocalStep

\* Action CreditCommit.
LEMMA CreditCommitKeeps == ASSUME AccountsInv, NEW w \in Workers, CreditCommit(w) PROVE AccountsInv'
<1> DEFINE s == worker[w]
           t == Fresh(w, "r_attr")
<1>1. s.pc = "c_commit" /\ Commit(w, s) /\ Step(w, t) /\ UNCHANGED <<jobVars, outsideVars, countVars>>
  BY DEF CreditCommit, At
<1>2. Stands(s) /\ SessionType(s) /\ s.req \in scenario.requests
  BY <1>1, Serving
<1>3. s.req.op \in Capturing /\ s.req.id \in Ids /\ s.req.id \in s.rows
  BY <1>1, <1>2, CaptureId DEF Stands, Serves, AccountsInv, RestOK, Activating, Rewarding
<1>4. /\ Blank(t) /\ t.pc = "r_attr" /\ t.req = s.req /\ t.user = s.user /\ DOMAIN t.prof = {}
      /\ DOMAIN t.attr = {} /\ t.grants = {}
  BY <1>1, FreshSession DEF Places, Rewarding
<1>5. transactions'[s.req.id] > 0
  <2>1. ~Conflict(s)
    BY <1>1, <1>2 DEF Conflict, Stands, Rewarding
  <2>2. transactions' = [k \in DOMAIN transactions |-> transactions[k] + (IF k \in s.rows THEN 1 ELSE 0)]
    BY <1>1, <2>1 DEF Commit
  <2>3. transactions \in [Ids -> Nat]
    BY DEF AccountsInv, Accounting, TablesOK
  <2> QED
    BY <1>3, <2>2, <2>3
<1>6. UNCHANGED <<served, faults, scenario>>
  BY <1>1, CountsKept
<1> HIDE DEF t
<1>7. ASSUME NEW x, x = t PROVE Control(x)'
  BY <1>1, <1>2, <1>3, <1>4, <1>5, <1>6, <1>7 DEF Control, Stands, Serves, Activating, Rewarding, Reading
<1> QED
  BY <1>1, <1>4, <1>6, <1>7, CommitStep

\* A request that has read the profile of its user, and goes on with row v.
LEMMA LoadStep ==
  ASSUME AccountsInv, NEW w \in Workers, worker[w].pc \in Reading, NEW t \in Session, Step(w, t),
         UNCHANGED <<tables, jobVars, lockVars, outsideVars, countVars>>,
         NEW v \in Row, E(v) = E(profiles[worker[w].user]),
         t.prof = Put(Load(worker[w].prof, worker[w].user, profiles[worker[w].user]), worker[w].user, v),
         t.req = worker[w].req, t.user = worker[w].user, t.attr = worker[w].attr, t.grants = worker[w].grants,
         t.pc \notin Reading \cup Rewarding \cup {"idle", "m_commit", "a_quota", "a_undo", "a_spawn"}, Serves(t),
         t.pc = "c_commit" => t.req.id \in t.rows,
         t.pc = "a_commit" => t.user = JobOwner /\ transactions[t.req.id] > 0
  PROVE  AccountsInv'
<1> DEFINE s == worker[w]
           m == [i \in {s.user} |-> [old |-> profiles[s.user], new |-> v]]
<1>1. Stands(s) /\ s.user \in Users /\ s.pc # "a_undo"
  BY Serving DEF Reading
<1>2. DOMAIN s.prof = {} /\ DOMAIN s.attr = {} /\ s.grants = {}
  BY <1>1, ReadsNothingYet
<1>3. t.prof = m
  BY <1>2 DEF Load, Put
<1>4. Control(t)
  BY <1>1, <1>2 DEF Control, Stands, Activating, Rewarding, Reading
<1>5. SessionOK(w, t)
  BY <1>1, <1>2, <1>3, <1>4, LoadedSession
<1>6. t.pc # "a_undo"
  OBVIOUS
<1> QED
  BY <1>1, <1>5, <1>6, CountsKept, LocalStep

\* The commit of a request that is then answered.
LEMMA LastCommit ==
  ASSUME AccountsInv, NEW w \in Workers, worker[w].pc # "a_undo", Commit(w, worker[w]), Step(w, Idle),
         UNCHANGED <<jobVars, outsideVars, served, faults, scenario>>
  PROVE  AccountsInv'
<1>1. Control(Idle)'
  BY DEF Control, Idle
<1> QED
  BY <1>1, IdleSession, CommitStep

\* Action ActivateLoad.
LEMMA ActivateLoadKeeps == ASSUME AccountsInv, NEW w \in Workers, ActivateLoad(w) PROVE AccountsInv'
<1> DEFINE s == worker[w]
           u == s.user
<1>1. s.pc = "a_load" /\ UNCHANGED <<tables, jobVars, outsideVars, countVars>>
  BY DEF ActivateLoad, At
<1>2. CASE Finish(w)
  BY <1>1, <1>2, PlainFinish
<1>3. CASE ~Finish(w)
  <2> DEFINE m == Load(s.prof, u, profiles[u])
             t == [s EXCEPT !.pc = "a_commit", !.prof = m]
  <2>1. u = JobOwner /\ Step(w, t) /\ UNCHANGED lockVars
    BY <1>3 DEF ActivateLoad
  <2>2. Stands(s) /\ s \in Session /\ u \in Users /\ profiles[u] \in Row /\ s.pc \in Reading
    BY <1>1, Serving DEF Reading
  <2>3. s.req.op \in Capturing /\ transactions[s.req.id] > 0
    BY <1>1, <2>2 DEF Stands, Serves, Activating, Rewarding
  <2>4. m = [i \in {u} |-> [old |-> profiles[u], new |-> profiles[u]]]
    BY <2>2, ReadsNothingYet DEF Load
  <2>5. m = Put(Load(s.prof, u, profiles[u]), u, profiles[u])
    BY <2>2, <2>4, ReadsNothingYet DEF Load, Put
  <2>6. m \in Maps(Users, Row)
    BY <2>2, <2>4, OneRowMap DEF AccountsInv
  <2> HIDE DEF m
  <2>7. /\ t \in Session /\ t.pc = "a_commit" /\ t.req = s.req /\ t.user = u /\ t.prof = m /\ t.attr = s.attr
        /\ t.grants = s.grants
    BY <2>2, <2>6 DEF Session, Places, Activating
  <2> HIDE DEF t
  <2>8. Serves(t)
    BY <2>3, <2>7 DEF Serves, Activating
  <2>9. t.pc \notin Reading \cup Rewarding \cup {"idle", "m_commit", "a_quota", "a_undo", "a_spawn"} /\ t.pc # "c_commit"
    BY <2>7 DEF Reading, Rewarding
  <2> QED
    BY <1>1, <2>1, <2>2, <2>3, <2>5, <2>7, <2>8, <2>9, LoadStep
<1> QED
  BY <1>2, <1>3

\* The session of a worker that is activating a job, one place further.
LEMMA ActivatingSession ==
  ASSUME AccountsInv, NEW w \in Workers, worker[w].pc \in Activating, NEW pc \in Activating
  PROVE  /\ SessionOK(w, [worker[w] EXCEPT !.pc = pc])
         /\ [worker[w] EXCEPT !.pc = pc].pc = pc
<1> DEFINE s == worker[w]
           t == [s EXCEPT !.pc = pc]
<1>1. Stands(s) /\ SessionOK(w, s) /\ s \in Session /\ s.pc # "idle"
  BY Serving DEF Activating
<1>2. t.pc = pc /\ t.req = s.req /\ t.user = s.user /\ t.prof = s.prof /\ t.attr = s.attr /\ t.grants = s.grants
  BY <1>1 DEF Session
<1>3. pc \in Places /\ pc \notin Reading \cup Rewarding \cup {"idle", "m_commit", "c_commit"}
  BY DEF Places, Activating, Reading, Rewarding
<1> HIDE DEF t
<1>4. s.req.op \in Capturing /\ s.pc \notin Rewarding \cup {"m_commit"} /\ s.pc \notin {"r_pay", "r_end", "m_commit"}
  BY <1>1 DEF Stands, Serves, Activating, Rewarding
<1>5. Control(t)
  BY <1>1, <1>2, <1>3, <1>4 DEF Control, Stands, Serves, Rewarding
<1> QED
  BY <1>1, <1>2, <1>3, <1>5, MovedSession DEF t

\* A step of an activation: the session moves on, and the tables stay.
LEMMA ActivatingStep ==
  ASSUME AccountsInv, NEW w \in Workers, worker[w].pc \in Activating, NEW pc \in Activating, Goto(w, pc),
         UNCHANGED <<tables, enqueued, threads, lockVars, outsideVars, countVars>>, jobStatus' \in {jobStatus, "pending"},
         QuotaOK', ActivatedIsPaid'
  PROVE  AccountsInv'
<1>1. UNCHANGED <<profiles, attrs, transactions, ledger, attrLock, rowLock, now, confirmed, orders, scenario>>
  BY DEF tables, lockVars, outsideVars, countVars
<1>2. Step(w, [worker[w] EXCEPT !.pc = pc]) /\ SessionOK(w, [worker[w] EXCEPT !.pc = pc])
  BY ActivatingSession DEF Goto
<1>3. Accounting' /\ OthersKeep(w)
  BY <1>1, SameTables DEF AccountsInv, tables
<1>4. RestOK'
  BY <1>1, <1>2, SteppedTo, CountsKept DEF AccountsInv, RestOK
<1>5. SessionOK(w, worker[w])'
  BY <1>1, <1>2, SteppedTo, FrameSession DEF AccountsInv, RestOK
<1> QED
  BY <1>2, <1>3, <1>4, <1>5, AnyStep, QuotaOK', ActivatedIsPaid'

\* Action ActivateCommit.
LEMMA ActivateCommitKeeps == ASSUME AccountsInv, NEW w \in Workers, ActivateCommit(w) PROVE AccountsInv'
<1> DEFINE s == worker[w]
<1>1. /\ s.pc = "a_commit" /\ Goto(w, "a_quota") /\ jobStatus' = "pending"
      /\ UNCHANGED <<tables, enqueued, quota, threads, lockVars, outsideVars, countVars>>
  BY DEF ActivateCommit, At
<1>2. s.pc \in Activating /\ "a_quota" \in Activating /\ s.pc # "a_undo"
  BY <1>1 DEF Activating
<1>3. QuotaOK'
  <2> DEFINE t == [s EXCEPT !.pc = "a_quota"]
  <2>1. Step(w, t) /\ t.pc = "a_quota"
    BY <1>1, <1>2, ActivatingSession DEF Goto
  <2> HIDE DEF t
  <2>2. t.pc # "a_undo" /\ quota' >= quota /\ quota' \in Nat
    BY <1>1, <2>1 DEF AccountsInv, QuotaOK
  <2> QED
    BY <1>2, <2>1, <2>2, SameUndoing DEF AccountsInv
<1>4. ActivatedIsPaid'
  <2>1. Stands(s) /\ s.req \in scenario.requests /\ s.user = UserOf(s.req)
    BY <1>1, Serving
  <2>2. s.user = JobOwner /\ s.req.op \in Capturing /\ transactions[s.req.id] > 0
    BY <1>1, <2>1 DEF Stands, Serves, Activating, Rewarding
  <2> DEFINE p == PaymentOf(s.req.id)
  <2>3. p \in Payments /\ p.id = s.req.id /\ p.kind = "payg" /\ p.user = JobOwner
    BY <2>1, <2>2, CaptureId, CapturedUser, PaymentOfType DEF AccountsInv, RestOK
  <2>4. transactions' = transactions
    BY <1>1 DEF tables
  <2> HIDE DEF p
  <2> QED
    BY <2>2, <2>3, <2>4 DEF ActivatedIsPaid
<1> QED
  BY <1>1, <1>2, <1>3, <1>4, ActivatingStep

\* Who takes a place of the day, and who gives one back.
LEMMA ActivateQuotaKeeps == ASSUME AccountsInv, NEW w \in Workers, ActivateQuota(w) PROVE AccountsInv'
<1> DEFINE s == worker[w]
<1>1. /\ s.pc = "a_quota" /\ quota' = quota + 1
      /\ UNCHANGED <<tables, jobStatus, enqueued, threads, lockVars, outsideVars, countVars>>
  BY DEF ActivateQuota, At
<1>2. PICK pc \in {"a_undo", "a_spawn"} : Goto(w, pc)
  BY DEF ActivateQuota
<1>3. s.pc \in Activating /\ pc \in Activating
  BY <1>1 DEF Activating
<1>4. QuotaOK'
  <2>1. Step(w, [s EXCEPT !.pc = pc]) /\ [s EXCEPT !.pc = pc].pc = pc
    BY <1>2, <1>3, ActivatingSession DEF Goto
  <2>2. Undoing' \subseteq Undoing \cup {w}
    BY <2>1, SteppedTo DEF AccountsInv, Undoing, At
  <2>3. IsFiniteSet(Undoing) /\ w \notin Undoing
    <3>1. Undoing \subseteq Workers
      BY DEF Undoing
    <3> QED
      BY <1>1, <3>1, ActorsOK, FS_Subset DEF Undoing, At
  <2>4. Cardinality(Undoing \cup {w}) = Cardinality(Undoing) + 1
        /\ Cardinality(Undoing) \in Nat /\ IsFiniteSet(Undoing \cup {w})
    BY <2>3, FS_AddElement, FS_CardinalityType
  <2>5. Cardinality(Undoing') <= Cardinality(Undoing \cup {w}) /\ Cardinality(Undoing') \in Nat
    BY <2>2, <2>4, FS_Subset, FS_CardinalityType
  <2> QED
    BY <1>1, <2>4, <2>5 DEF AccountsInv, QuotaOK
<1>5. ActivatedIsPaid'
  BY <1>1 DEF tables, AccountsInv, ActivatedIsPaid
<1> QED
  BY <1>1, <1>2, <1>3, <1>4, <1>5, ActivatingStep

\* Action ActivateRefused.
LEMMA ActivateRefusedKeeps == ASSUME AccountsInv, NEW w \in Workers, ActivateRefused(w) PROVE AccountsInv'
<1>1. /\ worker[w].pc = "a_undo" /\ quota' = quota - 1 /\ Finish(w)
      /\ UNCHANGED <<tables, jobStatus, enqueued, threads, outsideVars, countVars>>
  BY DEF ActivateRefused, At
<1>2. QuotaOK'
  <2>1. Undoing' = Undoing \ {w}
    BY <1>1, SteppedTo, IdleSession DEF AccountsInv, Finish, Undoing, At
  <2>2. w \in Undoing /\ IsFiniteSet(Undoing)
    <3>1. Undoing \subseteq Workers
      BY DEF Undoing
    <3> QED
      BY <1>1, <3>1, ActorsOK, FS_Subset DEF Undoing, At
  <2>3. Cardinality(Undoing \ {w}) = Cardinality(Undoing) - 1
        /\ Cardinality(Undoing) \in Nat /\ Cardinality(Undoing \ {w}) \in Nat
    BY <2>2, FS_RemoveElement, FS_CardinalityType
  <2> QED
    BY <1>1, <2>1, <2>3 DEF AccountsInv, QuotaOK
<1> QED
  BY <1>1, <1>2, CountsKept, FinishStep DEF AccountsInv, RestOK

\* Action ActivateSpawn.
LEMMA ActivateSpawnKeeps == ASSUME AccountsInv, NEW w \in Workers, ActivateSpawn(w) PROVE AccountsInv'
<1>1. /\ worker[w].pc = "a_spawn" /\ threads' = threads + 1 /\ Finish(w)
      /\ UNCHANGED <<tables, jobStatus, enqueued, quota, outsideVars, countVars>>
  BY DEF ActivateSpawn, At
<1>2. QuotaOK'
  BY <1>1, SameUndoing, IdleSession DEF AccountsInv, QuotaOK, Finish
<1> QED
  BY <1>1, <1>2, CountsKept, FinishStep DEF AccountsInv, RestOK

\* Action Crash.
LEMMA CrashKeeps == ASSUME AccountsInv, NEW w \in Workers, Crash(w) PROVE AccountsInv'
<1>1. /\ Finish(w) /\ threads' = 0 /\ faults' = faults + 1
      /\ UNCHANGED <<tables, jobStatus, enqueued, quota, outsideVars, served, scenario>>
  BY DEF Crash
<1>2. QuotaOK'
  <2>1. Undoing' \subseteq Undoing
    BY <1>1, SteppedTo, IdleSession DEF AccountsInv, Finish, Undoing, At
  <2>2. IsFiniteSet(Undoing)
    <3>1. Undoing \subseteq Workers
      BY DEF Undoing
    <3> QED
      BY <3>1, ActorsOK, FS_Subset
  <2>3. Cardinality(Undoing') <= Cardinality(Undoing) /\ Cardinality(Undoing') \in Nat /\ Cardinality(Undoing) \in Nat
    BY <2>1, <2>2, FS_Subset, FS_CardinalityType
  <2> QED
    BY <1>1, <2>3 DEF AccountsInv, QuotaOK
<1> QED
  BY <1>1, <1>2, FinishStep DEF AccountsInv, RestOK

\* What happens outside the workers.
LEMMA OutsideStep ==
  ASSUME AccountsInv, UNCHANGED <<tables, jobStatus, quota, lockVars, worker, scenario, served>>,
         enqueued' \in Nat, threads' \in Nat, faults' \in Nat, now' \in Nat, orders' \subseteq PaymentIds,
         confirmed' \in [Users -> BOOLEAN]
  PROVE  AccountsInv'
<1>1. UNCHANGED <<profiles, attrs, transactions, ledger, attrLock, rowLock>>
  BY DEF tables, lockVars
<1>2. Accounting'
  BY <1>1 DEF AccountsInv, Accounting, TablesOK, EarnedMatchesLedger, RewardsOf, Earned, Slots, Started, E
<1>3. RestOK'
  BY <1>1 DEF AccountsInv, RestOK
<1>4. QuotaOK'
  BY DEF AccountsInv, QuotaOK, Undoing, At
<1>5. ActivatedIsPaid'
  BY <1>1 DEF AccountsInv, ActivatedIsPaid
<1>6. ASSUME NEW w \in Workers PROVE SessionOK(w, worker[w])'
  BY <1>1, FrameSession DEF AccountsInv, RestOK
<1> QED
  BY <1>2, <1>3, <1>4, <1>5, <1>6 DEF AccountsInv

\* The steps of Next that no worker takes.
Environment == \/ ThreadEnqueues \/ ThreadFails \/ Tick
               \/ \E u \in Users : ConfirmEmail(u)
               \/ \E p \in Payments : CreatePaygOrder(p) \/ CreateYearlyOrder(p)

\* Nothing of it disturbs the tables or a session.
LEMMA EnvironmentKeeps == ASSUME AccountsInv, Environment PROVE AccountsInv'
<1>1. RestOK
  BY DEF AccountsInv
<1>2. CASE ThreadEnqueues \/ ThreadFails
  BY <1>1, <1>2, OutsideStep DEF ThreadEnqueues, ThreadFails, RestOK, outsideVars, countVars
<1>3. CASE Tick
  BY <1>1, <1>3, OutsideStep DEF Tick, RestOK, jobVars, countVars
<1>4. CASE \E u \in Users : ConfirmEmail(u)
  BY <1>1, <1>4, OutsideStep DEF ConfirmEmail, RestOK, jobVars, countVars
<1>5. CASE \E p \in Payments : CreatePaygOrder(p) \/ CreateYearlyOrder(p)
  <2>1. PICK p \in Payments : CreatePaygOrder(p) \/ CreateYearlyOrder(p)
    BY <1>5
  <2>2. p.id \in PaymentIds
    BY DEF PaymentIds
  <2> QED
    BY <1>1, <2>1, <2>2, OutsideStep DEF CreatePaygOrder, CreateYearlyOrder, RestOK, jobVars, countVars
<1> QED
  BY <1>2, <1>3, <1>4, <1>5 DEF Environment

-----------------------------------------------------------------------------
(* Subscriptions *)

\* A session that keeps its objects.
LEMMA KeptSession ==
  ASSUME NEW w, NEW s, SessionOK(w, s), NEW t \in Session, Control(t), t.user = s.user,
         t.prof = s.prof, t.attr = s.attr, t.grants = s.grants
  PROVE  SessionOK(w, t)
<1>1. SessionType(t)
  BY DEF SessionOK, SessionType
<1>2. ProfilesOK(w, t) /\ GrantsOK(t) /\ InviteOK(w, t)
  BY DEF SessionOK, ProfilesOK, GrantsOK, InviteOK
<1>3. VerifyReward > 0 => SlotOK(w, t)
  BY DEF SessionOK, SlotOK
<1> QED
  BY <1>1, <1>2, <1>3 DEF SessionOK

\* Action EventLookup.
LEMMA EventLookupKeeps == ASSUME AccountsInv, NEW w \in Workers, EventLookup(w) PROVE AccountsInv'
<1> DEFINE s == worker[w]
           e == s.req.event
<1>1. s.pc = "s_lookup" /\ UNCHANGED <<tables, jobVars, outsideVars, countVars>>
  BY DEF EventLookup, At
<1>2. CASE Finish(w)
  BY <1>1, <1>2, PlainFinish
<1>3. CASE ~Finish(w)
  <2>1. PICK end \in (IF CarriesPeriod(e) THEN {e.end} ELSE FetchedEnds) :
          Step(w, [s EXCEPT !.pc = "s_load", !.end = end,
                            !.start = IF CarriesPeriod(e) THEN e.start ELSE e.at])
    BY <1>3 DEF EventLookup
  <2> DEFINE start == IF CarriesPeriod(e) THEN e.start ELSE e.at
             t == [s EXCEPT !.pc = "s_load", !.end = end, !.start = start]
  <2>2. UNCHANGED lockVars
    BY <1>3 DEF EventLookup
  <2>3. Stands(s) /\ s \in Session /\ SessionOK(w, s) /\ RequestOK(s.req)
    BY <1>1, Serving
  <2>4. s.req.op = "event"
    BY <1>1, <2>3 DEF Stands, Serves, Activating, Rewarding
  <2>5. e \in Events
    BY <2>3, <2>4 DEF RequestOK
  <2>6. start \in Times /\ end \in Times
    <3>1. e.at \in Nat /\ e.start \in Nat /\ e.end \in Nat
      BY <2>5, EventTypes
    <3>2. CurrentEnd \in Nat
      <4>1. now \in Nat /\ Month \in Nat \ {0}
        BY CreditConstants DEF AccountsInv, RestOK
      <4>2. now \div Month \in Nat
        BY <4>1
      <4>3. (now \div Month) * Month \in Nat
        BY <4>1, <4>2
      <4> QED
        BY <4>1, <4>3 DEF CurrentEnd, CurrentStart
    <3> QED
      BY <2>1, <3>1, <3>2 DEF Times, FetchedEnds
  <2> HIDE DEF start
  <2>7. /\ t \in Session /\ t.pc = "s_load" /\ t.req = s.req /\ t.user = s.user /\ t.prof = s.prof
        /\ t.attr = s.attr /\ t.grants = s.grants
    BY <2>3, <2>6 DEF Session, Places, Reading
  <2>8. Step(w, t)
    BY <2>1 DEF start
  <2> HIDE DEF t
  <2>9. Control(t)
    BY <1>1, <2>3, <2>4, <2>7 DEF Control, Stands, Serves, Reading, Activating, Rewarding
  <2>10. SessionOK(w, t)
    BY <2>3, <2>7, <2>9, KeptSession
  <2> QED
    BY <1>1, <2>2, <2>7, <2>8, <2>10, CountsKept, LocalStep
<1> QED
  BY <1>2, <1>3

\* The identity map after the first load.
LEMMA ObjectMap ==
  ASSUME AccountsInv, NEW w \in Workers, worker[w].pc \in Reading, NEW v \in Row
  PROVE  LET u == worker[w].user
         IN  Put(Load(worker[w].prof, u, profiles[u]), u, v) \in Maps(Users, Row)
<1> DEFINE s == worker[w]
<1>1. Stands(s) /\ s.user \in Users
  BY Serving DEF Reading
<1>2. Put(Load(s.prof, s.user, profiles[s.user]), s.user, v) = [i \in {s.user} |-> [old |-> profiles[s.user], new |-> v]]
  BY <1>1, ReadsNothingYet DEF Load, Put
<1> QED
  BY <1>1, <1>2, OneRowMap DEF AccountsInv

\* Action EventLoad.
LEMMA EventLoadKeeps == ASSUME AccountsInv, NEW w \in Workers, EventLoad(w) PROVE AccountsInv'
<1> DEFINE s == worker[w]
           u == s.user
<1>1. s.pc = "s_load" /\ UNCHANGED <<tables, jobVars, outsideVars, countVars>>
  BY DEF EventLoad, At
<1>2. CASE Finish(w)
  BY <1>1, <1>2, PlainFinish
<1>3. CASE ~Finish(w)
  <2> DEFINE v == Activate(profiles[u], None, s.end, s.start, now)
             m == Put(Load(s.prof, u, profiles[u]), u, v)
             t == [s EXCEPT !.pc = "s_commit", !.rows = {s.req.event.id}, !.prof = m]
  <2>1. Stands(s) /\ s \in Session /\ u \in Users /\ profiles[u] \in Row /\ RequestOK(s.req) /\ s.pc \in Reading
    BY <1>1, Serving DEF Reading
  <2>2. s.req.op = "event"
    BY <1>1, <2>1 DEF Stands, Serves, Activating, Rewarding
  <2>3. s.start \in Times /\ s.end \in Times /\ now \in Nat
    BY <2>1 DEF Session, AccountsInv, RestOK
  <2>4. s.req.event.id \in Ids
    BY <2>1, <2>2 DEF RequestOK, Ids
  <2>5. v \in Row /\ E(v) = E(profiles[u])
    BY <2>1, <2>3, ActivateType
  <2>6. Step(w, t) /\ UNCHANGED lockVars
    BY <1>3 DEF EventLoad, Activated
  <2> HIDE DEF v
  <2>7. m \in Maps(Users, Row)
    BY <2>1, <2>5, ObjectMap
  <2> HIDE DEF m
  <2>8. /\ t \in Session /\ t.pc = "s_commit" /\ t.req = s.req /\ t.user = u /\ t.prof = m
        /\ t.attr = s.attr /\ t.grants = s.grants
    BY <2>1, <2>7, <2>4 DEF Session, Places
  <2> HIDE DEF t
  <2>9. Serves(t) /\ t.pc \notin Reading \cup Rewarding \cup Activating \cup {"idle", "m_commit", "c_commit"}
    BY <2>2, <2>8 DEF Serves, Reading, Rewarding, Activating
  <2> QED
    BY <1>1, <2>1, <2>5, <2>6, <2>7, <2>8, <2>9, LoadStep DEF m, Activating
<1> QED
  BY <1>2, <1>3

\* Action CancelLoad.
LEMMA CancelLoadKeeps == ASSUME AccountsInv, NEW w \in Workers, CancelLoad(w) PROVE AccountsInv'
<1> DEFINE s == worker[w]
           u == s.user
<1>1. s.pc = "d_load" /\ UNCHANGED <<tables, jobVars, outsideVars, countVars>>
  BY DEF CancelLoad, At
<1>2. CASE Finish(w)
  BY <1>1, <1>2, PlainFinish
<1>3. CASE ~Finish(w)
  <2> DEFINE v == Deactivate(profiles[u])
             m == Put(Load(s.prof, u, profiles[u]), u, v)
             t == [s EXCEPT !.pc = "x_commit", !.prof = m]
  <2>1. Stands(s) /\ s \in Session /\ u \in Users /\ profiles[u] \in Row /\ RequestOK(s.req) /\ s.pc \in Reading
    BY <1>1, Serving DEF Reading
  <2>2. s.req.op = "cancel"
    BY <1>1, <2>1 DEF Stands, Serves, Activating, Rewarding
  <2>3. v \in Row /\ E(v) = E(profiles[u])
    BY <2>1, DeactivateType
  <2>4. Step(w, t) /\ UNCHANGED lockVars
    BY <1>3 DEF CancelLoad
  <2> HIDE DEF v
  <2>5. m \in Maps(Users, Row)
    BY <2>1, <2>3, ObjectMap
  <2> HIDE DEF m
  <2>6. /\ t \in Session /\ t.pc = "x_commit" /\ t.req = s.req /\ t.user = u /\ t.prof = m
        /\ t.attr = s.attr /\ t.grants = s.grants
    BY <2>1, <2>5 DEF Session, Places
  <2> HIDE DEF t
  <2>7. Serves(t) /\ t.pc \notin Reading \cup Rewarding \cup Activating \cup {"idle", "m_commit", "c_commit"}
    BY <2>2, <2>6 DEF Serves, Reading, Rewarding, Activating
  <2> QED
    BY <1>1, <2>1, <2>3, <2>4, <2>5, <2>6, <2>7, LoadStep DEF m, Activating
<1> QED
  BY <1>2, <1>3

\* Action CreateLoad.
LEMMA CreateLoadKeeps == ASSUME AccountsInv, NEW w \in Workers, CreateLoad(w) PROVE AccountsInv'
<1> DEFINE s == worker[w]
           u == s.user
<1>1. s.pc = "k_load" /\ UNCHANGED <<tables, jobVars, lockVars, outsideVars, countVars>>
  BY DEF CreateLoad, At
<1> DEFINE v == [profiles[u] EXCEPT !.razorpay_subscription_id = s.req.sub, !.pending_subscription_kind = s.req.kind]
           m == Put(Load(s.prof, u, profiles[u]), u, v)
           t == [s EXCEPT !.pc = "x_commit", !.prof = m]
<1>2. Stands(s) /\ s \in Session /\ u \in Users /\ profiles[u] \in Row /\ RequestOK(s.req) /\ s.pc \in Reading
  BY <1>1, Serving DEF Reading
<1>3. s.req.op = "create"
  BY <1>1, <1>2 DEF Stands, Serves, Activating, Rewarding
<1>4. s.req.sub \in SubscriptionIds /\ s.req.kind \in PaidPlans
  BY <1>2, <1>3 DEF RequestOK, SubscriptionIds, AllRequests, Stands, AccountsInv, RestOK
<1>5. v \in Row /\ E(v) = E(profiles[u])
  BY <1>2, <1>4 DEF Row, E
<1>6. Step(w, t)
  BY DEF CreateLoad
<1> HIDE DEF v
<1>7. m \in Maps(Users, Row)
  BY <1>2, <1>5, ObjectMap
<1> HIDE DEF m
<1>8. /\ t \in Session /\ t.pc = "x_commit" /\ t.req = s.req /\ t.user = u /\ t.prof = m
      /\ t.attr = s.attr /\ t.grants = s.grants
  BY <1>2, <1>7 DEF Session, Places
<1> HIDE DEF t
<1>9. Serves(t) /\ t.pc \notin Reading \cup Rewarding \cup Activating \cup {"idle", "m_commit", "c_commit"}
  BY <1>3, <1>8 DEF Serves, Reading, Rewarding, Activating
<1> QED
  BY <1>1, <1>2, <1>5, <1>6, <1>7, <1>8, <1>9, LoadStep DEF m, Activating

\* Action YearlyLoad.
LEMMA YearlyLoadKeeps == ASSUME AccountsInv, NEW w \in Workers, YearlyLoad(w) PROVE AccountsInv'
<1> DEFINE s == worker[w]
           u == s.user
<1>1. s.pc = "y_load" /\ UNCHANGED <<tables, jobVars, lockVars, outsideVars, countVars>>
  BY DEF YearlyLoad, At
<1> DEFINE v == Activate(profiles[u], "yearly", s.end, s.start, now)
           m == Put(Load(s.prof, u, profiles[u]), u, v)
           t == [s EXCEPT !.pc = "x_commit", !.prof = m]
<1>2. Stands(s) /\ s \in Session /\ u \in Users /\ profiles[u] \in Row /\ RequestOK(s.req) /\ s.pc \in Reading
  BY <1>1, Serving DEF Reading
<1>3. s.req.op = "yearly"
  BY <1>1, <1>2 DEF Stands, Serves, Activating, Rewarding
<1>4. s.start \in Times /\ s.end \in Times /\ now \in Nat
  BY <1>2 DEF Session, AccountsInv, RestOK
<1>5. v \in Row /\ E(v) = E(profiles[u])
  BY <1>2, <1>4, ActivateType DEF PaidPlans
<1>6. Step(w, t)
  BY DEF YearlyLoad, Activated
<1> HIDE DEF v
<1>7. m \in Maps(Users, Row)
  BY <1>2, <1>5, ObjectMap
<1> HIDE DEF m
<1>8. /\ t \in Session /\ t.pc = "x_commit" /\ t.req = s.req /\ t.user = u /\ t.prof = m
      /\ t.attr = s.attr /\ t.grants = s.grants
  BY <1>2, <1>7 DEF Session, Places
<1> HIDE DEF t
<1>9. Serves(t) /\ t.pc \notin Reading \cup Rewarding \cup Activating \cup {"idle", "m_commit", "c_commit"}
  BY <1>3, <1>8 DEF Serves, Reading, Rewarding, Activating
<1> QED
  BY <1>1, <1>2, <1>5, <1>6, <1>7, <1>8, <1>9, LoadStep DEF m, Activating

\* Action SyncLoad.
LEMMA SyncLoadKeeps == ASSUME AccountsInv, NEW w \in Workers, SyncLoad(w) PROVE AccountsInv'
<1> DEFINE s == worker[w]
           u == s.user
           r == [s EXCEPT !.pc = "s_commit", !.start = CurrentStart, !.end = CurrentEnd]
<1>1. s.pc = "n_load" /\ UNCHANGED <<tables, jobVars, outsideVars, countVars>>
  BY DEF SyncLoad, At
<1>2. CASE Finish(w)
  BY <1>1, <1>2, PlainFinish
<1>3. CASE ~Finish(w)
  <2>1. Stands(s) /\ s \in Session /\ u \in Users /\ profiles[u] \in Row /\ s.pc \in Reading
    BY <1>1, Serving DEF Reading
  <2>2. s.req.op = "sync"
    BY <1>1, <2>1 DEF Stands, Serves, Activating, Rewarding
  <2>3. CurrentStart \in Times /\ CurrentEnd \in Times /\ now \in Nat
    <3>1. now \in Nat /\ Month \in Nat \ {0}
      BY CreditConstants DEF AccountsInv, RestOK
    <3>2. now \div Month \in Nat
      BY <3>1
    <3>3. (now \div Month) * Month \in Nat
      BY <3>1, <3>2
    <3> QED
      BY <3>1, <3>3 DEF CurrentEnd, CurrentStart, Times
  <2>4. /\ r \in Session /\ r.user = u /\ r.prof = s.prof /\ r.req = s.req /\ r.attr = s.attr /\ r.grants = s.grants
        /\ r.start = CurrentStart /\ r.end = CurrentEnd /\ r.pc = "s_commit"
    BY <2>1, <2>3 DEF Session, Places
  <2> DEFINE v == Activate(profiles[u], None, CurrentEnd, CurrentStart, now)
             m == Put(Load(s.prof, u, profiles[u]), u, v)
             t == [r EXCEPT !.prof = m]
  <2>5. v \in Row /\ E(v) = E(profiles[u])
    BY <2>1, <2>3, ActivateType
  <2>6. Step(w, t) /\ UNCHANGED lockVars
    <3>1. Step(w, [r EXCEPT !.prof = Activated(r, s.user, None)]) /\ UNCHANGED lockVars
      BY <1>3 DEF SyncLoad
    <3> HIDE DEF r
    <3> QED
      BY <2>4, <3>1 DEF Activated
  <2> HIDE DEF v, r
  <2>7. m \in Maps(Users, Row)
    BY <2>1, <2>5, ObjectMap
  <2> HIDE DEF m
  <2>8. /\ t \in Session /\ t.pc = "s_commit" /\ t.req = s.req /\ t.user = u /\ t.prof = m
        /\ t.attr = s.attr /\ t.grants = s.grants
    BY <2>4, <2>7 DEF Session
  <2> HIDE DEF t
  <2>9. Serves(t) /\ t.pc \notin Reading \cup Rewarding \cup Activating \cup {"idle", "m_commit", "c_commit"}
    BY <2>2, <2>8 DEF Serves, Reading, Rewarding, Activating
  <2> QED
    BY <1>1, <2>1, <2>5, <2>6, <2>7, <2>8, <2>9, LoadStep DEF m, Activating
<1> QED
  BY <1>2, <1>3

\* Action YearlyLookup.
LEMMA YearlyLookupKeeps == ASSUME AccountsInv, NEW w \in Workers, YearlyLookup(w) PROVE AccountsInv'
<1> DEFINE s == worker[w]
<1>1. s.pc = "y_lookup" /\ UNCHANGED <<tables, jobVars, lockVars, outsideVars, countVars>>
  BY DEF YearlyLookup, At
<1>2. Stands(s) /\ SessionOK(w, s) /\ s \in Session /\ RequestOK(s.req)
  BY <1>1, Serving
<1>3. s.req.op = "yearly"
  BY <1>1, <1>2 DEF Stands, Serves, Activating, Rewarding
<1>4. CASE transactions[s.req.id] > 0
  <2> DEFINE t == Fresh(w, "y_load")
  <2>1. Step(w, t)
    BY <1>4 DEF YearlyLookup
  <2>2. /\ Blank(t) /\ t.pc = "y_load" /\ t.req = s.req /\ t.user = s.user
        /\ DOMAIN t.prof = {} /\ DOMAIN t.attr = {} /\ t.grants = {}
    BY <1>1, FreshSession DEF Places, Reading
  <2> HIDE DEF t
  <2>3. Control(t)
    BY <1>1, <1>2, <1>3, <2>2 DEF Control, Stands, Serves, Activating, Rewarding, Capturing
  <2> QED
    BY <1>1, <2>1, <2>2, <2>3, BlankSession, CountsKept, LocalStep
<1>5. CASE ~(transactions[s.req.id] > 0)
  <2> DEFINE t == [s EXCEPT !.pc = "y_insert", !.rows = {s.req.id}]
  <2>1. Step(w, t)
    BY <1>5 DEF YearlyLookup
  <2>2. s.req.id \in Ids
    BY <1>2, <1>3 DEF RequestOK, Ids
  <2>3. /\ t \in Session /\ t.pc = "y_insert" /\ t.req = s.req /\ t.user = s.user /\ t.prof = s.prof
        /\ t.attr = s.attr /\ t.grants = s.grants
    BY <1>2, <2>2 DEF Session, Places
  <2> HIDE DEF t
  <2>4. Control(t)
    BY <1>1, <1>2, <1>3, <2>3 DEF Control, Stands, Serves, Reading, Activating, Rewarding
  <2> QED
    BY <1>1, <1>2, <2>1, <2>3, <2>4, KeptSession, CountsKept, LocalStep
<1> QED
  BY <1>4, <1>5

\* The commit of a request that goes on with the rewards, for no captured payment.
LEMMA CommitThenRewards ==
  ASSUME AccountsInv, NEW w \in Workers, worker[w].pc \in {"s_commit", "y_insert"}, Commit(w, worker[w]),
         Step(w, Fresh(w, "r_attr")), UNCHANGED <<jobVars, outsideVars, countVars>>
  PROVE  AccountsInv'
<1> DEFINE s == worker[w]
           t == Fresh(w, "r_attr")
<1>1. s.pc # "idle" /\ s.pc # "a_undo"
  OBVIOUS
<1>2. Stands(s)
  BY <1>1, Serving
<1>3. s.req.op \in {"event", "sync", "yearly"}
  BY <1>2 DEF Stands, Serves, Activating, Rewarding
<1>4. /\ Blank(t) /\ t.pc = "r_attr" /\ t.req = s.req /\ t.user = s.user /\ DOMAIN t.prof = {}
      /\ DOMAIN t.attr = {} /\ t.grants = {}
  BY <1>1, FreshSession DEF Places, Rewarding
<1>5. UNCHANGED <<served, faults, scenario>>
  BY CountsKept
<1> HIDE DEF t
<1>6. ASSUME NEW x, x = t PROVE Control(x)'
  BY <1>2, <1>3, <1>4, <1>5, <1>6 DEF Control, Stands, Serves, Activating, Rewarding, Reading, Capturing
<1> QED
  BY <1>1, <1>4, <1>5, <1>6, CommitStep DEF t

\* Action SubscriptionCommit.
LEMMA SubscriptionCommitKeeps == ASSUME AccountsInv, NEW w \in Workers, SubscriptionCommit(w) PROVE AccountsInv'
BY CommitThenRewards DEF SubscriptionCommit, At

\* Action YearlyInsert.
LEMMA YearlyInsertKeeps == ASSUME AccountsInv, NEW w \in Workers, YearlyInsert(w) PROVE AccountsInv'
BY CommitThenRewards DEF YearlyInsert, At

\* Action PlainCommit.
LEMMA PlainCommitKeeps == ASSUME AccountsInv, NEW w \in Workers, PlainCommit(w) PROVE AccountsInv'
BY LastCommit DEF PlainCommit, At, countVars

-----------------------------------------------------------------------------
(* The charge *)

\* Action ChargeLoad.
LEMMA ChargeLoadKeeps == ASSUME AccountsInv, NEW w \in Workers, ChargeLoad(w) PROVE AccountsInv'
<1> DEFINE s == worker[w]
           u == s.user
           p == RefreshExpiry(profiles[u], now)
           b == ComputeCharge(p, s.req.words, now)
<1>1. s.pc = "h_load" /\ UNCHANGED <<tables, jobVars, outsideVars, countVars>>
  BY DEF ChargeLoad, At
<1>2. CASE Finish(w)
  BY <1>1, <1>2, PlainFinish
<1>3. CASE ~Finish(w)
  <2> DEFINE v == ApplyCharge(p, b)
             m == Put(Load(s.prof, u, profiles[u]), u, v)
             t == [s EXCEPT !.pc = "h_commit", !.cost = b.amount_to_pay, !.prof = m]
  <2>1. Stands(s) /\ s \in Session /\ u \in Users /\ profiles[u] \in Row /\ RequestOK(s.req) /\ s.pc \in Reading
    BY <1>1, Serving DEF Reading
  <2>2. s.req.op = "charge"
    BY <1>1, <2>1 DEF Stands, Serves, Activating, Rewarding
  <2>3. s.req.words \in Nat /\ now \in Nat
    BY <2>1, <2>2 DEF RequestOK, AccountsInv, RestOK
  <2>4. p \in Row /\ E(p) = E(profiles[u])
    BY <2>1, <2>3, RefreshExpiryType
  <2> HIDE DEF p
  <2>5. b.free_used \in Nat /\ b.subscription_used \in Nat /\ b.amount_to_pay \in Int
    BY <2>3, <2>4, ComputeChargeType
  <2> HIDE DEF b
  <2>6. v \in Row /\ E(v) = E(profiles[u])
    BY <2>4, <2>5, ApplyChargeType
  <2>7. Step(w, t) /\ UNCHANGED lockVars
    BY <1>3 DEF ChargeLoad, p, b
  <2> HIDE DEF v
  <2>8. m \in Maps(Users, Row)
    BY <2>1, <2>6, ObjectMap
  <2> HIDE DEF m
  <2>9. /\ t \in Session /\ t.pc = "h_commit" /\ t.req = s.req /\ t.user = u /\ t.prof = m
        /\ t.attr = s.attr /\ t.grants = s.grants
    BY <2>1, <2>5, <2>8 DEF Session, Places
  <2> HIDE DEF t
  <2>10. Serves(t) /\ t.pc \notin Reading \cup Rewarding \cup Activating \cup {"idle", "m_commit", "c_commit"}
    BY <2>2, <2>9 DEF Serves, Reading, Rewarding, Activating
  <2> QED
    BY <1>1, <2>1, <2>6, <2>7, <2>8, <2>9, <2>10, LoadStep DEF m, Activating
<1> QED
  BY <1>2, <1>3

\* Action ChargeCommit.
LEMMA ChargeCommitKeeps == ASSUME AccountsInv, NEW w \in Workers, ChargeCommit(w) PROVE AccountsInv'
BY LastCommit DEF ChargeCommit, At

-----------------------------------------------------------------------------
(* Referrals *)

\* What is known of a session but for its place.
ObjectsOK(w, s) == /\ SessionType(s) /\ ProfilesOK(w, s) /\ GrantsOK(s)
                   /\ InviteOK(w, s) /\ (VerifyReward > 0 => SlotOK(w, s))

\* The objects of a session when the tables and its locks stay.
LEMMA FrameObjects ==
  ASSUME NEW v \in Workers, NEW s, ObjectsOK(v, s), UNCHANGED <<profiles, attrs, scenario>>,
         \A r \in Users : rowLock[r] = v => rowLock'[r] = v
  PROVE  ObjectsOK(v, s)'
<1>1. SessionType(s)' /\ GrantsOK(s)'
  BY DEF ObjectsOK, SessionType, Session, GrantsOK
<1>2. ProfilesOK(v, s)'
  BY SessionParts DEF ObjectsOK, ProfilesOK
<1>3. InviteOK(v, s)'
  BY DEF ObjectsOK, InviteOK
<1>4. VerifyReward > 0 => SlotOK(v, s)'
  <2> SUFFICES ASSUME VerifyReward > 0, NEW u \in DOMAIN s.attr, s.attr[u].new.words # s.attr[u].old.words
               PROVE  LET n == s.attr[u].new
                      IN  /\ rowLock'[n.referrer] = v
                          /\ u \in Started(n.referrer) \/ Cardinality(Started(n.referrer)) < MaxRewarded
    BY DEF SlotOK, Started
  <2> QED
    BY DEF ObjectsOK, InviteOK, SlotOK
<1> QED
  BY <1>1, <1>2, <1>3, <1>4 DEF ObjectsOK

\* A step of w that changes its session and takes locks.
LEMMA LockingStep ==
  ASSUME AccountsInv, NEW w \in Workers, NEW t, Step(w, t), ObjectsOK(w, t)', Control(t), t.pc # "a_undo",
         worker[w].pc # "a_undo", UNCHANGED <<tables, jobVars, outsideVars, countVars>>,
         attrLock' \in [Users -> Workers \cup {Nobody}], rowLock' \in [Users -> Workers \cup {Nobody}],
         \A r \in Users : rowLock[r] \in Workers \ {w} => rowLock'[r] = rowLock[r]
  PROVE  AccountsInv'
<1>1. UNCHANGED <<profiles, attrs, transactions, ledger, jobStatus, enqueued, quota, threads,
                  now, confirmed, orders, scenario>>
  BY DEF tables, jobVars, outsideVars, countVars
<1>2. Accounting' /\ OthersKeep(w)
  BY <1>1, SameTables DEF AccountsInv
<1>3. RestOK'
  BY <1>1, SteppedTo, CountsKept DEF AccountsInv, RestOK
<1>4. QuotaOK'
  BY <1>1, SameUndoing DEF AccountsInv, QuotaOK
<1>5. ActivatedIsPaid'
  BY <1>1, <1>2, SamePaid DEF AccountsInv
<1>6. SessionOK(w, worker[w])'
  <2>1. worker'[w] = t
    BY SteppedTo DEF AccountsInv
  <2>2. Control(t)'
    BY <1>1 DEF Control, Stands, Serves
  <2> QED
    BY <2>1, <2>2 DEF ObjectsOK, SessionOK
<1> QED
  BY <1>2, <1>3, <1>4, <1>5, <1>6, AnyStep

\* A session with the same request at the same place, and the same rows loaded.
Resembles(s, t) ==
  /\ t.pc = s.pc /\ t.req = s.req /\ t.user = s.user
  /\ DOMAIN t.attr = DOMAIN s.attr
  /\ \A u \in DOMAIN s.attr : /\ t.attr[u].old = s.attr[u].old
                              /\ t.attr[u].new.referrer = s.attr[u].new.referrer

\* Another status for the attribution.
LEMMA SetStatusKeeps ==
  ASSUME NEW w, NEW s, ObjectsOK(w, s)', NEW u, u = s.user, u \in DOMAIN s.attr,
         NEW status \in {"verified", "completed"}
  PROVE  LET t == SetStatus(s, u, status)
         IN  /\ ObjectsOK(w, t)' /\ Resembles(s, t) /\ t.prof = s.prof /\ t.grants = s.grants
             /\ t.attr[u].new.words = s.attr[u].new.words
<1> DEFINE n == [s.attr[u].new EXCEPT !.status = status]
           m == Put(s.attr, u, n)
           t == SetStatus(s, u, status)
<1>1. SessionType(s)' /\ s \in Session'
  BY DEF ObjectsOK, SessionType
<1>2. s.attr \in [DOMAIN s.attr -> Loaded(Attribution)] /\ s.attr \in Maps(Users, Attribution) /\ DOMAIN s.attr = {u}
      /\ DOMAIN s.attr \subseteq Users
  <2>1. s.attr \in Maps(Users, Attribution) /\ DOMAIN s.attr = {u}
    BY <1>1 DEF Session, SessionType
  <2> QED
    BY <2>1 DEF Maps
<1>3. s.attr[u] \in Loaded(Attribution) /\ s.attr[u].new \in Attribution
  BY <1>2 DEF Loaded
<1>4. n \in Attribution /\ n.words = s.attr[u].new.words /\ n.referrer = s.attr[u].new.referrer /\ n.status = status
  BY <1>3 DEF Attribution
<1> HIDE DEF n
<1>5. /\ m \in [DOMAIN s.attr -> Loaded(Attribution)] /\ DOMAIN m = DOMAIN s.attr
      /\ m[u].old = s.attr[u].old /\ m[u].new = n
  BY <1>2, <1>3, <1>4 DEF Put, Loaded
<1>6. m \in Maps(Users, Attribution)
  BY <1>2, <1>5 DEF Maps
<1> HIDE DEF m
<1>7. t = [s EXCEPT !.attr = m, !.changed = TRUE]
  BY DEF SetStatus, m, n
<1>8. /\ t \in Session' /\ t.pc = s.pc /\ t.req = s.req /\ t.user = s.user /\ t.prof = s.prof /\ t.grants = s.grants
      /\ t.attr = m
  BY <1>1, <1>6, <1>7 DEF Session
<1> HIDE DEF t
<1>9. SessionType(t)' /\ ProfilesOK(w, t)' /\ GrantsOK(t)'
  BY <1>5, <1>8 DEF ObjectsOK, SessionType, ProfilesOK, GrantsOK
<1>10. InviteOK(w, t)'
  BY <1>2, <1>4, <1>5, <1>8 DEF ObjectsOK, InviteOK
<1>11. VerifyReward > 0 => SlotOK(w, t)'
  BY <1>2, <1>4, <1>5, <1>8 DEF ObjectsOK, SlotOK
<1>12. Resembles(s, t)
  BY <1>2, <1>4, <1>5, <1>8 DEF Resembles
<1> QED
  BY <1>4, <1>5, <1>8, <1>9, <1>10, <1>11, <1>12 DEF ObjectsOK, t

\* The status that a confirmed email address gives.
LEMMA VerifiedKeeps ==
  ASSUME NEW w, NEW s, ObjectsOK(w, s)', NEW u, u = s.user, u \in DOMAIN s.attr, NEW t, t = Verified(s, u)
  PROVE  /\ ObjectsOK(w, t)' /\ Resembles(s, t) /\ t.prof = s.prof /\ t.grants = s.grants
         /\ t.attr[u].new.words = s.attr[u].new.words
<1>1. CASE t = SetStatus(s, u, "verified")
  BY <1>1, SetStatusKeeps
<1>2. CASE t = s
  BY <1>2 DEF Resembles
<1> QED
  BY <1>1, <1>2 DEF Verified

\* Session t is session s after it has read row p of profiles, or row a of the attributions.
ProfRead(s, r, p, t) == t = [s EXCEPT !.prof = Load(@, r, p)]
AttrRead(s, u, a, t) == t = [s EXCEPT !.attr = Load(@, u, a)]

\* The profile of the user, or of a referrer whose row is held, is read.
LEMMA ProfileLoaded ==
  ASSUME NEW w, NEW s, ObjectsOK(w, s)', Accounting', NEW r \in Users, r = s.user \/ rowLock'[r] = w,
         NEW t, ProfRead(s, r, profiles'[r], t)
  PROVE  /\ ObjectsOK(w, t)' /\ Resembles(s, t) /\ t.grants = s.grants /\ r \in DOMAIN t.prof
         /\ t.attr = s.attr
<1> DEFINE m == t.prof
<1>1. SessionType(s)' /\ s \in Session'
  BY DEF ObjectsOK, SessionType
<1>2. s.prof \in [DOMAIN s.prof -> Loaded(Row)] /\ DOMAIN s.prof \subseteq Users
  <2>1. s.prof \in Maps(Users, Row)
    BY <1>1 DEF Session
  <2> QED
    BY <2>1 DEF Maps
<1>3. profiles'[r] \in Row /\ E(profiles'[r]) \in Nat /\ E(profiles'[r]) <= scenario'.maxEarned
  BY DEF Accounting, TablesOK, Earned, Row, E
<1>4. m = Load(s.prof, r, profiles'[r])
  BY <1>1 DEF Session, ProfRead
<1> HIDE DEF m
<1>5. /\ m \in [DOMAIN s.prof \cup {r} -> Loaded(Row)] /\ DOMAIN m = DOMAIN s.prof \cup {r}
      /\ \A i \in DOMAIN s.prof : m[i] = s.prof[i]
      /\ r \notin DOMAIN s.prof => m[r] = [old |-> profiles'[r], new |-> profiles'[r]]
  BY <1>2, <1>3, <1>4 DEF Load, Loaded
<1>6. m \in Maps(Users, Row)
  BY <1>2, <1>5 DEF Maps
<1>7. /\ t \in Session' /\ t.pc = s.pc /\ t.req = s.req /\ t.user = s.user /\ t.prof = m /\ t.grants = s.grants
      /\ t.attr = s.attr
  BY <1>1, <1>4, <1>6 DEF Session, ProfRead
<1>8. SessionType(t)' /\ GrantsOK(t)' /\ InviteOK(w, t)'
  BY <1>5, <1>7 DEF ObjectsOK, SessionType, GrantsOK, InviteOK
<1>9. VerifyReward > 0 => SlotOK(w, t)'
  BY <1>7 DEF ObjectsOK, SlotOK
<1>10. ProfilesOK(w, t)'
  <2> SUFFICES ASSUME NEW i \in DOMAIN m
               PROVE  /\ i = s.user => E(m[i].new) = E(m[i].old)
                      /\ i # s.user => rowLock'[i] = w /\ E(m[i].old) = E(profiles'[i])
                      /\ E(m[i].new) <= scenario'.maxEarned
                      /\ E(m[i].new) = E(m[i].old) + Credits(RewardsIn(s.grants, i))
    BY <1>7 DEF ProfilesOK, m
  <2>1. CASE i \in DOMAIN s.prof
    BY <1>5, <2>1 DEF ObjectsOK, ProfilesOK
  <2>2. CASE i \notin DOMAIN s.prof
    <3>1. i = r /\ m[i].old = profiles'[r] /\ m[i].new = profiles'[r]
      BY <1>5, <2>2
    <3>2. RewardsIn(s.grants, i) = {}
      BY <2>2 DEF ObjectsOK, GrantsOK, RewardsIn
    <3> QED
      BY <1>3, <3>1, <3>2, CreditsOfNone
  <2> QED
    BY <2>1, <2>2
<1>11. Resembles(s, t)
  BY <1>7 DEF Resembles
<1> QED
  BY <1>5, <1>7, <1>8, <1>9, <1>10, <1>11 DEF ObjectsOK, m

\* The attribution of the user is read.
LEMMA AttributionLoaded ==
  ASSUME NEW w, NEW s, ObjectsOK(w, s)', TablesOK', NEW u \in Users, s.user = u, attrs'[u] # NoAttr,
         NEW t, AttrRead(s, u, attrs'[u], t)
  PROVE  /\ ObjectsOK(w, t)' /\ t.pc = s.pc /\ t.req = s.req /\ t.user = s.user /\ t.prof = s.prof
         /\ t.grants = s.grants /\ DOMAIN t.attr = {u}
         /\ u \in DOMAIN s.attr => t.attr[u] = s.attr[u]
         /\ u \notin DOMAIN s.attr => t.attr[u].old = attrs'[u] /\ t.attr[u].new = attrs'[u]
<1> DEFINE m == t.attr
<1>1. PICK x : x = attrs'[u]
  OBVIOUS
<1>2. SessionType(s)' /\ s \in Session' /\ x \in Attribution
  BY <1>1 DEF ObjectsOK, SessionType, TablesOK
<1>3. s.attr \in [DOMAIN s.attr -> Loaded(Attribution)] /\ DOMAIN s.attr \subseteq {u}
  <2>1. s.attr \in Maps(Users, Attribution) /\ DOMAIN s.attr \subseteq {u}
    BY <1>2 DEF Session, SessionType
  <2> QED
    BY <2>1 DEF Maps
<1>4. /\ m \in [{u} -> Loaded(Attribution)] /\ DOMAIN m = {u}
      /\ u \in DOMAIN s.attr => m[u] = s.attr[u]
      /\ u \notin DOMAIN s.attr => m[u].old = x /\ m[u].new = x
  <2>1. m = Load(s.attr, u, x)
    BY <1>1, <1>2 DEF Session, AttrRead
  <2> HIDE DEF m
  <2> QED
    BY <1>2, <1>3, <2>1 DEF Load, Loaded
<1>5. m \in Maps(Users, Attribution)
  BY <1>4 DEF Maps
<1> HIDE DEF m
<1>6. /\ t \in Session' /\ t.pc = s.pc /\ t.req = s.req /\ t.user = s.user /\ t.prof = s.prof /\ t.grants = s.grants
      /\ t.attr = m
  BY <1>2, <1>5 DEF Session, AttrRead, m
<1>7. SessionType(t)' /\ ProfilesOK(w, t)' /\ GrantsOK(t)'
  BY <1>4, <1>6 DEF ObjectsOK, SessionType, ProfilesOK, GrantsOK
<1>8. InviteOK(w, t)'
  <2>1. x.words \in Nat /\ x.status # "none" /\ x.referrer \in Users \ {u}
    BY <1>1, <1>2 DEF TablesOK, Attribution
  <2> QED
    BY <1>1, <1>4, <1>6, <2>1 DEF ObjectsOK, InviteOK
<1>9. VerifyReward > 0 => SlotOK(w, t)'
  BY <1>4, <1>6 DEF ObjectsOK, SlotOK
<1> QED
  BY <1>1, <1>4, <1>6, <1>7, <1>8, <1>9 DEF ObjectsOK

\* A session that gives rewards stands where it should.
LEMMA RewardingControl ==
  ASSUME NEW s, Stands(s), s.pc \in Rewarding \cup {"g_load"},
         NEW t, t.pc \in Rewarding, t.req = s.req, t.user = s.user,
         \A u \in DOMAIN t.attr : t.attr[u].old # NoAttr,
         t.pc \in {"r_attr", "r_verify"} => t.grants = {},
         t.pc = "r_pay" => \A g \in t.grants : \A u \in Users : g.key # PaymentKey(u),
         t.pc \in {"r_verify", "r_pay"} => t.user \in DOMAIN t.attr
  PROVE  Control(t) /\ t.pc # "a_undo"
<1>1. s.req.op \in Capturing \cup {"yearly", "event", "sync", "signin"}
  BY DEF Stands, Serves, Rewarding, Activating
<1>2. t.pc \notin Reading \cup Activating \cup {"m_commit", "c_commit", "idle"}
  BY DEF Reading, Activating, Rewarding
<1>3. s.req.op \in Capturing => transactions[s.req.id] > 0
  BY DEF Stands, Serves, Rewarding, Activating, Capturing
<1>4. Serves(t) /\ s.req \in scenario.requests /\ s.user = UserOf(s.req)
  BY <1>1 DEF Serves, Stands
<1> QED
  BY <1>2, <1>3, <1>4 DEF Control, Stands, Activating, Rewarding

\* Words credited to a profile count in its earned total.
LEMMA CreditedType ==
  ASSUME NEW p \in Row, NEW words \in Nat
  PROVE  Credited(p, words) \in Row /\ E(Credited(p, words)) = E(p) + words
<1>1. p.referral_bonus_words + words \in Nat /\ p.referral_words_earned_total + words \in Nat
  BY DEF Row
<1> DEFINE a == p.referral_bonus_words + words
           b == p.referral_words_earned_total + words
<1>2. Credited(p, words) = [p EXCEPT !.referral_bonus_words = a, !.referral_words_earned_total = b]
  BY DEF Credited
<1>3. a \in Nat /\ b \in Nat
  BY <1>1
<1> HIDE DEF a, b
<1>4. Credited(p, words) \in Row /\ E(Credited(p, words)) = b
  BY <1>2, <1>3 DEF Row, E
<1> QED
  BY <1>4 DEF E, b

\* Words booked on an attribution.
LEMMA RewardedType ==
  ASSUME NEW a \in Attribution, NEW words \in Nat
  PROVE  LET n == Rewarded(a, words)
         IN  n \in Attribution /\ n.words = a.words + words /\ n.referrer = a.referrer /\ n.status = a.status
BY DEF Rewarded, Attribution

\* Session s of user u may reward the referrer r.
CanReward(w, s, u, r) ==
  /\ ObjectsOK(w, s) /\ s.user = u /\ u \in DOMAIN s.attr /\ s.attr[u].old # NoAttr
  /\ r \in DOMAIN s.prof /\ s.attr[u].new.referrer = r /\ rowLock[r] = w
  /\ VerifyReward > 0 => (u \in Started(r) \/ Cardinality(Started(r)) < MaxRewarded)

\* Session t has entry g more than s, counted by profile v and attribution n.
Rewards(s, t, u, r, g, v, n) ==
  /\ g \in Entry /\ g.user = r /\ g.key[1] # "referee_signup_bonus" /\ \A x \in s.grants : x.key # g.key
  /\ v \in Row /\ E(s.prof[r].new) + g.credits = E(v)
  /\ n \in Attribution /\ s.attr[u].new.words + g.credits = n.words
  /\ n.referrer = r /\ n.status = s.attr[u].new.status
  /\ t.user = u /\ t.grants = s.grants \cup {g} /\ t.prof = Put(s.prof, r, v) /\ t.attr = Put(s.attr, u, n)
  /\ t.pc = s.pc /\ t.req = s.req

\* A ledger entry with its words on both rows.
LEMMA GrantKeeps ==
  ASSUME NEW w, NEW s, NEW u, NEW r, CanReward(w, s, u, r)',
         NEW t, t \in Session', NEW g, NEW v, E(v) <= scenario'.maxEarned, NEW n, Rewards(s, t, u, r, g, v, n)
  PROVE  ObjectsOK(w, t)' /\ Resembles(s, t)
<1> USE DEF CanReward, Rewards
<1> DEFINE p == t.prof
           a == t.attr
           G == t.grants
<1>1. SessionType(s)' /\ s \in Session'
  BY DEF ObjectsOK, SessionType
<1>2. s.prof \in [DOMAIN s.prof -> Loaded(Row)] /\ DOMAIN s.prof \subseteq Users
  <2>1. s.prof \in Maps(Users, Row)
    BY <1>1 DEF Session
  <2> QED
    BY <2>1 DEF Maps
<1>3. s.attr \in [DOMAIN s.attr -> Loaded(Attribution)] /\ DOMAIN s.attr = {u} /\ s.grants \subseteq Entry
      /\ IsFiniteSet(s.grants)
  <2>1. s.attr \in Maps(Users, Attribution) /\ DOMAIN s.attr = {u} /\ s.grants \subseteq Entry
        /\ IsFiniteSet(s.grants)
    BY <1>1 DEF Session, SessionType
  <2> QED
    BY <2>1 DEF Maps
<1>4. g.credits \in Nat /\ E(s.prof[r].new) \in Nat /\ E(s.prof[r].old) \in Nat
  BY <1>2 DEF Loaded, Row, E, Entry
<1>5. s.attr[u].new.words \in Nat /\ s.attr[u].old.words \in Nat
  BY <1>3 DEF Loaded, Attribution
<1>6. /\ DOMAIN p = DOMAIN s.prof
      /\ \A i \in DOMAIN s.prof : p[i].old = s.prof[i].old
      /\ \A i \in DOMAIN s.prof : i # r => p[i].new = s.prof[i].new
      /\ p[r].new = v
  BY <1>2 DEF Put, Loaded
<1>7. DOMAIN a = {u} /\ a[u].old = s.attr[u].old /\ a[u].new = n
  BY <1>3 DEF Put, Loaded
<1>8. IsFiniteSet(G)
  BY <1>3, FS_AddElement
<1> HIDE DEF p, a, G
<1>9. SessionType(t)'
  BY <1>7, <1>8 DEF SessionType, a, G
<1>10. GrantsOK(t)'
  BY <1>6 DEF ObjectsOK, GrantsOK, p
<1>11. ProfilesOK(w, t)'
  <2> SUFFICES ASSUME NEW i \in DOMAIN p
               PROVE  /\ i = s.user => E(p[i].new) = E(p[i].old)
                      /\ i # s.user => rowLock'[i] = w /\ E(p[i].old) = E(profiles'[i])
                      /\ E(p[i].new) <= scenario'.maxEarned
                      /\ E(p[i].new) = E(p[i].old) + Credits(RewardsIn(G, i))
    BY DEF ProfilesOK, p, G
  <2>1. /\ i = s.user => E(s.prof[i].new) = E(s.prof[i].old)
        /\ i # s.user => rowLock'[i] = w /\ E(s.prof[i].old) = E(profiles'[i])
        /\ E(s.prof[i].new) <= scenario'.maxEarned
        /\ E(s.prof[i].new) = E(s.prof[i].old) + Credits(RewardsIn(s.grants, i))
    BY <1>6 DEF ObjectsOK, ProfilesOK
  <2>2. CASE i # r
    <3>1. RewardsIn(G, i) = RewardsIn(s.grants, i)
      BY <2>2 DEF RewardsIn, G
    <3> QED
      BY <1>6, <2>1, <2>2, <3>1
  <2>3. CASE i = r
    <3> DEFINE L == RewardsIn(s.grants, r)
    <3>1. RewardsIn(G, r) = L \cup {g}
      BY DEF RewardsIn, G
    <3>2. IsFiniteSet(L) /\ Credits(L) \in Int /\ \A l \in L : l.credits \in Int
      BY <1>3, RewardsInType
    <3>3. g \notin L
      BY DEF RewardsIn
    <3>4. E(s.prof[r].new) = E(s.prof[r].old) + Credits(L)
      BY <2>1, <2>3
    <3> HIDE DEF L
    <3>5. \A l \in L \cup {g} : l.credits \in Int
      BY <1>4, <3>2
    <3>6. Credits(L \cup {g}) = Credits(L) + g.credits
      BY <3>2, <3>3, <3>5, CreditsOfOneMore
    <3>7. r # s.user
      BY DEF ObjectsOK, InviteOK
    <3>8. E(p[r].new) = E(p[r].old) + Credits(L \cup {g})
      BY <1>4, <1>6, <3>2, <3>4, <3>6
    <3> QED
      BY <1>6, <2>1, <2>3, <3>1, <3>7, <3>8
  <2> QED
    BY <2>2, <2>3
<1>12. InviteOK(w, t)'
  <2>1. s.attr[u].new.words >= s.attr[u].old.words
    BY DEF ObjectsOK, InviteOK
  <2>2. n.words >= s.attr[u].old.words
    BY <1>4, <1>5, <2>1
  <2> QED
    BY <1>7, <2>2 DEF ObjectsOK, InviteOK, a
<1>13. VerifyReward > 0 => SlotOK(w, t)'
  BY <1>7 DEF SlotOK, a
<1>14. Resembles(s, t)
  BY <1>3, <1>7 DEF Resembles, a
<1> QED
  BY <1>9, <1>10, <1>11, <1>12, <1>13, <1>14 DEF ObjectsOK

\* The words of one reward, as far as the caps leave room.
LEMMA WordCreditKeeps ==
  ASSUME NEW w, NEW s, NEW u, NEW r, CanReward(w, s, u, r)', u \in Users, UNCHANGED scenario, scenario.maxEarned \in Nat,
         NEW amount \in Nat, NEW key \in RewardKeys, \A g \in s.grants : g.key # key,
         NEW t, t = WordCredit(s, u, r, amount, key)
  PROVE  /\ ObjectsOK(w, t)' /\ Resembles(s, t)
         /\ \A g \in t.grants : g \in s.grants \/ g.key = key
<1>1. /\ ObjectsOK(w, s)' /\ s.user = u /\ u \in DOMAIN s.attr /\ r \in DOMAIN s.prof
      /\ s.attr[u].new.referrer = r
  BY DEF CanReward
<1> DEFINE earned == E(s.prof[r].new)
           room   == scenario.maxEarned - earned
           grant  == IF amount <= room THEN amount ELSE room
<1>2. CASE grant <= 0 \/ Recorded(key)
  <2>1. t = s
    BY <1>2 DEF WordCredit, E
  <2> QED
    BY <1>1, <2>1 DEF Resembles
<1>3. CASE ~(grant <= 0 \/ Recorded(key))
  <2>1. t = [s EXCEPT !.grants = @ \cup {[key |-> key, user |-> r, credits |-> grant]},
                      !.prof = Put(@, r, Credited(@[r].new, grant)),
                      !.attr = Put(@, u, Rewarded(@[u].new, grant)),
                      !.changed = TRUE]
    BY <1>3 DEF WordCredit, E
  <2>2. earned \in Nat
    <3>1. s.prof \in Maps(Users, Row)
      BY <1>1 DEF ObjectsOK, SessionType, Session
    <3>2. s.prof[r].new \in Row
      BY <1>1, <3>1 DEF Maps, Loaded
    <3> QED
      BY <3>2 DEF Row, E
  <2>3. grant \in Nat /\ grant > 0 /\ earned + grant <= scenario.maxEarned
    <3> DEFINE e == earned
               k == scenario.maxEarned
    <3>1. e \in Nat /\ k \in Nat /\ grant = (IF amount <= k - e THEN amount ELSE k - e) /\ ~(grant <= 0)
      BY <1>3, <2>2
    <3> HIDE DEF e, k, earned, grant, room
    <3>2. grant \in Nat /\ grant > 0 /\ e + grant <= k
      BY <3>1
    <3> QED
      BY <3>2 DEF e, k
  <2> DEFINE g == [key |-> key, user |-> r, credits |-> grant]
             v == Credited(s.prof[r].new, grant)
             n == Rewarded(s.attr[u].new, grant)
  <2> HIDE DEF grant, earned
  <2>4. key \in Keys /\ key[1] # "referee_signup_bonus"
    BY DEF RewardKeys, Keys, VerifyKey, PaymentKey
  <2>5. g \in Entry /\ g.key = key /\ g.user = r /\ g.credits = grant
    <3>1. r \in Users
      BY <1>1 DEF ObjectsOK, InviteOK
    <3> QED
      BY <2>3, <2>4, <3>1 DEF Entry
  <2>6. s \in Session' /\ s.prof \in Maps(Users, Row) /\ s.attr \in Maps(Users, Attribution) /\ s.grants \in SUBSET Entry
    BY <1>1 DEF ObjectsOK, SessionType, Session
  <2>7. s.prof[r].new \in Row /\ s.attr[u].new \in Attribution
    BY <1>1, <2>6 DEF Maps, Loaded
  <2>8. v \in Row /\ E(s.prof[r].new) + g.credits = E(v) /\ E(v) <= scenario'.maxEarned
    BY <2>2, <2>3, <2>5, <2>7, CreditedType DEF earned
  <2>9. /\ n \in Attribution /\ s.attr[u].new.words + g.credits = n.words /\ n.referrer = r
        /\ n.status = s.attr[u].new.status
    <3>1. n \in Attribution /\ n.words = s.attr[u].new.words + grant /\ n.referrer = s.attr[u].new.referrer
          /\ n.status = s.attr[u].new.status
      BY <2>3, <2>7, RewardedType
    <3> QED
      BY <1>1, <2>5, <3>1
  <2> HIDE DEF g, v, n
  <2>10. Put(s.prof, r, v) \in Maps(Users, Row) /\ Put(s.attr, u, n) \in Maps(Users, Attribution)
    BY <1>1, <2>6, <2>8, <2>9 DEF Put, Maps, Loaded
  <2>11. s.grants \cup {g} \in SUBSET Entry
    BY <2>5, <2>6
  <2>12. t = [s EXCEPT !.grants = s.grants \cup {g}, !.prof = Put(s.prof, r, v), !.attr = Put(s.attr, u, n),
                       !.changed = TRUE]
    BY <2>1 DEF g, v, n
  <2>13. /\ t \in Session' /\ t.user = s.user /\ t.grants = s.grants \cup {g} /\ t.pc = s.pc /\ t.req = s.req
         /\ t.prof = Put(s.prof, r, v) /\ t.attr = Put(s.attr, u, n)
    BY <2>6, <2>10, <2>11, <2>12 DEF Session
  <2>14. g.user = r /\ g.key[1] # "referee_signup_bonus" /\ \A x \in s.grants : x.key # g.key
    BY <2>4, <2>5
  <2>15. Rewards(s, t, u, r, g, v, n)
    BY <1>1, <2>5, <2>8, <2>9, <2>13, <2>14 DEF Rewards
  <2>16. ObjectsOK(w, t)' /\ Resembles(s, t)
    BY <2>8, <2>13, <2>15, GrantKeeps
  <2> QED
    BY <2>5, <2>13, <2>16
<1> QED
  BY <1>2, <1>3

\* The same session at place pc.
LEMMA MovedObjects ==
  ASSUME NEW w, NEW s, ObjectsOK(w, s), NEW pc \in Places, NEW t, t = [s EXCEPT !.pc = pc]
  PROVE  /\ ObjectsOK(w, t) /\ t.pc = pc /\ t.req = s.req /\ t.user = s.user /\ t.prof = s.prof /\ t.attr = s.attr
         /\ t.grants = s.grants
<1>1. s \in Session
  BY DEF ObjectsOK, SessionType
<1>2. /\ t \in Session /\ t.pc = pc /\ t.req = s.req /\ t.user = s.user /\ t.prof = s.prof /\ t.attr = s.attr
      /\ t.grants = s.grants
  BY <1>1 DEF Session
<1>3. SessionType(t) /\ ProfilesOK(w, t) /\ GrantsOK(t) /\ InviteOK(w, t)
  BY <1>2 DEF ObjectsOK, SessionType, ProfilesOK, GrantsOK, InviteOK
<1>4. VerifyReward > 0 => SlotOK(w, t)
  BY <1>2 DEF ObjectsOK, SlotOK
<1> QED
  BY <1>2, <1>3, <1>4 DEF ObjectsOK

\* A step of w that takes no lock.
LEMMA LocalObjects ==
  ASSUME AccountsInv, NEW w \in Workers, NEW t, Step(w, t), ObjectsOK(w, t)', Control(t), t.pc # "a_undo",
         worker[w].pc # "a_undo", UNCHANGED <<tables, jobVars, lockVars, outsideVars, countVars>>
  PROVE  AccountsInv'
BY LockingStep DEF AccountsInv, RestOK, lockVars

\* Action SignInLoad.
LEMMA SignInLoadKeeps == ASSUME AccountsInv, NEW w \in Workers, SignInLoad(w) PROVE AccountsInv'
<1> DEFINE s == worker[w]
           u == s.user
           a == attrs[u]
<1>1. s.pc = "g_load" /\ UNCHANGED <<tables, jobVars, lockVars, outsideVars, countVars>>
  BY DEF SignInLoad, At
<1>2. Stands(s) /\ SessionOK(w, s) /\ u \in Users /\ s.pc \in Reading
  BY <1>1, Serving DEF Reading
<1>3. DOMAIN s.attr = {} /\ s.grants = {}
  BY <1>2, ReadsNothingYet
<1>4. PICK q : q = [s EXCEPT !.pc = "r_attr"]
  OBVIOUS
<1>5. /\ ObjectsOK(w, q) /\ q.pc = "r_attr" /\ q.req = s.req /\ q.user = u /\ q.prof = s.prof /\ q.attr = s.attr
      /\ q.grants = s.grants
  <2>1. ObjectsOK(w, s) /\ "r_attr" \in Places
    BY <1>2 DEF SessionOK, ObjectsOK, Places, Rewarding
  <2> QED
    BY <1>4, <2>1, MovedObjects
<1>6. PICK t : ProfRead(q, u, profiles'[u], t)
  BY DEF ProfRead
<1>7. UNCHANGED <<profiles, attrs, scenario, rowLock>>
  BY <1>1 DEF tables, lockVars, countVars
<1>8. t = [s EXCEPT !.pc = "r_attr", !.prof = Load(@, u, profiles[u])]
  BY <1>4, <1>5, <1>6, <1>7 DEF ProfRead
<1>9. ObjectsOK(w, t)' /\ t.pc = "r_attr" /\ t.req = s.req /\ t.user = u /\ t.attr = s.attr /\ t.grants = {}
  <2>1. ObjectsOK(w, q)'
    BY <1>5, <1>7, FrameObjects
  <2>2. Accounting'
    BY <1>7, <1>1, SameTables DEF AccountsInv
  <2> QED
    BY <1>2, <1>3, <1>5, <1>6, <2>1, <2>2, ProfileLoaded DEF Resembles
<1>10. CASE a.status # "pending"
  <2>1. Step(w, t)
    BY <1>8, <1>10 DEF SignInLoad
  <2>2. Control(t) /\ t.pc # "a_undo"
    BY <1>1, <1>2, <1>3, <1>9, RewardingControl DEF Rewarding
  <2> QED
    BY <1>1, <1>9, <2>1, <2>2, LocalObjects
<1>11. CASE a.status = "pending"
  <2>1. PICK y : AttrRead(t, u, attrs'[u], y)
    BY DEF AttrRead
  <2>2. attrs'[u] = a /\ a # NoAttr
    BY <1>7, <1>11, NoAttrWords
  <2>3. /\ ObjectsOK(w, y)' /\ y.pc = "r_attr" /\ y.req = s.req /\ y.user = u /\ y.prof = t.prof
        /\ y.grants = {} /\ DOMAIN y.attr = {u} /\ y.attr[u].old # NoAttr /\ y.attr[u].new = a
    <3>1. TablesOK'
      BY <1>7, <1>1 DEF AccountsInv, Accounting, TablesOK, tables
    <3>2. attrs'[u] # NoAttr /\ u \notin DOMAIN t.attr /\ t.user = u /\ u \in Users
      BY <1>2, <1>3, <1>9, <2>2
    <3>3. /\ ObjectsOK(w, y)' /\ y.pc = t.pc /\ y.req = t.req /\ y.user = t.user /\ y.prof = t.prof
          /\ y.grants = t.grants /\ DOMAIN y.attr = {u} /\ y.attr[u].old = a /\ y.attr[u].new = a
      BY <1>9, <2>1, <2>2, <3>1, <3>2, AttributionLoaded
    <3> QED
      BY <1>9, <2>2, <3>3
  <2>4. CASE ~confirmed[u]
    <3>1. Step(w, y)
      BY <1>8, <1>11, <2>1, <2>2, <2>4 DEF SignInLoad, AttrRead
    <3>2. Control(y) /\ y.pc # "a_undo"
      BY <1>1, <1>2, <2>3, RewardingControl DEF Rewarding
    <3> QED
      BY <1>1, <2>3, <3>1, <3>2, LocalObjects
  <2>5. CASE confirmed[u]
    <3>1. PICK z : z = SetStatus(y, u, "verified")
      OBVIOUS
    <3>2. ObjectsOK(w, z)' /\ Resembles(y, z) /\ z.grants = y.grants
      BY <2>3, <3>1, SetStatusKeeps
    <3>3. z.pc = "r_attr" /\ z.req = s.req /\ z.user = u /\ DOMAIN z.attr = {u} /\ z.attr[u].old # NoAttr /\ z.grants = {}
      BY <2>3, <3>2 DEF Resembles
    <3>4. Step(w, z)
      <4>1. z = [y EXCEPT !.attr = Put(@, u, [a EXCEPT !.status = "verified"]), !.changed = TRUE]
        BY <2>3, <3>1 DEF SetStatus
      <4>2. z = [t EXCEPT !.attr = Put(Load(@, u, a), u, [a EXCEPT !.status = "verified"]), !.changed = TRUE]
        BY <2>1, <2>2, <4>1 DEF AttrRead
      <4> QED
        BY <1>8, <1>11, <2>5, <4>2 DEF SignInLoad
    <3>5. Control(z) /\ z.pc # "a_undo"
      BY <1>1, <1>2, <3>3, RewardingControl DEF Rewarding
    <3> QED
      BY <1>1, <3>2, <3>4, <3>5, LocalObjects
  <2> QED
    BY <2>4, <2>5
<1> QED
  BY <1>10, <1>11

\* The rows of a request that moves on from pc a to pc b with its rewards still to come.
LEMMA RewardingMoves ==
  ASSUME AccountsInv, NEW w \in Workers, worker[w].pc \in Rewarding, NEW pc \in Rewarding,
         UNCHANGED <<tables, scenario>>, \A r \in Users : rowLock[r] = w => rowLock'[r] = w,
         NEW q, q = [worker[w] EXCEPT !.pc = pc]
  PROVE  LET s == worker[w]
         IN  /\ ObjectsOK(w, q)' /\ q.pc = pc /\ q.req = s.req /\ q.user = s.user /\ q.prof = s.prof
             /\ q.attr = s.attr /\ q.grants = s.grants /\ Accounting' /\ TablesOK'
             /\ Stands(s) /\ s.user \in Users /\ \A u \in DOMAIN s.attr : s.attr[u].old # NoAttr
             /\ UNCHANGED <<profiles, attrs, transactions, ledger>>
<1> DEFINE s == worker[w]
<1>1. UNCHANGED <<profiles, attrs, transactions, ledger>>
  BY DEF tables
<1>2. Stands(s) /\ SessionOK(w, s) /\ s.user \in Users
  BY Serving DEF Rewarding
<1>3. ObjectsOK(w, s) /\ pc \in Places
  BY <1>2 DEF SessionOK, ObjectsOK, Places
<1>4. /\ ObjectsOK(w, q) /\ q.pc = pc /\ q.req = s.req /\ q.user = s.user /\ q.prof = s.prof
      /\ q.attr = s.attr /\ q.grants = s.grants
  BY <1>3, MovedObjects
<1>5. ObjectsOK(w, q)'
  BY <1>1, <1>4, FrameObjects
<1>6. TablesOK' /\ Accounting'
  BY <1>1 DEF AccountsInv, Accounting, TablesOK, EarnedMatchesLedger, RewardsOf, Earned, Slots, Started, E
<1>7. \A u \in DOMAIN s.attr : s.attr[u].old # NoAttr
  BY <1>2 DEF Stands, Rewarding
<1> QED
  BY <1>1, <1>2, <1>4, <1>5, <1>6, <1>7

\* Action RewardLockAttribution.
LEMMA RewardLockAttributionKeeps == ASSUME AccountsInv, NEW w \in Workers, RewardLockAttribution(w) PROVE AccountsInv'
<1> DEFINE s == worker[w]
           u == s.user
<1>1. s.pc = "r_attr" /\ UNCHANGED <<tables, jobVars, rowLock, outsideVars, countVars>> /\ scenario' = scenario
  BY DEF RewardLockAttribution, At, countVars
<1>2. s.grants = {}
  BY <1>1, Serving DEF Stands, Rewarding
<1>3. CASE attrs[u] = NoAttr
  <2>1. PICK q : q = [s EXCEPT !.pc = "r_end"]
    OBVIOUS
  <2>2. Step(w, q) /\ UNCHANGED lockVars
    BY <1>1, <1>3, <2>1 DEF RewardLockAttribution, Goto, lockVars
  <2>3. /\ ObjectsOK(w, q)' /\ q.pc = "r_end" /\ q.req = s.req /\ q.user = u /\ q.attr = s.attr
        /\ Stands(s) /\ \A v \in DOMAIN s.attr : s.attr[v].old # NoAttr
    BY <1>1, <2>1, RewardingMoves DEF Rewarding
  <2>4. Control(q) /\ q.pc # "a_undo"
    BY <1>1, <2>3, RewardingControl DEF Rewarding
  <2> QED
    BY <1>1, <2>2, <2>3, <2>4, LocalObjects
<1>4. CASE attrs[u] # NoAttr
  <2>1. PICK q : q = [s EXCEPT !.pc = "r_verify"]
    OBVIOUS
  <2>2. /\ ObjectsOK(w, q)' /\ q.pc = "r_verify" /\ q.req = s.req /\ q.user = u /\ q.attr = s.attr
        /\ Stands(s) /\ \A v \in DOMAIN s.attr : s.attr[v].old # NoAttr
        /\ q.grants = s.grants /\ TablesOK' /\ attrs' = attrs /\ u \in Users
    BY <1>1, <2>1, RewardingMoves DEF Rewarding
  <2>3. PICK x : AttrRead(q, u, attrs'[u], x)
    BY DEF AttrRead
  <2>4. attrs'[u] # NoAttr
    BY <1>4, <2>2
  <2>5. /\ ObjectsOK(w, x)' /\ x.pc = "r_verify" /\ x.req = s.req /\ x.user = u
        /\ x.grants = {} /\ DOMAIN x.attr = {u} /\ x.attr[u].old # NoAttr
    <3>1. /\ ObjectsOK(w, x)' /\ x.pc = q.pc /\ x.req = q.req /\ x.user = q.user
          /\ x.grants = q.grants /\ DOMAIN x.attr = {u}
          /\ u \in DOMAIN q.attr => x.attr[u] = q.attr[u]
          /\ u \notin DOMAIN q.attr => x.attr[u].old = attrs'[u]
      BY <2>2, <2>3, <2>4, AttributionLoaded
    <3> QED
      BY <1>2, <2>2, <2>4, <3>1
  <2>6. PICK t : t = Verified(x, u)
    OBVIOUS
  <2>7. /\ ObjectsOK(w, t)' /\ Resembles(x, t) /\ t.grants = x.grants
    BY <2>5, <2>6, VerifiedKeeps
  <2>8. Step(w, t) /\ attrLock' = [attrLock EXCEPT ![u] = w]
    BY <1>4, <2>1, <2>2, <2>3, <2>6 DEF RewardLockAttribution, AttrRead
  <2>9. Control(t) /\ t.pc # "a_undo"
    <3>1. t.pc = "r_verify" /\ t.req = s.req /\ t.user = u /\ DOMAIN t.attr = {u} /\ t.attr[u].old # NoAttr /\ t.grants = {}
      BY <2>5, <2>7 DEF Resembles
    <3> QED
      BY <1>1, <2>2, <3>1, RewardingControl DEF Rewarding
  <2>10. attrLock' \in [Users -> Workers \cup {Nobody}] /\ rowLock' \in [Users -> Workers \cup {Nobody}]
         /\ rowLock' = rowLock
    BY <1>1, <2>8 DEF AccountsInv, RestOK
  <2> QED
    BY <1>1, <2>7, <2>8, <2>9, <2>10, LockingStep
<1> QED
  BY <1>3, <1>4

\* Referee u has a place among the rewarded referees of r, or there is one left.
PlaceFor(u, r) == VerifyReward > 0 => (u \in Started(r) \/ Cardinality(Started(r)) < MaxRewarded)

\* Session x is session t, or t with the words of one reward.
Books(t, u, r, amount, key, x) == x = t \/ x = WordCredit(t, u, r, amount, key)

\* The row of the referrer is locked and read into session s, and x has the reward too if there is a place for it.
BooksReward(w, s, u, r, amount, key, t, x) ==
  /\ s.user = u /\ u \in DOMAIN s.attr /\ u \in Users /\ s.attr[u].old # NoAttr /\ s.attr[u].new.referrer = r
  /\ amount \in Nat /\ key \in RewardKeys /\ \A g \in s.grants : g.key # key
  /\ ProfRead(s, r, profiles'[r], t) /\ rowLock'[r] = w
  /\ Books(t, u, r, amount, key, x) /\ (x = t \/ PlaceFor(u, r)')

\* All that a reward does to a session.
LEMMA RewardBooked ==
  ASSUME NEW w, NEW s, ObjectsOK(w, s)', Accounting', UNCHANGED scenario, scenario.maxEarned \in Nat,
         NEW u, NEW r, NEW amount, NEW key, NEW t, NEW x, BooksReward(w, s, u, r, amount, key, t, x)
  PROVE  /\ ObjectsOK(w, x)' /\ Resembles(s, x)
         /\ \A g \in x.grants : g \in s.grants \/ g.key = key
<1> USE DEF BooksReward
<1>1. r \in Users
  BY DEF ObjectsOK, InviteOK
<1>2. ObjectsOK(w, t)' /\ Resembles(s, t) /\ t.grants = s.grants /\ r \in DOMAIN t.prof /\ t.attr = s.attr
  BY <1>1, ProfileLoaded
<1>3. CASE x = t
  BY <1>2, <1>3
<1>4. CASE x # t
  <2>1. t.user = u /\ u \in DOMAIN t.attr /\ t.attr[u].old # NoAttr /\ t.attr[u].new.referrer = r
    BY <1>2 DEF Resembles
  <2>2. CanReward(w, t, u, r)'
    BY <1>2, <1>4, <2>1 DEF CanReward, PlaceFor
  <2>3. \A g \in t.grants : g.key # key
    BY <1>2
  <2>4. /\ ObjectsOK(w, x)' /\ Resembles(t, x)
        /\ \A g \in x.grants : g \in t.grants \/ g.key = key
    BY <1>4, <2>2, <2>3, WordCreditKeeps DEF Books
  <2> QED
    BY <1>2, <2>4 DEF Resembles
<1> QED
  BY <1>3, <1>4

\* Action RewardVerify.
LEMMA RewardVerifyKeeps == ASSUME AccountsInv, NEW w \in Workers, RewardVerify(w) PROVE AccountsInv'
<1> DEFINE s == worker[w]
<1>1. PICK u : s.user = u
  OBVIOUS
<1>2. s.pc = "r_verify" /\ UNCHANGED <<tables, jobVars, attrLock, outsideVars, countVars>> /\ scenario' = scenario
  BY DEF RewardVerify, At, countVars
<1>3. s.grants = {} /\ u \in DOMAIN s.attr
  BY <1>2, <1>1, Serving DEF Stands, Rewarding
<1>4. PICK q : q = [s EXCEPT !.pc = "r_pay"]
  OBVIOUS
<1>5. PICK a : a = q.attr[u].new
  OBVIOUS
<1>6. PICK r : a.referrer = r
  OBVIOUS
<1>7. PICK t : ProfRead(q, r, profiles[r], t)
  BY DEF ProfRead
<1>8. PICK due : due = (a.status = "verified" /\ a.words < VerifyReward /\ ~Recorded(VerifyKey(u)))
  OBVIOUS
<1>9. \/ ~due /\ Step(w, q) /\ UNCHANGED rowLock
      \/ /\ due /\ LockReferrer(w, r)
         /\ Step(w, IF StartedRewards(r) >= MaxRewarded THEN t
                    ELSE WordCredit(t, u, r, VerifyReward, VerifyKey(u)))
  BY <1>4, <1>5, <1>6, <1>8, <1>7, <1>1 DEF RewardVerify, ProfRead
<1>10. CASE ~due /\ Step(w, q) /\ UNCHANGED rowLock
  <2>1. /\ ObjectsOK(w, q)' /\ q.pc = "r_pay" /\ q.req = s.req /\ q.user = u /\ q.attr = s.attr /\ q.grants = s.grants
        /\ Stands(s) /\ \A v \in DOMAIN s.attr : s.attr[v].old # NoAttr
    BY <1>2, <1>4, <1>10, <1>1, RewardingMoves DEF Rewarding
  <2>2. Control(q) /\ q.pc # "a_undo"
    BY <1>2, <1>3, <2>1, <1>1, RewardingControl DEF Rewarding
  <2>3. UNCHANGED lockVars
    BY <1>2, <1>10 DEF lockVars
  <2> QED
    BY <1>2, <1>10, <2>1, <2>2, <2>3, LocalObjects
<1>11. CASE /\ due /\ LockReferrer(w, r)
           /\ Step(w, IF StartedRewards(r) >= MaxRewarded THEN t
                      ELSE WordCredit(t, u, r, VerifyReward, VerifyKey(u)))
  <2>1. rowLock' = [rowLock EXCEPT ![r] = w] /\ rowLock[r] \in {Nobody, w}
    BY <1>11 DEF LockReferrer, Free
  <2>2. /\ rowLock' \in [Users -> Workers \cup {Nobody}] /\ attrLock' \in [Users -> Workers \cup {Nobody}]
        /\ \A i \in Users : rowLock[i] = w => rowLock'[i] = w
        /\ \A i \in Users : rowLock[i] \in Workers \ {w} => rowLock'[i] = rowLock[i]
    BY <1>2, <2>1, ActorsOK DEF AccountsInv, RestOK
  <2>3. /\ ObjectsOK(w, q)' /\ q.pc = "r_pay" /\ q.req = s.req /\ q.user = u /\ q.attr = s.attr /\ q.grants = s.grants
        /\ Stands(s) /\ u \in Users /\ \A v \in DOMAIN s.attr : s.attr[v].old # NoAttr
        /\ Accounting' /\ UNCHANGED <<profiles, attrs, transactions, ledger>>
    BY <1>2, <1>4, <2>2, <1>1, RewardingMoves DEF Rewarding
  <2>4. u \in DOMAIN q.attr /\ q.attr[u].old # NoAttr /\ q.attr[u].new.referrer = r /\ q.grants = {}
    BY <1>3, <1>5, <1>6, <2>3
  <2>5. r \in Users
    BY <2>3, <2>4 DEF ObjectsOK, InviteOK
  <2>6. rowLock'[r] = w
    BY <2>1, <2>5 DEF AccountsInv, RestOK
  <2>7. ProfRead(q, r, profiles'[r], t)
    BY <1>7, <2>3
  <2>8. PICK x : x = IF StartedRewards(r) >= MaxRewarded THEN t ELSE WordCredit(t, u, r, VerifyReward, VerifyKey(u))
    OBVIOUS
  <2>9. Step(w, x)
    BY <1>11, <2>8
  <2>10. scenario.maxEarned \in Nat /\ VerifyReward \in Nat /\ VerifyKey(u) \in RewardKeys
    BY <2>3, ScenariosOK, ReferralConstants DEF AccountsInv, RestOK, RewardKeys
  <2>11. Books(t, u, r, VerifyReward, VerifyKey(u), x) /\ (x = t \/ PlaceFor(u, r)')
    <3>1. CASE StartedRewards(r) >= MaxRewarded
      BY <2>8, <3>1 DEF Books
    <3>2. CASE ~(StartedRewards(r) >= MaxRewarded)
      <4>1. x = WordCredit(t, u, r, VerifyReward, VerifyKey(u))
        BY <2>8, <3>2
      <4>2. (Cardinality(Started(r)) < MaxRewarded)'
        <5>1. Started(r)' = Started(r)
          BY <2>3 DEF Started
        <5>2. Cardinality(Started(r)) \in Nat /\ StartedRewards(r) = Cardinality(Started(r))
          <6>1. Started(r) \subseteq Users
            BY DEF Started
          <6> QED
            BY <6>1, ActorsOK, FS_Subset, FS_CardinalityType DEF StartedRewards, Started
        <5>3. MaxRewarded \in Nat
          BY ReferralConstants
        <5> QED
          BY <3>2, <5>1, <5>2, <5>3
      <4>3. PlaceFor(u, r)'
        BY <4>2 DEF PlaceFor
      <4> QED
        BY <4>1, <4>3 DEF Books
    <3> QED
      BY <3>1, <3>2
  <2>12. /\ ObjectsOK(w, x)' /\ Resembles(q, x)
         /\ \A g \in x.grants : g \in q.grants \/ g.key = VerifyKey(u)
    <3>1. BooksReward(w, q, u, r, VerifyReward, VerifyKey(u), t, x)
      BY <2>3, <2>4, <2>6, <2>7, <2>10, <2>11 DEF BooksReward
    <3> QED
      BY <1>2, <2>3, <2>10, <3>1, RewardBooked
  <2>13. Control(x) /\ x.pc # "a_undo"
    <3>1. x.pc = "r_pay" /\ x.req = s.req /\ x.user = u /\ DOMAIN x.attr = DOMAIN s.attr
          /\ \A v \in DOMAIN x.attr : x.attr[v].old # NoAttr
      BY <2>3, <2>12 DEF Resembles
    <3>2. \A g \in x.grants : \A v \in Users : g.key # PaymentKey(v)
      BY <2>4, <2>12 DEF PaymentKey, VerifyKey
    <3> QED
      BY <1>2, <1>3, <2>3, <3>1, <3>2, <1>1, RewardingControl DEF Rewarding
  <2> QED
    BY <1>2, <2>2, <2>9, <2>12, <2>13, LockingStep
<1> QED
  BY <1>9, <1>10, <1>11

\* The count of started rewards is the size of Started.
LEMMA StartedCount ==
  ASSUME NEW r
  PROVE  Cardinality(Started(r)) \in Nat /\ StartedRewards(r) = Cardinality(Started(r))
<1>1. Started(r) \subseteq Users
  BY DEF Started
<1> QED
  BY <1>1, ActorsOK, FS_Subset, FS_CardinalityType DEF StartedRewards, Started

\* A referee whose first reward is booked, or due with a place left, may have the rest.
RestDue(s, u, r) ==
  /\ u \in Users /\ u \in DOMAIN s.attr /\ s.attr[u].old # NoAttr /\ s.attr[u].new.referrer = r
  /\ s.attr[u].new.words >= VerifyReward \/ ~(VerifyReward > 0) \/ StartedRewards(r)' < MaxRewarded

\* A referee whose first reward is booked, or for whom there is a place, has a place.
LEMMA PlaceForRest ==
  ASSUME NEW w, NEW s, ObjectsOK(w, s)', NEW u, NEW r, RestDue(s, u, r)
  PROVE  PlaceFor(u, r)'
<1> USE DEF RestDue
<1> DEFINE a == s.attr[u].new
           o == s.attr[u].old
<1> SUFFICES ASSUME VerifyReward > 0 PROVE (u \in Started(r) \/ Cardinality(Started(r)) < MaxRewarded)'
  BY DEF PlaceFor
<1>1. CASE StartedRewards(r)' < MaxRewarded
  <2>1. StartedRewards(r)' = Cardinality(Started(r))'
    BY DEF StartedRewards, Started
  <2> QED
    BY <1>1, <2>1
<1>2. CASE a.words >= VerifyReward
  <2>1. CASE a.words # o.words
    BY <2>1 DEF ObjectsOK, SlotOK, InviteOK
  <2>2. CASE a.words = o.words
    <3>1. attrs'[u] # NoAttr /\ r = attrs'[u].referrer /\ (o.words > 0 => attrs'[u].words > 0)
      BY DEF ObjectsOK, InviteOK
    <3>2. o.words \in Nat /\ VerifyReward \in Nat
      <4>1. s.attr \in Maps(Users, Attribution)
        BY DEF ObjectsOK, SessionType, Session
      <4>2. o \in Attribution
        BY <4>1 DEF Maps, Loaded
      <4> QED
        BY <4>2, ReferralConstants DEF Attribution
    <3>3. o.words > 0
      BY <1>2, <2>2, <3>2
    <3> QED
      BY <3>1, <3>3 DEF Started
  <2> QED
    BY <2>1, <2>2
<1> QED
  BY <1>1, <1>2

\* Action RewardPayment.
LEMMA RewardPaymentKeeps == ASSUME AccountsInv, NEW w \in Workers, RewardPayment(w) PROVE AccountsInv'
<1> DEFINE z == worker[w]
<1>1. PICK u : z.user = u
  OBVIOUS
<1>2. z.pc = "r_pay" /\ UNCHANGED <<tables, jobVars, attrLock, outsideVars, countVars>> /\ scenario' = scenario
  BY DEF RewardPayment, At, countVars
<1>3. (\A g \in z.grants : \A v \in Users : g.key # PaymentKey(v)) /\ u \in DOMAIN z.attr /\ Stands(z)
  BY <1>2, <1>1, Serving DEF Stands, Rewarding
<1>4. PICK q : q = [z EXCEPT !.pc = "r_end"]
  OBVIOUS
<1>5. PICK p : ProfRead(q, u, profiles[u], p)
  BY DEF ProfRead
<1>6. PICK s : s = Verified(p, u)
  OBVIOUS
<1>7. PICK a : a = s.attr[u].new
  OBVIOUS
<1>8. PICK r : a.referrer = r
  OBVIOUS
<1>9. PICK t : ProfRead(s, r, profiles[r], t)
  BY DEF ProfRead
<1>10. PICK noSlot : noSlot = (\/ VerifyReward > 0 /\ a.words < VerifyReward /\ StartedRewards(r) >= MaxRewarded
                              \/ CompletedRewards(r) >= MaxRewarded)
  OBVIOUS
<1>11. PICK x : x = IF noSlot THEN t ELSE WordCredit(t, u, r, Remainder(a), PaymentKey(u))
  OBVIOUS
<1>12. \/ Step(w, s) /\ UNCHANGED rowLock
       \/ Step(w, SetStatus(s, u, "completed")) /\ UNCHANGED rowLock
       \/ Remainder(a) > 0 /\ LockReferrer(w, r) /\ Step(w, SetStatus(x, u, "completed"))
  BY <1>4, <1>5, <1>6, <1>7, <1>8, <1>9, <1>10, <1>11, <1>1 DEF RewardPayment, ProfRead
<1>13. rowLock' = rowLock \/ (rowLock' = [rowLock EXCEPT ![r] = w] /\ rowLock[r] \in {Nobody, w})
  BY <1>12 DEF LockReferrer, Free
<1>14. /\ rowLock' \in [Users -> Workers \cup {Nobody}] /\ attrLock' \in [Users -> Workers \cup {Nobody}]
       /\ \A i \in Users : rowLock[i] = w => rowLock'[i] = w
       /\ \A i \in Users : rowLock[i] \in Workers \ {w} => rowLock'[i] = rowLock[i]
  BY <1>2, <1>13, ActorsOK DEF AccountsInv, RestOK
<1>15. /\ ObjectsOK(w, q)' /\ q.pc = "r_end" /\ q.req = z.req /\ q.user = u /\ q.attr = z.attr /\ q.grants = z.grants
       /\ u \in Users /\ \A v \in DOMAIN z.attr : z.attr[v].old # NoAttr
       /\ Accounting' /\ UNCHANGED <<profiles, attrs, transactions, ledger>>
  BY <1>2, <1>4, <1>14, <1>1, RewardingMoves DEF Rewarding
<1>16. /\ ObjectsOK(w, p)' /\ Resembles(q, p) /\ p.grants = q.grants /\ p.attr = q.attr
  <2>1. ProfRead(q, u, profiles'[u], p)
    BY <1>5, <1>15
  <2> QED
    BY <1>15, <2>1, ProfileLoaded
<1>17. /\ ObjectsOK(w, s)' /\ Resembles(p, s) /\ s.grants = p.grants
  <2>1. u = p.user /\ u \in DOMAIN p.attr
    BY <1>3, <1>15, <1>16 DEF Resembles
  <2> QED
    BY <1>6, <1>16, <2>1, VerifiedKeeps
<1>18. /\ s.pc = "r_end" /\ s.req = z.req /\ s.user = u /\ u \in DOMAIN s.attr
       /\ \A v \in DOMAIN s.attr : s.attr[v].old # NoAttr
       /\ \A g \in s.grants : \A v \in Users : g.key # PaymentKey(v)
  BY <1>3, <1>15, <1>16, <1>17 DEF Resembles
<1>19. ASSUME NEW y, ObjectsOK(w, y)', Resembles(s, y), Step(w, y)
       PROVE  AccountsInv'
  <2>1. y.pc = "r_end" /\ y.req = z.req /\ y.user = u /\ \A v \in DOMAIN y.attr : y.attr[v].old # NoAttr
    BY <1>18, <1>19 DEF Resembles
  <2>2. Control(y) /\ y.pc # "a_undo"
    BY <1>2, <1>3, <1>1, <2>1, RewardingControl DEF Rewarding
  <2> QED
    BY <1>2, <1>14, <1>19, <2>2, LockingStep
<1>20. CASE Step(w, s)
  <2>1. Resembles(s, s)
    BY DEF Resembles
  <2> QED
    BY <1>17, <1>19, <1>20, <2>1
<1>21. CASE Step(w, SetStatus(s, u, "completed"))
  <2>1. PICK y : y = SetStatus(s, u, "completed")
    OBVIOUS
  <2>2. ObjectsOK(w, y)' /\ Resembles(s, y)
    BY <1>17, <1>18, <2>1, SetStatusKeeps
  <2> QED
    BY <1>19, <1>21, <2>1, <2>2
<1>22. CASE Remainder(a) > 0 /\ LockReferrer(w, r) /\ Step(w, SetStatus(x, u, "completed"))
  <2>1. r \in Users /\ s.attr[u].new.referrer = r
    BY <1>7, <1>8, <1>17, <1>18 DEF ObjectsOK, InviteOK
  <2>2. rowLock'[r] = w
    BY <1>22, <2>1 DEF LockReferrer, AccountsInv, RestOK
  <2>3. ProfRead(s, r, profiles'[r], t)
    BY <1>9, <1>15
  <2>4. a.words \in Nat
    <3>1. s.attr \in Maps(Users, Attribution)
      BY <1>17 DEF ObjectsOK, SessionType, Session
    <3>2. a \in Attribution
      BY <1>7, <1>18, <3>1 DEF Maps, Loaded
    <3> QED
      BY <3>2 DEF Attribution
  <2>5. Remainder(a) \in Nat
    <3>1. Remainder(a) \in Int
      BY <2>4, ReferralConstants DEF Remainder, InviteTotal
    <3> QED
      BY <1>22, <3>1
  <2>6. Books(t, u, r, Remainder(a), PaymentKey(u), x) /\ (x = t \/ PlaceFor(u, r)')
    <3>1. CASE noSlot
      BY <1>11, <3>1 DEF Books
    <3>2. CASE ~noSlot
      <4>1. x = WordCredit(t, u, r, Remainder(a), PaymentKey(u))
        BY <1>11, <3>2
      <4>2. ~(VerifyReward > 0) \/ a.words >= VerifyReward \/ StartedRewards(r) < MaxRewarded
        <5>1. VerifyReward \in Nat /\ MaxRewarded \in Nat /\ StartedRewards(r) \in Nat
          BY ReferralConstants, StartedCount
        <5>2. ~(VerifyReward > 0 /\ a.words < VerifyReward /\ StartedRewards(r) >= MaxRewarded)
          BY <1>10, <3>2
        <5> QED
          BY <2>4, <5>1, <5>2
      <4>3. PlaceFor(u, r)'
        <5>1. s.attr[u].new.words >= VerifyReward \/ ~(VerifyReward > 0) \/ StartedRewards(r)' < MaxRewarded
          BY <1>7, <1>15, <4>2 DEF StartedRewards
        <5>2. RestDue(s, u, r)
          BY <1>15, <1>18, <2>1, <5>1 DEF RestDue
        <5> QED
          BY <1>17, <5>2, PlaceForRest
      <4> QED
        BY <4>1, <4>3 DEF Books
    <3> QED
      BY <3>1, <3>2
  <2>7. /\ ObjectsOK(w, x)' /\ Resembles(s, x)
    <3>1. PaymentKey(u) \in RewardKeys
      BY <1>15 DEF RewardKeys
    <3>2. BooksReward(w, s, u, r, Remainder(a), PaymentKey(u), t, x)
      BY <1>15, <1>18, <2>1, <2>2, <2>3, <2>5, <2>6, <3>1 DEF BooksReward
    <3>3. scenario.maxEarned \in Nat
      BY ScenariosOK DEF AccountsInv, RestOK
    <3> QED
      BY <1>2, <1>15, <1>17, <3>2, <3>3, RewardBooked
  <2>8. PICK y : y = SetStatus(x, u, "completed")
    OBVIOUS
  <2>9. ObjectsOK(w, y)' /\ Resembles(x, y)
    <3>1. u = x.user /\ u \in DOMAIN x.attr
      BY <1>18, <2>7 DEF Resembles
    <3> QED
      BY <2>7, <2>8, <3>1, SetStatusKeeps
  <2>10. Resembles(s, y)
    BY <2>7, <2>9 DEF Resembles
  <2> QED
    BY <1>19, <1>22, <2>8, <2>9, <2>10
<1> QED
  BY <1>12, <1>20, <1>21, <1>22

\* The objects of a new session after the step.
LEMMA BlankObjects ==
  ASSUME NEW w, NEW t, Blank(t), UNCHANGED scenario
  PROVE  ObjectsOK(w, t)'
<1>1. SessionType(t) /\ t.prof = Empty /\ t.attr = Empty /\ t.grants = {} /\ DOMAIN Empty = {}
  BY BlankParts
<1>2. SessionType(t)'
  BY <1>1 DEF SessionType, Session
<1>3. ProfilesOK(w, t)' /\ GrantsOK(t)' /\ InviteOK(w, t)' /\ SlotOK(w, t)'
  BY <1>1 DEF ProfilesOK, GrantsOK, InviteOK, SlotOK
<1> QED
  BY <1>2, <1>3 DEF ObjectsOK

\* Action RewardEnd.
LEMMA RewardEndKeeps == ASSUME AccountsInv, NEW w \in Workers, RewardEnd(w) PROVE AccountsInv'
<1> DEFINE s == worker[w]
<1>1. s.pc = "r_end" /\ UNCHANGED <<jobVars, outsideVars, countVars>>
  BY DEF RewardEnd, At
<1>2. UNCHANGED <<served, faults, scenario>>
  BY <1>1 DEF countVars
<1>3. PICK t : t = CASE s.req.op \in {"capture", "delivery"} -> Fresh(w, "a_load")
                     [] s.req.op = "yearly"  -> Fresh(w, "y_load")
                     [] OTHER -> Idle
  OBVIOUS
<1>4. Step(w, t)
  BY <1>3 DEF RewardEnd
<1>5. Stands(s) /\ s.pc \in Rewarding
  BY <1>1, Serving DEF Rewarding
<1>6. Blank(t) /\ t.pc # "a_undo"
      /\ \/ t.pc = "a_load" /\ s.req.op \in Capturing /\ t.req = s.req /\ t.user = s.user
         \/ t.pc = "y_load" /\ s.req.op = "yearly" /\ t.req = s.req /\ t.user = s.user
         \/ t = Idle
  <2>1. CASE s.req.op \in {"capture", "delivery"}
    <3>1. t = Fresh(w, "a_load")
      BY <1>3, <2>1
    <3> QED
      BY <1>1, <2>1, <3>1, FreshSession DEF Places, Reading, Capturing
  <2>2. CASE s.req.op = "yearly"
    <3>1. t = Fresh(w, "y_load")
      BY <1>3, <2>2
    <3> QED
      BY <1>1, <2>2, <3>1, FreshSession DEF Places, Reading
  <2>3. CASE s.req.op \notin {"capture", "delivery", "yearly"}
    BY <1>3, <2>3, IdleSession
  <2> QED
    BY <2>1, <2>2, <2>3
<1>7. /\ DOMAIN t.prof = {} /\ DOMAIN t.attr = {} /\ t.grants = {}
  BY <1>6, BlankParts
<1>8. s.req.op \in Capturing => transactions[s.req.id] > 0 /\ s.req.id \in Ids
  BY <1>5, CaptureId DEF Stands, AccountsInv, RestOK
<1>9. Control(t)
  BY <1>5, <1>6, <1>7, <1>8 DEF Control, Stands, Serves, Activating, Rewarding, Reading, Capturing
<1>10. CASE s.changed
  <2>1. Commit(w, s)
    BY <1>10 DEF RewardEnd
  <2>2. OthersKeep(w)
    BY <1>2, <1>5, <2>1, CommitKeeps DEF AccountsInv, RestOK
  <2>3. s.req.op \in Capturing => transactions'[s.req.id] > 0
    BY <1>8, <2>2 DEF OthersKeep
  <2>4. Control(t)'
    BY <1>2, <1>5, <1>6, <1>7, <2>3 DEF Control, Stands, Serves, Activating, Rewarding, Reading, Capturing
  <2> QED
    BY <1>1, <1>2, <1>4, <1>6, <2>1, <2>4, CommitStep
<1>11. CASE ~s.changed
  <2>1. ReleaseLocks(w) /\ UNCHANGED tables
    BY <1>11 DEF RewardEnd
  <2>2. /\ attrLock' \in [Users -> Workers \cup {Nobody}] /\ rowLock' \in [Users -> Workers \cup {Nobody}]
        /\ \A r \in Users : rowLock[r] \in Workers \ {w} => rowLock'[r] = rowLock[r]
    BY <2>1, ReleasedType DEF AccountsInv, RestOK
  <2>3. ObjectsOK(w, t)'
    BY <1>2, <1>6, BlankObjects
  <2> QED
    BY <1>1, <1>4, <1>6, <1>9, <2>1, <2>2, <2>3, LockingStep
<1> QED
  BY <1>10, <1>11

-----------------------------------------------------------------------------
(* The claim of a referral code *)

\* Action ClaimCheck.
LEMMA ClaimCheckKeeps == ASSUME AccountsInv, NEW w \in Workers, ClaimCheck(w) PROVE AccountsInv'
<1> DEFINE s == worker[w]
<1>1. PICK u, r : s.user = u /\ s.req = r
  OBVIOUS
<1>2. s.pc = "m_check" /\ UNCHANGED <<tables, jobVars, outsideVars, countVars>>
  BY DEF ClaimCheck, At
<1>3. CASE Finish(w)
  BY <1>2, <1>3, PlainFinish
<1>4. CASE ~Finish(w)
  <2>1. Stands(s) /\ s \in Session /\ u \in Users /\ profiles[u] \in Row /\ RequestOK(r) /\ s.pc \in Reading
        /\ r \in scenario.requests
    BY <1>1, <1>2, Serving DEF Reading
  <2>2. r.op = "claim" /\ DOMAIN s.prof = {} /\ DOMAIN s.attr = {} /\ s.grants = {}
    BY <1>1, <1>2, <2>1 DEF Stands, Serves, Activating, Rewarding, Reading
  <2> DEFINE a == [status |-> "pending", words |-> 0, referrer |-> r.referrer, device |-> r.device]
             v == [profiles[u] EXCEPT !.referred_by_user_id = r.referrer, !.free_credits = @ + SignupBonus]
             G == IF SignupBonus > 0 THEN {[key |-> BonusKey(u), user |-> u, credits |-> SignupBonus]} ELSE {}
             m == Put(Load(s.prof, u, profiles[u]), u, v)
             n == Put(Load(s.attr, u, NoAttr), u, a)
             t == [s EXCEPT !.pc = "m_commit", !.prof = m, !.attr = n, !.grants = G]
  <2>3. r.referrer \in Users \ {u} /\ Step(w, t) /\ UNCHANGED lockVars
    <3>1. r.referrer # u /\ Step(w, t) /\ UNCHANGED lockVars
      BY <1>1, <1>4 DEF ClaimCheck
    <3> QED
      BY <2>1, <2>2, <3>1 DEF RequestOK
  <2>4. a \in Attribution /\ NoAttr \in Attribution
    <3>1. r.device \in Devices /\ None \in Devices
      BY <2>1, <2>2 DEF Devices, AllRequests, AccountsInv, RestOK
    <3> QED
      BY <2>3, <3>1 DEF Attribution, NoAttr
  <2>5. v \in Row /\ E(v) = E(profiles[u])
    <3> DEFINE f == profiles[u].free_credits + SignupBonus
    <3>1. f \in Nat /\ r.referrer \in Users
      BY <2>1, <2>3, ReferralConstants DEF Row
    <3>2. v = [profiles[u] EXCEPT !.referred_by_user_id = r.referrer, !.free_credits = f]
      OBVIOUS
    <3> HIDE DEF f, v
    <3> QED
      BY <2>1, <3>1, <3>2 DEF Row, E
  <2>6. G \subseteq Entry /\ IsFiniteSet(G) /\ \A g \in G : g.key[1] = "referee_signup_bonus"
    <3>1. BonusKey(u) \in Keys /\ SignupBonus \in Nat /\ BonusKey(u)[1] = "referee_signup_bonus"
      BY <2>1, ReferralConstants DEF Keys, BonusKey
    <3> DEFINE g == [key |-> BonusKey(u), user |-> u, credits |-> SignupBonus]
    <3>2. g \in Entry /\ g.key[1] = "referee_signup_bonus"
      BY <2>1, <3>1 DEF Entry
    <3>3. G = {g} \/ G = {}
      OBVIOUS
    <3> HIDE DEF g, G
    <3> QED
      BY <3>2, <3>3, FS_EmptySet, FS_Singleton
  <2>7. m = [i \in {u} |-> [old |-> profiles[u], new |-> v]] /\ n = [i \in {u} |-> [old |-> NoAttr, new |-> a]]
    <3> HIDE DEF a, v
    <3>1. m = [i \in {u} |-> [old |-> profiles[u], new |-> v]]
      BY <2>2 DEF Put, Load
    <3>2. n = [i \in {u} |-> [old |-> NoAttr, new |-> a]]
      BY <2>2 DEF Put, Load
    <3> QED
      BY <3>1, <3>2
  <2>8. a.status = "pending" /\ a.words = 0 /\ a.referrer = r.referrer
    OBVIOUS
  <2> HIDE DEF a, v, G, m, n
  <2>9. m \in Maps(Users, Row) /\ n \in Maps(Users, Attribution) /\ DOMAIN m = {u} /\ DOMAIN n = {u}
        /\ m[u].old = profiles[u] /\ m[u].new = v /\ n[u].old = NoAttr /\ n[u].new = a
    BY <2>1, <2>4, <2>5, <2>7 DEF Maps, Loaded
  <2>10. /\ t \in Session /\ t.pc = "m_commit" /\ t.req = r /\ t.user = u /\ t.prof = m /\ t.attr = n /\ t.grants = G
    BY <1>1, <2>1, <2>6, <2>9 DEF Session, Places
  <2> HIDE DEF t
  <2>11. SessionType(t) /\ GrantsOK(t)
    BY <2>6, <2>9, <2>10 DEF SessionType, GrantsOK
  <2>12. ProfilesOK(w, t)
    <3>1. RewardsIn(G, u) = {}
      BY <2>6 DEF RewardsIn
    <3>2. E(profiles[u]) \in Nat /\ E(profiles[u]) <= scenario.maxEarned
      BY <2>1 DEF Row, E, AccountsInv, Accounting, Earned
    <3> QED
      BY <2>5, <2>9, <2>10, <3>1, <3>2, CreditsOfNone, SMTT(60) DEF ProfilesOK
  <2>13. InviteOK(w, t) /\ SlotOK(w, t)
    BY <2>3, <2>8, <2>9, <2>10, NoAttrWords DEF InviteOK, SlotOK
  <2>14. Control(t)
    <3>1. r = s.req /\ u = UserOf(r)
      BY <1>1, <2>1 DEF Stands
    <3> QED
      BY <2>1, <2>2, <2>10, <3>1 DEF Control, Stands, Serves, Reading, Activating, Rewarding
  <2>15. SessionOK(w, t)
    BY <2>11, <2>12, <2>13, <2>14 DEF SessionOK
  <2> QED
    BY <1>2, <2>3, <2>10, <2>15, CountsKept, LocalStep
<1> QED
  BY <1>3, <1>4

\* Action ClaimCommit.
LEMMA ClaimCommitKeeps == ASSUME AccountsInv, NEW w \in Workers, ClaimCommit(w) PROVE AccountsInv'
BY LastCommit DEF ClaimCommit, At, countVars

-----------------------------------------------------------------------------
(* The theorems *)

\* The invariant holds at first ...
LEMMA InitEstablishes == Init => AccountsInv
<1> SUFFICES ASSUME Init PROVE AccountsInv
  OBVIOUS
<1> USE DEF Init
<1>1. /\ scenario \in Scenarios
      /\ attrs \in [Users -> [status : {"none", "pending", "verified", "completed"}, words : {0},
                              referrer : Users \cup {Nobody}, device : {attrs[u].device : u \in Users}]]
      /\ \A u \in Users : attrs[u] # NoAttr => attrs[u].status # "none" /\ attrs[u].referrer \in Users \ {u}
      /\ scenario.quota \in Nat /\ scenario.maxEarned \in Nat /\ scenario.orders \subseteq PaymentIds
  BY ScenariosOK
<1>2. attrs \in [Users -> Attribution]
  <2>1. \A u \in Users : attrs[u].device \in Devices
    BY DEF Devices
  <2> QED
    BY <1>1, <2>1 DEF Attribution
<1>3. \A u \in Users : profiles[u] \in Row /\ E(profiles[u]) = 0
  <2>1. NewProfile \in Row /\ E(NewProfile) = 0
    BY DEF NewProfile, Row, Plans, PaidPlans, Times, SubscriptionIds, E
  <2> SUFFICES ASSUME NEW u \in Users PROVE profiles[u] \in Row /\ E(profiles[u]) = 0
    OBVIOUS
  <2>2. profiles[u] = [NewProfile EXCEPT !.referred_by_user_id = attrs[u].referrer]
    OBVIOUS
  <2>3. attrs[u].referrer \in Users \cup {Nobody}
    BY <1>2 DEF Attribution
  <2> QED
    BY <2>1, <2>2, <2>3 DEF Row, E
<1>4. TablesOK
  BY <1>1, <1>2, <1>3, FS_EmptySet DEF TablesOK, Ids
<1>5. \A r \in Users : RewardsOf(r) = {} /\ Started(r) = {}
  BY <1>1 DEF RewardsOf, Started
<1>6. EarnedMatchesLedger /\ Earned
  <2> SUFFICES ASSUME NEW r \in Users
               PROVE  /\ profiles[r].referral_words_earned_total = Credits(RewardsOf(r))
                      /\ profiles[r].referral_words_earned_total <= scenario.maxEarned
    BY DEF EarnedMatchesLedger, Earned, E
  <2>1. profiles[r].referral_words_earned_total = 0
    BY <1>3 DEF E
  <2>2. Credits(RewardsOf(r)) = 0
    BY <1>5, CreditsOfNone
  <2> QED
    BY <1>1, <2>1, <2>2
<1>7. Slots
  <2>1. MaxRewarded \in Nat /\ Cardinality({}) = 0
    BY FS_EmptySet, ReferralConstants
  <2>2. \A r \in Users : Cardinality(Started(r)) = 0
    BY <1>5, <2>1
  <2> QED
    BY <2>1, <2>2 DEF Slots
<1>8. RestOK
  BY <1>1 DEF RestOK
<1>9. \A w \in Workers : worker[w] = Idle
  OBVIOUS
<1>10. QuotaOK
  <2>1. Undoing = {}
    BY <1>9, IdleSession DEF Undoing, At
  <2> QED
    BY <1>1, <2>1, FS_EmptySet DEF QuotaOK
<1>11. ActivatedIsPaid
  BY DEF ActivatedIsPaid
<1>12. \A w \in Workers : SessionOK(w, worker[w])
  BY <1>9, IdleSession
<1> QED
  BY <1>4, <1>6, <1>7, <1>8, <1>10, <1>11, <1>12 DEF AccountsInv, Accounting

\* ... while nothing happens ...
LEMMA StutterKeeps == AccountsInv /\ UNCHANGED vars => AccountsInv'
<1> SUFFICES ASSUME AccountsInv, UNCHANGED vars PROVE AccountsInv'
  OBVIOUS
<1>1. UNCHANGED <<now, profiles, transactions, attrs, ledger, jobStatus, enqueued, orders, quota, threads, attrLock,
                  rowLock, confirmed, worker, charged, served, faults, raced, scenario>>
  BY DEF vars, tables, jobVars, lockVars, outsideVars, countVars
<1>2. Accounting' /\ ActivatedIsPaid'
  BY <1>1 DEF AccountsInv, Accounting, TablesOK, EarnedMatchesLedger, RewardsOf, Earned, Slots, Started, E, ActivatedIsPaid
<1>3. RestOK' /\ QuotaOK'
  BY <1>1 DEF AccountsInv, RestOK, QuotaOK, Undoing, At
<1>4. ASSUME NEW w \in Workers PROVE SessionOK(w, worker[w])'
  BY <1>1, FrameSession DEF AccountsInv, RestOK
<1> QED
  BY <1>2, <1>3, <1>4 DEF AccountsInv

\* ... and after every step.
LEMMA StepKeeps == AccountsInv /\ [Next]_vars => AccountsInv'
<1> SUFFICES ASSUME AccountsInv, Next PROVE AccountsInv'
  BY StutterKeeps
<1>1. ASSUME NEW w \in Workers, Serve(w) PROVE AccountsInv'
  BY <1>1, AcknowledgeKeeps, CreditLookupKeeps, CreditLoadKeeps, CreditCommitKeeps, ActivateLoadKeeps,
     ActivateCommitKeeps, ActivateQuotaKeeps, ActivateRefusedKeeps, ActivateSpawnKeeps, EventLookupKeeps,
     EventLoadKeeps, SubscriptionCommitKeeps, CancelLoadKeeps, CreateLoadKeeps, PlainCommitKeeps, SyncLoadKeeps,
     YearlyLookupKeeps, YearlyInsertKeeps, YearlyLoadKeeps, SignInLoadKeeps, RewardLockAttributionKeeps,
     RewardVerifyKeeps, RewardPaymentKeeps, RewardEndKeeps, ClaimCheckKeeps, ClaimCommitKeeps, ChargeLoadKeeps,
     ChargeCommitKeeps
     DEF Serve
<1>2. CASE \E w \in Workers : Accept(w) \/ Serve(w) \/ Crash(w)
  <2>1. PICK w \in Workers : Accept(w) \/ Serve(w) \/ Crash(w)
    BY <1>2
  <2>2. CASE Accept(w)
    BY <2>2, AcceptKeeps
  <2>3. CASE Serve(w)
    BY <1>1, <2>3
  <2>4. CASE Crash(w)
    BY <2>4, CrashKeeps
  <2> QED
    BY <2>1, <2>2, <2>3, <2>4
<1>3. CASE Environment
  BY <1>3, EnvironmentKeeps
<1> QED
  BY <1>2, <1>3 DEF Next, Environment

\* So it always holds.
LEMMA AccountsInvariant == Spec => []AccountsInv
BY InitEstablishes, StepKeeps, PTL DEF Spec

\* It implies the type invariant ...
LEMMA TypesImplied == AccountsInv => TypeOK
<1> SUFFICES ASSUME AccountsInv PROVE TypeOK
  OBVIOUS
<1>1. TablesOK /\ RestOK /\ QuotaOK
  BY DEF AccountsInv, Accounting
<1>2. \A u \in Users : RowOK(profiles[u])
  <2> SUFFICES ASSUME NEW u \in Users PROVE RowOK(profiles[u])
    OBVIOUS
  <2>1. profiles[u] \in Row
    BY <1>1 DEF TablesOK
  <2> QED
    BY <2>1 DEF Row, RowOK, Times
<1>3. \A w \in Workers : worker[w].req \in scenario.requests \cup {NoRequest}
  BY DEF AccountsInv, SessionOK, SessionType, Session
<1>4. /\ \A u \in Users : /\ attrs[u].status \in {"none", "pending", "verified", "completed"}
                          /\ attrs[u].words \in Nat
                          /\ attrs[u].referrer \in Users \cup {Nobody}
      /\ \A k \in DOMAIN transactions : transactions[k] \in Nat
      /\ \A l \in ledger : l.user \in Users /\ l.credits \in Nat
  BY <1>1 DEF TablesOK, Attribution, Entry
<1>5. /\ now \in Nat /\ orders \subseteq PaymentIds /\ jobStatus \in {"awaiting_payment", "pending"}
      /\ {enqueued, quota, threads, served, faults} \subseteq Nat
      /\ \A u \in Users : {attrLock[u], rowLock[u]} \subseteq Workers \cup {Nobody}
      /\ confirmed \in [Users -> BOOLEAN]
  BY <1>1 DEF RestOK, QuotaOK
<1> QED
  BY <1>2, <1>3, <1>4, <1>5 DEF TypeOK

\* Types: every column, lock, counter and session has its type, and no word pool ever goes
\* below zero, for any users, workers, payments, events and scenarios.
THEOREM AccountsTyped == Spec => []TypeOK
BY AccountsInvariant, TypesImplied, PTL

\* referral_words_earned_total of a referrer is the sum of the ledger entries of that
\* referrer, after every commit, rollback and crash.
THEOREM EarningsAreBooked == Spec => []EarnedMatchesLedger
<1>1. AccountsInv => EarnedMatchesLedger
  BY DEF AccountsInv, Accounting
<1> QED
  BY <1>1, AccountsInvariant, PTL

\* A job that has left awaiting_payment has a recorded payment of its owner.
THEOREM JobsArePaid == Spec => []ActivatedIsPaid
<1>1. AccountsInv => ActivatedIsPaid
  BY DEF AccountsInv
<1> QED
  BY <1>1, AccountsInvariant, PTL

\* No referrer earns more words than referral_max_words_earned_per_referrer allows.
THEOREM EarningsCapped == Spec => [](\A r \in Users : Credits(RewardsOf(r)) <= scenario.maxEarned)
<1>1. AccountsInv => \A r \in Users : Credits(RewardsOf(r)) <= scenario.maxEarned
  BY DEF AccountsInv, Accounting, EarnedMatchesLedger, Earned, E
<1> QED
  BY <1>1, AccountsInvariant, PTL

\* ... and the caps.
LEMMA CapsImplied == VerifyReward > 0 /\ AccountsInv => RewardsAreCapped
<1> SUFFICES ASSUME VerifyReward > 0, AccountsInv, NEW r \in Users
             PROVE  /\ Cardinality(Started(r)) <= MaxRewarded
                    /\ Credits(RewardsOf(r)) <= scenario.maxEarned
  BY DEF RewardsAreCapped, Started
<1>1. E(profiles[r]) = Credits(RewardsOf(r))
  BY DEF AccountsInv, Accounting, EarnedMatchesLedger, E
<1> QED
  BY <1>1 DEF AccountsInv, Accounting, Slots, Earned

\* Where the first reward is worth anything (pipeline_settings.py: 3,000 words), no referrer
\* has words from more than referral_max_rewarded_referrals referees, nor more words than
\* the cap, although each session counts before it commits.
THEOREM RewardsCapped == VerifyReward > 0 => (Spec => []RewardsAreCapped)
<1> SUFFICES ASSUME VerifyReward > 0 PROVE Spec => []RewardsAreCapped
  OBVIOUS
<1>1. AccountsInv => RewardsAreCapped
  BY CapsImplied
<1> QED
  BY <1>1, AccountsInvariant, PTL

-----------------------------------------------------------------------------
(* Requests that do not overlap                                            *)
(*                                                                         *)
(* While no two requests overlap, what a session has read is what the      *)
(* tables still say, so that a commit writes exactly the session's rows.   *)

Later(p, q) == q.subscription_expiry >= p.subscription_expiry

Shape(p) ==
  /\ p.subscription_active => p.plan \in PaidPlans /\ p.subscription_expiry # NoTime
  /\ ~p.subscription_active => p.plan \notin PaidPlans /\ p.subscription_credits = 0
  /\ p.plan = "yearly" => /\ p.subscription_contract_end # NoTime
                          /\ p.subscription_contract_end <= p.subscription_expiry

\* A renewal whose period end nobody could tell.
Renewing(s, u) == s.user = u /\ s.pc = "s_commit" /\ s.end = NoTime

\* What session s is about to add to the wallet of its user.
Change(s) == IF s.pc = "c_commit" THEN PaymentOf(s.req.id).amount
             ELSE IF s.pc = "h_commit" THEN 0 - s.cost ELSE 0

Current(s) == /\ \A u \in DOMAIN s.prof : s.prof[u].old = profiles[u]
              /\ \A u \in DOMAIN s.attr : s.attr[u].old = attrs[u]

Shaped(s) == \A u \in DOMAIN s.prof :
  Shape(s.prof[u].new) /\ (Later(s.prof[u].old, s.prof[u].new) \/ Renewing(s, u))

Balanced(s) ==
  /\ \A u \in DOMAIN s.prof :
       s.prof[u].new.credits_inr_balance = s.prof[u].old.credits_inr_balance + (IF u = s.user THEN Change(s) ELSE 0)
  /\ s.pc \in {"c_commit", "h_commit"} => s.user \in DOMAIN s.prof
  /\ s.pc = "h_commit" /\ scenario.checkout => s.cost <= profiles[s.user].credits_inr_balance

\* The payment a session is about to record is not on record.
Recording(s) ==
  /\ s.pc \in {"c_load", "c_commit", "y_insert"} => transactions[s.req.id] = 0
  /\ s.pc \in {"c_commit", "y_insert"} => s.rows = {s.req.id}
  /\ s.pc = "s_commit" => s.rows \cap PaymentIds = {}
  /\ s.pc \notin {"c_commit", "y_insert", "s_commit"} => s.rows = {}

InviteKeys(u) == {VerifyKey(u), PaymentKey(u)}
RewardsFor(L, u) == {l \in L : l.key \in InviteKeys(u)}

\* The words a session has granted for its user's invitation are on the attribution.
Granting(s) ==
  /\ \A u \in Users : u \notin DOMAIN s.attr => RewardsFor(s.grants, u) = {}
  /\ \A u \in DOMAIN s.attr : /\ s.attr[u].new.words = s.attr[u].old.words + Credits(RewardsFor(s.grants, u))
                              /\ s.attr[u].new.words <= InviteTotal

\* The second reward completes an invitation.
Unpaid(s) == \A u \in DOMAIN s.attr :
  s.attr[u].new.status # "completed" => \A l \in ledger \cup s.grants : l.key # PaymentKey(u)

Queued(s) ==
  /\ s.pc = "a_commit" => jobStatus = "awaiting_payment"
  /\ s.pc \in {"a_quota", "a_spawn", "a_undo"} => enqueued = 0 /\ threads = 0 /\ jobStatus = "pending"

Alone(s) == /\ Current(s) /\ Shaped(s) /\ Balanced(s) /\ Recording(s)
            /\ Granting(s) /\ Unpaid(s) /\ Queued(s)

Lone == \A v, w \in Workers : ~At(v, "idle") /\ ~At(w, "idle") => v = w

Queue   == (jobStatus = "awaiting_payment" => enqueued = 0 /\ threads = 0) /\ enqueued + threads <= 1
Wallets == /\ charged \in [Users -> Int]
           /\ \A p \in Payments : transactions[p.id] <= 1
           /\ \A u \in Users : /\ IsFiniteSet(PaidBy(u))
                               /\ profiles[u].credits_inr_balance = Total(PaidBy(u)) - charged[u]
                               /\ scenario.checkout => profiles[u].credits_inr_balance >= 0
Shapes  == \A u \in Users : Shape(profiles[u])
Invites == \A u \in Users : /\ attrs[u].words = Credits(RewardsFor(ledger, u)) /\ attrs[u].words <= InviteTotal
                            /\ attrs[u].status # "completed" => \A l \in ledger : l.key # PaymentKey(u)

Solo == /\ Lone /\ Queue /\ Wallets /\ Shapes /\ Invites
        /\ \A w \in Workers : Alone(worker[w])
SoloInv == AccountsInv /\ (raced \/ Solo)

-----------------------------------------------------------------------------
(* Rows of a subscription *)

\* The end of a subscription.
LEMMA PlanAfterShape ==
  ASSUME NEW p \in Row, ~p.subscription_active, p.subscription_credits = 0
  PROVE  LET q == PlanAfterSubscriptionEnds(p)
         IN  /\ Shape(q) /\ q.subscription_expiry = p.subscription_expiry
             /\ q.credits_inr_balance = p.credits_inr_balance
BY DEF PlanAfterSubscriptionEnds, Row, Shape, PaidPlans

\* The refresh of the expiry keeps shape, period and wallet.
LEMMA RefreshShape ==
  ASSUME NEW p \in Row, Shape(p), NEW t \in Nat
  PROVE  LET q == RefreshExpiry(p, t)
         IN  /\ Shape(q) /\ q.subscription_expiry = p.subscription_expiry
             /\ q.credits_inr_balance = p.credits_inr_balance
<1> DEFINE q == RefreshYearlyBucket(p, t)
           r == [q EXCEPT !.subscription_active = FALSE, !.subscription_credits = 0]
<1>1. /\ q.plan = p.plan /\ q.subscription_active = p.subscription_active
      /\ q.subscription_expiry = p.subscription_expiry /\ q.subscription_contract_end = p.subscription_contract_end
      /\ q.credits_inr_balance = p.credits_inr_balance
      /\ ~p.subscription_active => q.subscription_credits = p.subscription_credits
  <2> DEFINE start == Or(p.subscription_period_start, p.subscription_started_at)
             months == IF t >= start THEN (t - start) \div Month ELSE 0
             place  == start + months * Month
             credits == IF months > 0 THEN PoolWords ELSE p.subscription_credits
  <2>1. \/ q = p
        \/ q = [p EXCEPT !.subscription_period_start = t]
        \/ /\ q = [p EXCEPT !.subscription_period_start = place, !.subscription_credits = credits]
           /\ p.subscription_active
    BY DEF RefreshYearlyBucket, start, months, place, credits
  <2> HIDE DEF start, months, place, credits, q
  <2> QED
    BY <2>1 DEF Row
<1>2. RefreshExpiry(p, t) = IF q.subscription_active /\ (q.subscription_expiry = NoTime \/ q.subscription_expiry < t)
                            THEN PlanAfterSubscriptionEnds(r) ELSE q
  BY DEF RefreshExpiry, q, r
<1>3. q \in Row
  <2>1. RefreshYearlyBucket(p, t) \in Row
    BY RefreshBucketType
  <2> QED
    BY <2>1
<1> HIDE DEF q
<1>4. /\ Shape(q) /\ q.subscription_expiry = p.subscription_expiry
      /\ q.credits_inr_balance = p.credits_inr_balance
  BY <1>1 DEF Shape
<1>5. /\ r \in Row /\ ~r.subscription_active /\ r.subscription_credits = 0
      /\ r.subscription_expiry = q.subscription_expiry /\ r.credits_inr_balance = q.credits_inr_balance
  BY <1>3 DEF Row
<1> HIDE DEF r
<1> QED
  BY <1>2, <1>4, <1>5, PlanAfterShape

\* A charge takes from the wallet what is to pay.
LEMMA ChargeShape ==
  ASSUME NEW p \in Row, Shape(p), NEW b, b.free_used \in Nat, b.subscription_used \in Nat, b.amount_to_pay \in Int
  PROVE  LET q == ApplyCharge(p, b)
         IN  /\ Shape(q) /\ q.subscription_expiry = p.subscription_expiry
             /\ q.credits_inr_balance = p.credits_inr_balance - b.amount_to_pay
<1> DEFINE fromFree  == Least(b.free_used, p.free_credits)
           fromBonus == Least(b.free_used - fromFree, p.referral_bonus_words)
           sub == IF p.subscription_active THEN Latest(0, p.subscription_credits - b.subscription_used)
                  ELSE p.subscription_credits
           q == [p EXCEPT !.free_credits = @ - fromFree,
                          !.referral_bonus_words = @ - fromBonus,
                          !.subscription_credits = sub,
                          !.credits_inr_balance = @ - b.amount_to_pay]
<1>1. ApplyCharge(p, b) = SyncPlanAfterFreePool(q)
  BY DEF ApplyCharge
<1>2. ~p.subscription_active => sub = p.subscription_credits
  OBVIOUS
<1> HIDE DEF fromFree, fromBonus, sub
<1>3. /\ q.subscription_expiry = p.subscription_expiry /\ q.plan = p.plan
      /\ q.subscription_active = p.subscription_active /\ q.subscription_contract_end = p.subscription_contract_end
      /\ q.subscription_credits = sub /\ q.credits_inr_balance = p.credits_inr_balance - b.amount_to_pay
      /\ DOMAIN q = DOMAIN p
  BY DEF Row
<1>4. Shape(q)
  BY <1>2, <1>3 DEF Shape
<1> HIDE DEF q
<1> DEFINE r == SyncPlanAfterFreePool(q)
<1>5. /\ r.subscription_expiry = q.subscription_expiry /\ r.subscription_active = q.subscription_active
      /\ r.subscription_contract_end = q.subscription_contract_end
      /\ r.subscription_credits = q.subscription_credits /\ r.credits_inr_balance = q.credits_inr_balance
      /\ r.plan = q.plan \/ (r.plan = "payg" /\ ~q.subscription_active)
  BY <1>3 DEF SyncPlanAfterFreePool, Row
<1>6. Shape(r)
  BY <1>4, <1>5 DEF Shape, PaidPlans
<1> HIDE DEF r
<1> QED
  BY <1>1, <1>3, <1>5, <1>6 DEF r

\* An activation gives a paid plan with an end that is not before the old one, unless nobody
\* could tell the end of a period.
LEMMA ActivateShape ==
  ASSUME NEW p \in Row, NEW kind \in PaidPlans \cup {None}, NEW pe \in Times, NEW ps \in Times, NEW t \in Nat
  PROVE  LET q == Activate(p, kind, pe, ps, t)
         IN  /\ Shape(q) /\ q.credits_inr_balance = p.credits_inr_balance
             /\ Later(p, q) \/ (pe = NoTime /\ kind # "yearly")
<1> DEFINE q == [p EXCEPT !.pending_subscription_kind = None,
                       !.subscription_active = TRUE,
                       !.subscription_credits = PoolWords]
<1>1. /\ q \in Row /\ q.subscription_active /\ q.credits_inr_balance = p.credits_inr_balance
      /\ q.subscription_expiry = p.subscription_expiry
  BY CreditConstants DEF Row
<1>2. Month \in Nat /\ Year \in Nat
  BY CreditConstants
<1> HIDE DEF q
<1>3. q.subscription_expiry \in Times /\ q.subscription_contract_end \in Times
  BY <1>1 DEF Row
<1>4. LET r == ActivateYearly(q, pe, ps, t)
      IN  Shape(r) /\ r.credits_inr_balance = q.credits_inr_balance /\ Later(q, r)
  <2> DEFINE anchor == Or(ps, t)
             contract == Latest(Or(pe, t + Year), q.subscription_contract_end)
             expiry == Latest(contract, q.subscription_expiry)
             begun == Or(q.subscription_started_at, anchor)
  <2>1. /\ contract \in Times /\ contract # NoTime /\ expiry \in Times /\ expiry # NoTime
        /\ contract <= expiry /\ expiry >= q.subscription_expiry
    BY <1>2, <1>3 DEF Or, Latest, Times, NoTime
  <2>2. ActivateYearly(q, pe, ps, t) =
          [q EXCEPT !.plan = "yearly", !.subscription_started_at = begun, !.subscription_period_start = anchor,
                    !.subscription_contract_end = contract, !.subscription_expiry = expiry]
    BY <1>1 DEF ActivateYearly, Row, Or, Latest
  <2> HIDE DEF anchor, contract, begun, expiry
  <2> QED
    BY <1>1, <2>1, <2>2 DEF Row, Shape, Later, PaidPlans
<1>5. LET r == ActivateMonthly(q, pe, ps, t)
      IN  Shape(r) /\ r.credits_inr_balance = q.credits_inr_balance /\ (Later(q, r) \/ pe = NoTime)
  <2> DEFINE start == IF ps # NoTime THEN ps ELSE Or(q.subscription_period_start, t)
             begun == Or(q.subscription_started_at, Or(ps, t))
             expiry == IF pe # NoTime THEN Latest(pe, q.subscription_expiry) ELSE t + Month
  <2>1. expiry \in Times /\ expiry # NoTime /\ (expiry >= q.subscription_expiry \/ pe = NoTime)
    BY <1>2, <1>3 DEF Latest, Times, NoTime
  <2>2. ActivateMonthly(q, pe, ps, t) =
          [q EXCEPT !.plan = "monthly", !.subscription_contract_end = NoTime, !.subscription_period_start = start,
                    !.subscription_started_at = begun, !.subscription_expiry = expiry]
    BY <1>1 DEF ActivateMonthly, Row, Or, Latest
  <2> HIDE DEF start, begun, expiry
  <2> QED
    BY <1>1, <2>1, <2>2 DEF Row, Shape, Later, PaidPlans
<1>6. \/ Activate(p, kind, pe, ps, t) = ActivateYearly(q, pe, ps, t)
      \/ Activate(p, kind, pe, ps, t) = ActivateMonthly(q, pe, ps, t) /\ kind # "yearly"
  BY DEF Activate, q, None
<1> QED
  BY <1>1, <1>4, <1>5, <1>6 DEF Later

\* A deactivation empties the pool and leaves the end where it was.
LEMMA DeactivateShape ==
  ASSUME NEW p \in Row
  PROVE  LET q == Deactivate(p)
         IN  /\ Shape(q) /\ q.subscription_expiry = p.subscription_expiry
             /\ q.credits_inr_balance = p.credits_inr_balance
<1> DEFINE q == [p EXCEPT !.subscription_active = FALSE, !.subscription_credits = 0,
                          !.subscription_contract_end = NoTime, !.pending_subscription_kind = None]
<1>1. /\ q \in Row /\ ~q.subscription_active /\ q.subscription_credits = 0
      /\ q.subscription_expiry = p.subscription_expiry /\ q.credits_inr_balance = p.credits_inr_balance
  BY DEF Row, Times
<1>2. Deactivate(p) = PlanAfterSubscriptionEnds(q)
  BY DEF Deactivate
<1> HIDE DEF q
<1> QED
  BY <1>1, <1>2, PlanAfterShape

-----------------------------------------------------------------------------
(* Steps of the only session *)

\* Where a session records no payment, charges nothing and activates no job.
Plain == Places \ ({"c_load", "c_commit", "y_insert", "h_commit"} \cup Activating)

\* A new session that stands there has nothing to answer for.
LEMMA BlankAlone ==
  ASSUME NEW t, Blank(t), t.pc \in Plain
  PROVE  Alone(t) /\ Alone(t)'
<1>1. DOMAIN t.prof = {} /\ DOMAIN t.attr = {} /\ t.grants = {} /\ t.rows = {}
  BY BlankParts
<1>2. t.pc \notin {"c_load", "c_commit", "y_insert", "h_commit", "a_commit", "a_quota", "a_spawn", "a_undo"}
  BY DEF Plain, Activating
<1>3. Recording(t) /\ Recording(t)' /\ Balanced(t) /\ Balanced(t)' /\ Queued(t) /\ Queued(t)'
  BY <1>1, <1>2 DEF Recording, Balanced, Queued
<1>4. Current(t) /\ Current(t)' /\ Shaped(t) /\ Unpaid(t) /\ Unpaid(t)'
  BY <1>1 DEF Current, Shaped, Unpaid
<1>5. Granting(t)
  BY <1>1 DEF Granting, RewardsFor
<1>6. Alone(t)
  BY <1>3, <1>4, <1>5 DEF Alone
<1>7. Alone(t)'
  BY <1>3, <1>4, <1>5 DEF Alone, Shaped, Granting
<1> QED
  BY <1>6, <1>7

\* Nor has an idle worker.
LEMMA IdleAlone == Alone(Idle) /\ Alone(Idle)'
<1>1. Idle.pc \in Plain
  BY IdleSession DEF Plain, Places, Activating
<1> QED
  BY <1>1, IdleSession, BlankAlone

\* What is known of the only session while the tables stay.
LEMMA FrameAlone ==
  ASSUME NEW t, Alone(t), UNCHANGED <<tables, jobStatus, enqueued, threads, scenario>>
  PROVE  Alone(t)'
<1>1. UNCHANGED <<profiles, attrs, transactions, ledger, jobStatus, enqueued, threads, scenario>>
  BY DEF tables
<1>2. Current(t)' /\ Shaped(t)' /\ Balanced(t)'
  BY <1>1 DEF Alone, Current, Shaped, Balanced
<1>3. Recording(t)' /\ Granting(t)' /\ Unpaid(t)' /\ Queued(t)'
  BY <1>1 DEF Alone, Recording, Granting, Unpaid, Queued
<1> QED
  BY <1>2, <1>3 DEF Alone

\* The others are idle.
LEMMA OthersIdle ==
  ASSUME AccountsInv, Lone, NEW w \in Workers, worker[w].pc # "idle", NEW v \in Workers \ {w}
  PROVE  worker[v] = Idle
<1>1. worker[v].pc = "idle"
  BY DEF Lone, At
<1>2. Control(worker[v])
  BY DEF AccountsInv, SessionOK
<1> QED
  BY <1>1, <1>2 DEF Control, Stands

\* The tables add up.
Tallies == Queue /\ Wallets /\ Shapes /\ Invites

\* A step of the only busy worker.
LEMMA SoloStep ==
  ASSUME AccountsInv, Lone, NEW w \in Workers, \A v \in Workers \ {w} : worker[v] = Idle,
         NEW t, Step(w, t), Tallies', Alone(t)'
  PROVE  Solo'
<1>1. worker'[w] = t /\ \A v \in Workers \ {w} : worker'[v] = Idle
  BY SteppedTo DEF AccountsInv
<1>2. Lone'
  BY <1>1, IdleSession DEF Lone, At
<1>3. \A v \in Workers : Alone(worker[v])'
  <2> SUFFICES ASSUME NEW v \in Workers PROVE Alone(worker[v])'
    OBVIOUS
  <2>1. CASE v = w
    <3>1. worker'[v] = t
      BY <1>1, <2>1
    <3> QED
      BY <3>1 DEF Alone, Current, Shaped, Balanced, Recording, Granting, Unpaid, Queued
  <2>2. CASE v # w
    <3>1. worker'[v] = Idle
      BY <1>1, <2>2
    <3>2. Alone(Idle)'
      BY IdleAlone
    <3> QED
      BY <3>1, <3>2 DEF Alone, Current, Shaped, Balanced, Recording, Granting, Unpaid, Queued
  <2> QED
    BY <2>1, <2>2
<1> QED
  BY <1>2, <1>3 DEF Solo, Tallies

\* The tables and the counters stay.
LEMMA TalliesStay ==
  ASSUME Tallies, UNCHANGED <<tables, jobStatus, enqueued, threads, charged, scenario>>
  PROVE  Tallies'
<1>1. UNCHANGED <<profiles, attrs, transactions, ledger, jobStatus, enqueued, threads, charged, scenario>>
  BY DEF tables
<1>2. Queue' /\ Shapes' /\ Invites'
  BY <1>1 DEF Tallies, Queue, Shapes, Invites
<1>3. Wallets'
  BY <1>1 DEF Tallies, Wallets, PaidBy
<1> QED
  BY <1>2, <1>3 DEF Tallies

\* A step that changes nothing but the only session.
LEMMA LocalSolo ==
  ASSUME AccountsInv, Solo, NEW w \in Workers, worker[w].pc # "idle", NEW t, Step(w, t), Alone(t),
         UNCHANGED <<tables, jobStatus, enqueued, threads, countVars>>
  PROVE  Solo'
<1>1. UNCHANGED <<charged, scenario>>
  BY DEF countVars
<1>2. Tallies'
  BY <1>1, TalliesStay DEF Solo, Tallies
<1>3. Alone(t)'
  BY <1>1, FrameAlone
<1>4. \A v \in Workers \ {w} : worker[v] = Idle
  BY OthersIdle DEF Solo
<1> QED
  BY <1>2, <1>3, <1>4, SoloStep DEF Solo

\* The only request is answered.
LEMMA FinishSolo ==
  ASSUME AccountsInv, Solo, NEW w \in Workers, worker[w].pc # "idle", Finish(w),
         UNCHANGED <<tables, jobStatus, enqueued, threads, countVars>>
  PROVE  Solo'
BY IdleAlone, LocalSolo DEF Finish

\* What has been read is a row of the table.
LEMMA OneRowAlone ==
  ASSUME AccountsInv, Solo, NEW w \in Workers, worker[w].pc \in Reading, NEW t, NEW v \in Row,
         t.prof = Put(Load(worker[w].prof, worker[w].user, profiles[worker[w].user]), worker[w].user, v),
         t.user = worker[w].user, t.attr = worker[w].attr, t.grants = worker[w].grants,
         Shape(v), Later(profiles[t.user], v) \/ Renewing(t, t.user),
         v.credits_inr_balance = profiles[t.user].credits_inr_balance + Change(t),
         t.pc = "h_commit" /\ scenario.checkout => t.cost <= profiles[t.user].credits_inr_balance,
         Recording(t), Queued(t)
  PROVE  Alone(t)
<1> DEFINE s == worker[w]
           u == s.user
<1>1. Stands(s) /\ u \in Users
  BY Serving DEF Reading
<1>2. DOMAIN s.prof = {} /\ DOMAIN s.attr = {} /\ s.grants = {}
  BY <1>1, ReadsNothingYet
<1>3. t.prof = [i \in {u} |-> [old |-> profiles[u], new |-> v]]
  BY <1>2 DEF Load, Put
<1>4. DOMAIN t.prof = {u} /\ t.prof[u].old = profiles[u] /\ t.prof[u].new = v /\ t.user = u
  BY <1>3
<1>5. Current(t) /\ Shaped(t) /\ Unpaid(t)
  BY <1>2, <1>4 DEF Current, Shaped, Unpaid
<1>6. Balanced(t)
  BY <1>4 DEF Balanced
<1>7. Granting(t)
  BY <1>2 DEF Granting, RewardsFor
<1> QED
  BY <1>5, <1>6, <1>7 DEF Alone

\* A worker takes up a request.
LEMMA BeginSolo ==
  ASSUME AccountsInv, Solo, NEW w \in Workers, NEW r \in scenario.requests, NEW pc \in Reading \ {"c_load"},
         Begin(w, r, pc, UserOf(r))
  PROVE  raced' \/ Solo'
<1> SUFFICES ASSUME ~raced' PROVE Solo'
  OBVIOUS
<1> DEFINE t == [Idle EXCEPT !.pc = pc, !.req = r, !.user = UserOf(r)]
<1>1. Step(w, t) /\ UNCHANGED <<tables, jobVars, charged, scenario>> /\ Busy = {}
  BY DEF Begin
<1>2. t.pc = pc /\ Blank(t) /\ pc \in Plain
  BY BlankIs, UserOfType DEF Idle, AccountsInv, RestOK, Places, Plain, Reading, Activating
<1> HIDE DEF t
<1>3. \A v \in Workers \ {w} : worker[v] = Idle
  <2> SUFFICES ASSUME NEW v \in Workers PROVE worker[v] = Idle
    OBVIOUS
  <2>1. worker[v].pc = "idle"
    BY <1>1 DEF Busy, At
  <2>2. Control(worker[v])
    BY DEF AccountsInv, SessionOK
  <2> QED
    BY <2>1, <2>2 DEF Control, Stands
<1>4. Tallies'
  BY <1>1, TalliesStay DEF Solo, Tallies, jobVars
<1>5. Alone(t)'
  BY <1>2, BlankAlone
<1> QED
  BY <1>1, <1>3, <1>4, <1>5, SoloStep DEF Solo

\* Every way to take up a request.
LEMMA AcceptSolo ==
  ASSUME AccountsInv, Solo, NEW w \in Workers, Accept(w)
  PROVE  raced' \/ Solo'
<1>1. PICK r \in scenario.requests, pc \in Reading :
        Begin(w, r, pc, UserOf(r)) /\ Serves([pc |-> pc, req |-> r]) /\ pc \notin {"a_load", "c_load"}
  BY Accepted DEF TakesUp, AccountsInv, RestOK
<1> QED
  BY <1>1, BeginSolo

\* A session that has read nothing.
LEMMA EmptyAlone ==
  ASSUME NEW t, DOMAIN t.prof = {}, DOMAIN t.attr = {}, t.grants = {}, Recording(t), Queued(t),
         t.pc \notin {"c_commit", "h_commit"}
  PROVE  Alone(t)
BY DEF Alone, Current, Shaped, Balanced, Granting, RewardsFor, Unpaid

\* What is known of the only session that serves a request.
LEMMA ServingAlone ==
  ASSUME AccountsInv, Solo, NEW w \in Workers, worker[w].pc \in Reading
  PROVE  LET s == worker[w]
         IN  /\ Stands(s) /\ s \in Session /\ s.user \in Users /\ RequestOK(s.req) /\ s.pc # "idle"
             /\ DOMAIN s.prof = {} /\ DOMAIN s.attr = {} /\ s.grants = {} /\ s.rows = {}
             /\ s.req \in scenario.requests /\ profiles[s.user] \in Row /\ Shape(profiles[s.user])
             /\ s.pc = "c_load" => transactions[s.req.id] = 0
             /\ profiles[s.user].subscription_expiry \in Int /\ profiles[s.user].credits_inr_balance \in Int
<1> DEFINE s == worker[w]
<1>1. /\ Stands(s) /\ s \in Session /\ s.user \in Users /\ RequestOK(s.req)
      /\ s.req \in scenario.requests /\ profiles[s.user] \in Row /\ s.pc # "idle"
  BY Serving DEF Reading
<1>2. DOMAIN s.prof = {} /\ DOMAIN s.attr = {} /\ s.grants = {}
  BY <1>1, ReadsNothingYet
<1>3. Recording(s) /\ Shape(profiles[s.user])
  BY <1>1 DEF Solo, Alone, Shapes
<1>4. s.rows = {} /\ (s.pc = "c_load" => transactions[s.req.id] = 0)
  BY <1>3 DEF Recording, Reading
<1>5. profiles[s.user].subscription_expiry \in Int /\ profiles[s.user].credits_inr_balance \in Int
  BY <1>1 DEF Row, Times, NoTime
<1> QED
  BY <1>1, <1>2, <1>3, <1>4, <1>5

\* Action CreditLookup.
LEMMA CreditLookupSolo == ASSUME AccountsInv, Solo, NEW w \in Workers, CreditLookup(w) PROVE Solo'
<1> DEFINE s == worker[w]
<1>1. s.pc = "c_lookup" /\ UNCHANGED <<tables, jobStatus, enqueued, threads, countVars>>
  BY DEF CreditLookup, At, jobVars
<1>2. /\ Stands(s) /\ s \in Session /\ DOMAIN s.prof = {} /\ DOMAIN s.attr = {} /\ s.grants = {} /\ s.rows = {}
      /\ s.pc # "idle" /\ s.req \in scenario.requests
  BY <1>1, ServingAlone DEF Reading
<1>3. CASE transactions[s.req.id] > 0
  <2>1. Step(w, Fresh(w, "a_load"))
    BY <1>3 DEF CreditLookup
  <2>2. Blank(Fresh(w, "a_load")) /\ Fresh(w, "a_load").pc \in Plain
    BY <1>2, FreshSession DEF Places, Reading, Plain, Activating
  <2> QED
    BY <1>1, <1>2, <2>1, <2>2, BlankAlone, LocalSolo
<1>4. CASE ~(transactions[s.req.id] > 0)
  <2> DEFINE t == [s EXCEPT !.pc = "c_load"]
  <2>1. Step(w, t)
    BY <1>4 DEF CreditLookup
  <2>2. /\ t.pc = "c_load" /\ t.req = s.req /\ DOMAIN t.prof = {} /\ DOMAIN t.attr = {} /\ t.grants = {}
        /\ t.rows = {}
    BY <1>2 DEF Session
  <2>3. transactions[s.req.id] = 0
    <3>1. s.req.op \in Capturing
      BY <1>1, <1>2 DEF Stands, Serves, Activating, Rewarding
    <3>2. s.req.id \in Ids
      BY <1>2, <3>1, CaptureId DEF AccountsInv, RestOK
    <3>3. transactions[s.req.id] \in Nat
      BY <3>2 DEF AccountsInv, Accounting, TablesOK
    <3> QED
      BY <1>4, <3>3
  <2> HIDE DEF t
  <2>4. Recording(t) /\ Queued(t)
    BY <2>2, <2>3 DEF Recording, Queued
  <2>5. Alone(t)
    BY <2>2, <2>4, EmptyAlone
  <2> QED
    BY <1>1, <1>2, <2>1, <2>5, LocalSolo
<1> QED
  BY <1>3, <1>4

\* Action CreditLoad.
LEMMA CreditLoadSolo == ASSUME AccountsInv, Solo, NEW w \in Workers, CreditLoad(w) PROVE Solo'
<1> DEFINE s == worker[w]
           u == s.user
           p == PaymentOf(s.req.id)
           v == [profiles[u] EXCEPT !.credits_inr_balance = @ + p.amount]
           m == Put(Load(s.prof, u, profiles[u]), u, v)
           t == [s EXCEPT !.pc = "c_commit", !.rows = {p.id}, !.prof = m]
<1>1. s.pc = "c_load" /\ UNCHANGED <<tables, jobStatus, enqueued, threads, countVars>> /\ Step(w, t)
  BY DEF CreditLoad, At, jobVars
<1>2. /\ Stands(s) /\ s \in Session /\ u \in Users /\ s.pc # "idle" /\ s.pc \in Reading /\ s.req \in scenario.requests
      /\ profiles[u] \in Row /\ Shape(profiles[u]) /\ transactions[s.req.id] = 0
      /\ profiles[u].subscription_expiry \in Int
  BY <1>1, ServingAlone DEF Reading
<1>3. s.req.op \in Capturing /\ s.req.id \in PaymentIds /\ p \in Payments /\ p.id = s.req.id
  BY <1>1, <1>2, CaptureId, PaymentOfType DEF Stands, Serves, AccountsInv, RestOK, Activating, Rewarding
<1>4. p.amount \in Nat
  BY <1>3, PaymentsOK
<1>5. /\ v \in Row /\ Shape(v) /\ v.credits_inr_balance = profiles[u].credits_inr_balance + p.amount
      /\ Later(profiles[u], v)
  BY <1>2, <1>4 DEF Row, Shape, Later
<1> HIDE DEF v, m
<1>6. /\ t.pc = "c_commit" /\ t.req = s.req /\ t.user = u /\ t.prof = m /\ t.attr = s.attr
      /\ t.grants = s.grants /\ t.rows = {p.id}
  BY <1>2 DEF Session
<1> HIDE DEF t
<1>7. Recording(t) /\ Queued(t) /\ Change(t) = p.amount
  BY <1>2, <1>3, <1>6 DEF Recording, Queued, Change
<1>8. Alone(t)
  BY <1>2, <1>5, <1>6, <1>7, OneRowAlone DEF m
<1> QED
  BY <1>1, <1>2, <1>8, LocalSolo

\* Action Acknowledge.
LEMMA AcknowledgeSolo == ASSUME AccountsInv, Solo, NEW w \in Workers, Acknowledge(w) PROVE Solo'
<1>1. worker[w].pc # "idle" /\ Finish(w) /\ UNCHANGED <<tables, jobStatus, enqueued, threads, countVars>>
  BY DEF Acknowledge, At, jobVars
<1> QED
  BY <1>1, FinishSolo

\* Action ActivateLoad.
LEMMA ActivateLoadSolo == ASSUME AccountsInv, Solo, NEW w \in Workers, ActivateLoad(w) PROVE Solo'
<1> DEFINE s == worker[w]
           u == s.user
<1>1. s.pc = "a_load" /\ UNCHANGED <<tables, jobStatus, enqueued, threads, countVars>>
  BY DEF ActivateLoad, At, jobVars
<1>2. CASE Finish(w)
  BY <1>1, <1>2, FinishSolo
<1>3. CASE ~Finish(w)
  <2> DEFINE m == Load(s.prof, u, profiles[u])
             t == [s EXCEPT !.pc = "a_commit", !.prof = m]
  <2>1. jobStatus = "awaiting_payment" /\ Step(w, t)
    BY <1>3 DEF ActivateLoad
  <2>2. /\ s \in Session /\ u \in Users /\ s.pc # "idle" /\ s.pc \in Reading /\ DOMAIN s.prof = {} /\ s.rows = {}
        /\ profiles[u] \in Row /\ Shape(profiles[u]) /\ profiles[u].subscription_expiry \in Int
        /\ profiles[u].credits_inr_balance \in Int
    BY <1>1, ServingAlone DEF Reading
  <2>3. m = Put(Load(s.prof, u, profiles[u]), u, profiles[u])
    <3>1. m = [i \in {u} |-> [old |-> profiles[u], new |-> profiles[u]]]
      BY <2>2 DEF Load
    <3> QED
      BY <2>2, <3>1 DEF Load, Put
  <2> HIDE DEF m
  <2>4. /\ t.pc = "a_commit" /\ t.user = u /\ t.prof = m /\ t.attr = s.attr /\ t.grants = s.grants /\ t.rows = {}
    BY <2>2 DEF Session
  <2> HIDE DEF t
  <2>5. Recording(t) /\ Queued(t) /\ Change(t) = 0 /\ Later(profiles[u], profiles[u])
    BY <2>1, <2>2, <2>4 DEF Recording, Queued, Change, Later
  <2>6. Alone(t)
    BY <2>2, <2>3, <2>4, <2>5, OneRowAlone
  <2> QED
    BY <1>1, <2>1, <2>2, <2>6, LocalSolo
<1> QED
  BY <1>2, <1>3

\* Action EventLookup.
LEMMA EventLookupSolo == ASSUME AccountsInv, Solo, NEW w \in Workers, EventLookup(w) PROVE Solo'
<1> DEFINE s == worker[w]
           e == s.req.event
           start == IF CarriesPeriod(e) THEN e.start ELSE e.at
<1>1. s.pc = "s_lookup" /\ UNCHANGED <<tables, jobStatus, enqueued, threads, countVars>>
  BY DEF EventLookup, At, jobVars
<1>2. CASE Finish(w)
  BY <1>1, <1>2, FinishSolo
<1>3. CASE ~Finish(w)
  <2>1. PICK end \in (IF CarriesPeriod(e) THEN {e.end} ELSE FetchedEnds) :
          Step(w, [s EXCEPT !.pc = "s_load", !.end = end, !.start = start])
    BY <1>3 DEF EventLookup
  <2> DEFINE t == [s EXCEPT !.pc = "s_load", !.end = end, !.start = start]
  <2>2. s \in Session /\ s.pc # "idle" /\ DOMAIN s.prof = {} /\ DOMAIN s.attr = {} /\ s.grants = {} /\ s.rows = {}
    BY <1>1, ServingAlone DEF Reading
  <2> HIDE DEF start
  <2>3. t.pc = "s_load" /\ DOMAIN t.prof = {} /\ DOMAIN t.attr = {} /\ t.grants = {} /\ t.rows = {}
    BY <2>2 DEF Session
  <2>4. Step(w, t)
    BY <2>1
  <2> HIDE DEF t
  <2>5. Recording(t) /\ Queued(t)
    BY <2>3 DEF Recording, Queued
  <2>6. Alone(t)
    BY <2>3, <2>5, EmptyAlone
  <2> QED
    BY <1>1, <2>2, <2>4, <2>6, LocalSolo
<1> QED
  BY <1>2, <1>3

\* An activated profile, in the session that is to commit it.
LEMMA ActivatedAlone ==
  ASSUME AccountsInv, Solo, NEW w \in Workers, worker[w].pc \in Reading, NEW t, NEW kind \in PaidPlans \cup {None},
         NEW start \in Times, NEW end \in Times,
         t.prof = Put(Load(worker[w].prof, worker[w].user, profiles[worker[w].user]), worker[w].user,
                      Activate(profiles[worker[w].user], kind, end, start, now)),
         t.user = worker[w].user, t.attr = worker[w].attr, t.grants = worker[w].grants,
         t.pc \in {"s_commit", "x_commit"}, t.rows \cap PaymentIds = {}, t.pc = "x_commit" => t.rows = {},
         end = NoTime => kind = "yearly" \/ (t.pc = "s_commit" /\ t.end = NoTime)
  PROVE  Alone(t)
<1> DEFINE u == worker[w].user
           v == Activate(profiles[u], kind, end, start, now)
<1>1. /\ worker[w] \in Session /\ u \in Users /\ profiles[u] \in Row
      /\ profiles[u].subscription_expiry \in Int /\ profiles[u].credits_inr_balance \in Int
  BY ServingAlone
<1>2. now \in Nat
  BY DEF AccountsInv, RestOK
<1>3. v \in Row
  BY <1>1, <1>2, ActivateType
<1>4. /\ Shape(v) /\ v.credits_inr_balance = profiles[u].credits_inr_balance
      /\ Later(profiles[u], v) \/ (end = NoTime /\ kind # "yearly")
  BY <1>1, <1>2, ActivateShape
<1> HIDE DEF v
<1>5. Later(profiles[u], v) \/ Renewing(t, u)
  BY <1>4 DEF Renewing
<1>6. Recording(t) /\ Queued(t) /\ Change(t) = 0
  BY DEF Recording, Queued, Change
<1>7. v.credits_inr_balance = profiles[u].credits_inr_balance + Change(t)
  BY <1>1, <1>4, <1>6
<1> QED
  BY <1>3, <1>4, <1>5, <1>6, <1>7, OneRowAlone DEF v

\* Action EventLoad.
LEMMA EventLoadSolo == ASSUME AccountsInv, Solo, NEW w \in Workers, EventLoad(w) PROVE Solo'
<1> DEFINE s == worker[w]
           u == s.user
<1>1. s.pc = "s_load" /\ UNCHANGED <<tables, jobStatus, enqueued, threads, countVars>>
  BY DEF EventLoad, At, jobVars
<1>2. CASE Finish(w)
  BY <1>1, <1>2, FinishSolo
<1>3. CASE ~Finish(w)
  <2> DEFINE m == Put(Load(s.prof, u, profiles[u]), u, Activate(profiles[u], None, s.end, s.start, now))
             t == [s EXCEPT !.pc = "s_commit", !.rows = {s.req.event.id}, !.prof = m]
  <2>1. Stands(s) /\ s \in Session /\ u \in Users /\ s.pc # "idle" /\ RequestOK(s.req) /\ s.pc \in Reading
    BY <1>1, ServingAlone DEF Reading
  <2>2. s.req.op = "event"
    BY <1>1, <2>1 DEF Stands, Serves, Activating, Rewarding
  <2>3. s.req.event.id \notin PaymentIds
    BY <2>1, <2>2, EventTypes DEF RequestOK
  <2>4. s.start \in Times /\ s.end \in Times
    BY <2>1 DEF Session
  <2>5. Step(w, t)
    BY <1>3 DEF EventLoad, Activated
  <2> HIDE DEF m
  <2>6. /\ t.pc = "s_commit" /\ t.user = u /\ t.prof = m /\ t.attr = s.attr /\ t.grants = s.grants
        /\ t.rows = {s.req.event.id} /\ t.end = s.end
    BY <2>1 DEF Session
  <2> HIDE DEF t
  <2>7. Alone(t)
    BY <2>1, <2>3, <2>4, <2>6, ActivatedAlone DEF m
  <2> QED
    BY <1>1, <2>1, <2>5, <2>7, LocalSolo
<1> QED
  BY <1>2, <1>3

\* Action SyncLoad.
LEMMA SyncLoadSolo == ASSUME AccountsInv, Solo, NEW w \in Workers, SyncLoad(w) PROVE Solo'
<1> DEFINE s == worker[w]
           u == s.user
           r == [s EXCEPT !.pc = "s_commit", !.start = CurrentStart, !.end = CurrentEnd]
<1>1. s.pc = "n_load" /\ UNCHANGED <<tables, jobStatus, enqueued, threads, countVars>>
  BY DEF SyncLoad, At, jobVars
<1>2. CASE Finish(w)
  BY <1>1, <1>2, FinishSolo
<1>3. CASE ~Finish(w)
  <2>1. s \in Session /\ u \in Users /\ s.pc # "idle" /\ s.pc \in Reading /\ s.rows = {}
    BY <1>1, ServingAlone DEF Reading
  <2>2. CurrentStart \in Nat /\ CurrentEnd \in Nat
    <3>1. now \in Nat /\ Month \in Nat \ {0}
      BY CreditConstants DEF AccountsInv, RestOK
    <3>2. now \div Month \in Nat
      BY <3>1
    <3>3. (now \div Month) * Month \in Nat
      BY <3>1, <3>2
    <3> QED
      BY <3>1, <3>3 DEF CurrentEnd, CurrentStart
  <2>3. /\ r \in Session /\ r.user = u /\ r.prof = s.prof /\ r.attr = s.attr /\ r.grants = s.grants /\ r.rows = s.rows
        /\ r.start = CurrentStart /\ r.end = CurrentEnd /\ r.pc = "s_commit"
    <3>1. CurrentStart \in Times /\ CurrentEnd \in Times
      BY <2>2 DEF Times
    <3> QED
      BY <2>1, <3>1 DEF Session, Places
  <2> DEFINE m == Put(Load(s.prof, u, profiles[u]), u, Activate(profiles[u], None, CurrentEnd, CurrentStart, now))
             t == [r EXCEPT !.prof = m]
  <2>4. Step(w, t)
    <3>1. Step(w, [r EXCEPT !.prof = Activated(r, s.user, None)])
      BY <1>3 DEF SyncLoad
    <3> HIDE DEF r
    <3> QED
      BY <2>3, <3>1 DEF Activated
  <2> HIDE DEF m, r
  <2>5. t.pc = "s_commit" /\ t.user = u /\ t.prof = m /\ t.attr = s.attr /\ t.grants = s.grants /\ t.rows = {}
    BY <2>1, <2>3 DEF Session
  <2> HIDE DEF t
  <2>6. CurrentEnd # NoTime /\ CurrentStart \in Times /\ CurrentEnd \in Times
    BY <2>2 DEF NoTime, Times
  <2>7. Alone(t)
    BY <2>1, <2>5, <2>6, ActivatedAlone DEF m
  <2> QED
    BY <1>1, <2>1, <2>4, <2>7, LocalSolo
<1> QED
  BY <1>2, <1>3

\* Action YearlyLoad.
LEMMA YearlyLoadSolo == ASSUME AccountsInv, Solo, NEW w \in Workers, YearlyLoad(w) PROVE Solo'
<1> DEFINE s == worker[w]
           u == s.user
           m == Put(Load(s.prof, u, profiles[u]), u, Activate(profiles[u], "yearly", s.end, s.start, now))
           t == [s EXCEPT !.pc = "x_commit", !.prof = m]
<1>1. s.pc = "y_load" /\ UNCHANGED <<tables, jobStatus, enqueued, threads, countVars>>
  BY DEF YearlyLoad, At, jobVars
<1>2. s \in Session /\ u \in Users /\ s.pc # "idle" /\ s.pc \in Reading /\ s.rows = {}
  BY <1>1, ServingAlone DEF Reading
<1>3. s.start \in Times /\ s.end \in Times
  BY <1>2 DEF Session
<1>4. Step(w, t)
  BY DEF YearlyLoad, Activated
<1> HIDE DEF m
<1>5. t.pc = "x_commit" /\ t.user = u /\ t.prof = m /\ t.attr = s.attr /\ t.grants = s.grants /\ t.rows = {}
  BY <1>2 DEF Session
<1> HIDE DEF t
<1>6. "yearly" \in PaidPlans
  BY DEF PaidPlans
<1>7. Alone(t)
  BY <1>2, <1>3, <1>5, <1>6, ActivatedAlone DEF m
<1> QED
  BY <1>1, <1>2, <1>4, <1>7, LocalSolo

\* Action CancelLoad.
LEMMA CancelLoadSolo == ASSUME AccountsInv, Solo, NEW w \in Workers, CancelLoad(w) PROVE Solo'
<1> DEFINE s == worker[w]
           u == s.user
           v == Deactivate(profiles[u])
<1>1. s.pc = "d_load" /\ UNCHANGED <<tables, jobStatus, enqueued, threads, countVars>>
  BY DEF CancelLoad, At, jobVars
<1>2. CASE Finish(w)
  BY <1>1, <1>2, FinishSolo
<1>3. CASE ~Finish(w)
  <2> DEFINE m == Put(Load(s.prof, u, profiles[u]), u, v)
             t == [s EXCEPT !.pc = "x_commit", !.prof = m]
  <2>1. /\ s \in Session /\ u \in Users /\ s.pc # "idle" /\ s.pc \in Reading /\ s.rows = {} /\ profiles[u] \in Row
        /\ profiles[u].subscription_expiry \in Int /\ profiles[u].credits_inr_balance \in Int
    BY <1>1, ServingAlone DEF Reading
  <2>2. Step(w, t)
    BY <1>3 DEF CancelLoad
  <2>3. v \in Row /\ Shape(v) /\ Later(profiles[u], v) /\ v.credits_inr_balance = profiles[u].credits_inr_balance + 0
    BY <2>1, DeactivateType, DeactivateShape DEF Later
  <2> HIDE DEF v, m
  <2>4. t.pc = "x_commit" /\ t.user = u /\ t.prof = m /\ t.attr = s.attr /\ t.grants = s.grants /\ t.rows = {}
    BY <2>1 DEF Session
  <2> HIDE DEF t
  <2>5. Recording(t) /\ Queued(t) /\ Change(t) = 0
    BY <2>4 DEF Recording, Queued, Change
  <2>6. Alone(t)
    BY <2>1, <2>3, <2>4, <2>5, OneRowAlone DEF m
  <2> QED
    BY <1>1, <2>1, <2>2, <2>6, LocalSolo
<1> QED
  BY <1>2, <1>3

\* Action CreateLoad.
LEMMA CreateLoadSolo == ASSUME AccountsInv, Solo, NEW w \in Workers, CreateLoad(w) PROVE Solo'
<1> DEFINE s == worker[w]
           u == s.user
           v == [profiles[u] EXCEPT !.razorpay_subscription_id = s.req.sub, !.pending_subscription_kind = s.req.kind]
           m == Put(Load(s.prof, u, profiles[u]), u, v)
           t == [s EXCEPT !.pc = "x_commit", !.prof = m]
<1>1. s.pc = "k_load" /\ UNCHANGED <<tables, jobStatus, enqueued, threads, countVars>> /\ Step(w, t)
  BY DEF CreateLoad, At, jobVars
<1>2. /\ Stands(s) /\ s \in Session /\ u \in Users /\ s.pc # "idle" /\ s.pc \in Reading /\ s.rows = {}
      /\ profiles[u] \in Row /\ Shape(profiles[u]) /\ RequestOK(s.req)
      /\ profiles[u].subscription_expiry \in Int /\ profiles[u].credits_inr_balance \in Int
  BY <1>1, ServingAlone DEF Reading
<1>3. s.req.op = "create"
  BY <1>1, <1>2 DEF Stands, Serves, Activating, Rewarding
<1>4. s.req.sub \in SubscriptionIds /\ s.req.kind \in PaidPlans
  BY <1>2, <1>3 DEF RequestOK, SubscriptionIds, AllRequests, Stands, AccountsInv, RestOK
<1>5. v \in Row
  BY <1>2, <1>4 DEF Row
<1> DEFINE p == profiles[u]
<1>9. /\ v.subscription_active = p.subscription_active /\ v.plan = p.plan
      /\ v.subscription_expiry = p.subscription_expiry /\ v.subscription_credits = p.subscription_credits
      /\ v.subscription_contract_end = p.subscription_contract_end
      /\ v.credits_inr_balance = p.credits_inr_balance
  BY <1>2 DEF Row
<1>10. Shape(v) /\ Later(profiles[u], v) /\ v.credits_inr_balance = profiles[u].credits_inr_balance + 0
  BY <1>2, <1>9 DEF Shape, Later
<1> HIDE DEF v, m
<1>6. t.pc = "x_commit" /\ t.user = u /\ t.prof = m /\ t.attr = s.attr /\ t.grants = s.grants /\ t.rows = {}
  BY <1>2 DEF Session
<1> HIDE DEF t
<1>7. Recording(t) /\ Queued(t) /\ Change(t) = 0
  BY <1>6 DEF Recording, Queued, Change
<1>8. Alone(t)
  BY <1>2, <1>5, <1>6, <1>7, <1>10, OneRowAlone DEF m
<1> QED
  BY <1>1, <1>2, <1>8, LocalSolo

\* Action ChargeLoad.
LEMMA ChargeLoadSolo == ASSUME AccountsInv, Solo, NEW w \in Workers, ChargeLoad(w) PROVE Solo'
<1> DEFINE s == worker[w]
           u == s.user
           p == RefreshExpiry(profiles[u], now)
           b == ComputeCharge(p, s.req.words, now)
<1>1. s.pc = "h_load" /\ UNCHANGED <<tables, jobStatus, enqueued, threads, countVars>>
  BY DEF ChargeLoad, At, jobVars
<1>2. CASE Finish(w)
  BY <1>1, <1>2, FinishSolo
<1>3. CASE ~Finish(w)
  <2> DEFINE v == ApplyCharge(p, b)
             m == Put(Load(s.prof, u, profiles[u]), u, v)
             t == [s EXCEPT !.pc = "h_commit", !.cost = b.amount_to_pay, !.prof = m]
  <2>1. /\ Stands(s) /\ s \in Session /\ u \in Users /\ profiles[u] \in Row /\ RequestOK(s.req) /\ s.pc \in Reading
        /\ s.rows = {} /\ s.pc # "idle" /\ Shape(profiles[u])
        /\ profiles[u].subscription_expiry \in Int /\ profiles[u].credits_inr_balance \in Int
    BY <1>1, ServingAlone DEF Reading
  <2>2. s.req.op = "charge"
    BY <1>1, <2>1 DEF Stands, Serves, Activating, Rewarding
  <2>3. s.req.words \in Nat /\ now \in Nat
    BY <2>1, <2>2 DEF RequestOK, AccountsInv, RestOK
  <2>4. /\ p \in Row /\ Shape(p) /\ p.subscription_expiry = profiles[u].subscription_expiry
        /\ p.credits_inr_balance = profiles[u].credits_inr_balance
    BY <2>1, <2>3, RefreshExpiryType, RefreshShape
  <2>5. /\ Step(w, t)
        /\ scenario.checkout => ~(b.amount_to_pay > p.credits_inr_balance)
    BY <1>3 DEF ChargeLoad, p, b
  <2> HIDE DEF p
  <2>6. b.free_used \in Nat /\ b.subscription_used \in Nat /\ b.amount_to_pay \in Int
    BY <2>3, <2>4, ComputeChargeType
  <2> HIDE DEF b
  <2>7. /\ v \in Row /\ Shape(v) /\ v.subscription_expiry = p.subscription_expiry
        /\ v.credits_inr_balance = p.credits_inr_balance - b.amount_to_pay
    BY <2>4, <2>6, ApplyChargeType, ChargeShape
  <2> HIDE DEF v, m
  <2>8. /\ t.pc = "h_commit" /\ t.user = u /\ t.prof = m /\ t.attr = s.attr /\ t.grants = s.grants /\ t.rows = {}
        /\ t.cost = b.amount_to_pay
    BY <2>1, <2>6 DEF Session
  <2> HIDE DEF t
  <2>9. Recording(t) /\ Queued(t) /\ Change(t) = 0 - b.amount_to_pay
    BY <2>8 DEF Recording, Queued, Change
  <2>10. /\ Later(profiles[u], v) /\ v.credits_inr_balance = profiles[u].credits_inr_balance + Change(t)
         /\ scenario.checkout => t.cost <= profiles[u].credits_inr_balance
    BY <2>1, <2>4, <2>5, <2>6, <2>7, <2>8, <2>9 DEF Later
  <2>11. Alone(t)
    BY <2>1, <2>7, <2>8, <2>9, <2>10, OneRowAlone DEF m
  <2> QED
    BY <1>1, <2>1, <2>5, <2>11, LocalSolo
<1> QED
  BY <1>2, <1>3

\* Action YearlyLookup.
LEMMA YearlyLookupSolo == ASSUME AccountsInv, Solo, NEW w \in Workers, YearlyLookup(w) PROVE Solo'
<1> DEFINE s == worker[w]
<1>1. s.pc = "y_lookup" /\ UNCHANGED <<tables, jobStatus, enqueued, threads, countVars>>
  BY DEF YearlyLookup, At, jobVars
<1>2. /\ Stands(s) /\ s \in Session /\ DOMAIN s.prof = {} /\ DOMAIN s.attr = {} /\ s.grants = {}
      /\ s.pc # "idle" /\ RequestOK(s.req)
  BY <1>1, ServingAlone DEF Reading
<1>3. CASE transactions[s.req.id] > 0
  <2>1. Step(w, Fresh(w, "y_load"))
    BY <1>3 DEF YearlyLookup
  <2>2. Blank(Fresh(w, "y_load")) /\ Fresh(w, "y_load").pc \in Plain
    BY <1>2, FreshSession DEF Places, Reading, Plain, Activating
  <2> QED
    BY <1>1, <1>2, <2>1, <2>2, BlankAlone, LocalSolo
<1>4. CASE ~(transactions[s.req.id] > 0)
  <2> DEFINE t == [s EXCEPT !.pc = "y_insert", !.rows = {s.req.id}]
  <2>1. Step(w, t)
    BY <1>4 DEF YearlyLookup
  <2>2. s.req.op = "yearly"
    BY <1>1, <1>2 DEF Stands, Serves, Activating, Rewarding
  <2>3. transactions[s.req.id] = 0
    <3>1. s.req.id \in Ids
      BY <1>2, <2>2 DEF RequestOK, Ids
    <3>2. transactions[s.req.id] \in Nat
      BY <3>1 DEF AccountsInv, Accounting, TablesOK
    <3> QED
      BY <1>4, <3>2
  <2>4. /\ t.pc = "y_insert" /\ t.req = s.req /\ DOMAIN t.prof = {} /\ DOMAIN t.attr = {} /\ t.grants = {}
        /\ t.rows = {s.req.id}
    BY <1>2 DEF Session
  <2> HIDE DEF t
  <2>5. Recording(t) /\ Queued(t)
    BY <2>3, <2>4 DEF Recording, Queued
  <2>6. Alone(t)
    BY <2>4, <2>5, EmptyAlone
  <2> QED
    BY <1>1, <1>2, <2>1, <2>6, LocalSolo
<1> QED
  BY <1>3, <1>4

-----------------------------------------------------------------------------
(* The job of the only session *)

\* A step of the only busy worker that leaves the tables and the charges alone.
LEMMA JobSolo ==
  ASSUME AccountsInv, Solo, NEW w \in Workers, worker[w].pc # "idle", NEW t, Step(w, t),
         UNCHANGED <<tables, charged, scenario>>, Queue', Alone(t)'
  PROVE  Solo'
<1>1. UNCHANGED <<profiles, attrs, transactions, ledger, charged, scenario>>
  BY DEF tables
<1>2. Shapes' /\ Invites'
  BY <1>1 DEF Solo, Shapes, Invites
<1>3. Wallets'
  BY <1>1 DEF Solo, Wallets, PaidBy
<1>4. \A v \in Workers \ {w} : worker[v] = Idle
  BY OthersIdle DEF Solo
<1> QED
  BY <1>2, <1>3, <1>4, SoloStep DEF Solo, Tallies

\* A session that only moves on along the activation of the job.
LEMMA ActivatingAlone ==
  ASSUME AccountsInv, Solo, NEW w \in Workers, worker[w].pc \in Activating, NEW pc \in Activating,
         UNCHANGED <<tables, scenario>>, NEW t, t = [worker[w] EXCEPT !.pc = pc], Queued(t)'
  PROVE  Alone(t)'
<1> DEFINE s == worker[w]
<1>1. s \in Session /\ Alone(s)
  BY Serving DEF Activating, Solo
<1>2. UNCHANGED <<profiles, attrs, transactions, ledger, scenario>>
  BY DEF tables
<1>3. s.pc \notin {"c_commit", "h_commit", "c_load", "y_insert", "s_commit"} /\ pc \notin {"c_commit", "h_commit", "c_load", "y_insert", "s_commit"}
  BY DEF Activating
<1>4. /\ t.pc = pc /\ t.req = s.req /\ t.user = s.user /\ t.prof = s.prof /\ t.attr = s.attr /\ t.grants = s.grants
      /\ t.rows = s.rows
  BY <1>1 DEF Session
<1>5. Current(t)' /\ Shaped(t)'
  BY <1>1, <1>2, <1>3, <1>4 DEF Alone, Current, Shaped, Renewing
<1>6. Balanced(t)'
  BY <1>1, <1>2, <1>3, <1>4 DEF Alone, Balanced, Change
<1>7. Recording(t)' /\ Unpaid(t)'
  BY <1>1, <1>2, <1>3, <1>4 DEF Alone, Recording, Unpaid
<1>8. Granting(t)'
  BY <1>1, <1>2, <1>4 DEF Alone, Granting
<1> QED
  BY <1>5, <1>6, <1>7, <1>8 DEF Alone

\* Action ActivateCommit.
LEMMA ActivateCommitSolo == ASSUME AccountsInv, Solo, NEW w \in Workers, ActivateCommit(w) PROVE Solo'
<1>1. /\ worker[w].pc = "a_commit" /\ UNCHANGED <<tables, charged, scenario>>
      /\ Goto(w, "a_quota") /\ jobStatus' = "pending" /\ UNCHANGED <<enqueued, threads>>
  BY DEF ActivateCommit, At, countVars
<1> DEFINE s == worker[w]
<1>2. PICK t : t = [s EXCEPT !.pc = "a_quota"]
  OBVIOUS
<1>3. jobStatus = "awaiting_payment" /\ enqueued = 0 /\ threads = 0
  BY <1>1 DEF Solo, Alone, Queued, Queue
<1>4. s \in Session
  BY <1>1, Serving
<1>5. t.pc = "a_quota"
  BY <1>2, <1>4 DEF Session
<1>6. Queued(t)' /\ Queue'
  BY <1>1, <1>3, <1>5 DEF Queued, Queue
<1>7. Alone(t)'
  BY <1>1, <1>2, <1>6, ActivatingAlone DEF Activating
<1> QED
  BY <1>1, <1>2, <1>6, <1>7, JobSolo DEF Goto

\* Action ActivateQuota.
LEMMA ActivateQuotaSolo == ASSUME AccountsInv, Solo, NEW w \in Workers, ActivateQuota(w) PROVE Solo'
<1>1. /\ worker[w].pc = "a_quota" /\ UNCHANGED <<tables, charged, scenario>>
      /\ UNCHANGED <<jobStatus, enqueued, threads>>
  BY DEF ActivateQuota, At, countVars
<1> DEFINE s == worker[w]
<1>2. PICK pc \in {"a_undo", "a_spawn"} : Goto(w, pc)
  BY DEF ActivateQuota
<1>3. PICK t : t = [s EXCEPT !.pc = pc]
  OBVIOUS
<1>4. s \in Session
  BY <1>1, Serving
<1>5. t.pc = pc
  BY <1>3, <1>4 DEF Session
<1>6. Queued(t)' /\ Queue'
  BY <1>1, <1>2, <1>5 DEF Solo, Alone, Queued, Queue
<1>7. Alone(t)'
  BY <1>1, <1>2, <1>3, <1>6, ActivatingAlone DEF Activating
<1> QED
  BY <1>1, <1>2, <1>3, <1>6, <1>7, JobSolo DEF Goto

\* Action ActivateRefused.
LEMMA ActivateRefusedSolo == ASSUME AccountsInv, Solo, NEW w \in Workers, ActivateRefused(w) PROVE Solo'
<1>1. worker[w].pc # "idle" /\ Finish(w) /\ UNCHANGED <<tables, jobStatus, enqueued, threads, countVars>>
  BY DEF ActivateRefused, At
<1> QED
  BY <1>1, FinishSolo

\* Action ActivateSpawn.
LEMMA ActivateSpawnSolo == ASSUME AccountsInv, Solo, NEW w \in Workers, ActivateSpawn(w) PROVE Solo'
<1>1. /\ worker[w].pc = "a_spawn" /\ UNCHANGED <<tables, charged, scenario, jobStatus, enqueued>>
      /\ Step(w, Idle) /\ threads' = threads + 1
  BY DEF ActivateSpawn, At, countVars, Finish
<1>2. enqueued = 0 /\ threads = 0 /\ jobStatus = "pending"
  BY <1>1 DEF Solo, Alone, Queued
<1>3. Queue'
  BY <1>1, <1>2 DEF Queue
<1> QED
  BY <1>1, <1>3, IdleAlone, JobSolo

\* The process of the only session ends.
LEMMA CrashSolo == ASSUME AccountsInv, Solo, NEW w \in Workers, Crash(w) PROVE Solo'
<1>1. /\ worker[w].pc # "idle" /\ UNCHANGED <<tables, charged, scenario, jobStatus, enqueued>>
      /\ Step(w, Idle) /\ threads' = 0
  BY DEF Crash, At, Finish
<1>2. threads \in Nat /\ enqueued \in Nat
  BY DEF AccountsInv, RestOK
<1>3. Queue'
  BY <1>1, <1>2 DEF Solo, Queue
<1> QED
  BY <1>1, <1>3, IdleAlone, JobSolo

\* A step of nobody's: the queue goes on and no session is in the middle of it.
LEMMA OutsideSolo ==
  ASSUME AccountsInv, Solo, UNCHANGED <<tables, jobStatus, worker, charged, scenario>>,
         Queue', UNCHANGED <<enqueued, threads>> \/ threads > 0
  PROVE  Solo'
<1>1. UNCHANGED <<profiles, attrs, transactions, ledger, jobStatus, worker, charged, scenario>>
  BY DEF tables
<1>2. Shapes' /\ Invites' /\ Lone'
  BY <1>1 DEF Solo, Shapes, Invites, Lone, At
<1>3. Wallets'
  BY <1>1 DEF Solo, Wallets, PaidBy
<1>4. \A w \in Workers : Alone(worker[w])'
  <2> SUFFICES ASSUME NEW w \in Workers PROVE Alone(worker[w])'
    OBVIOUS
  <2>1. PICK s : s = worker[w]
    OBVIOUS
  <2>2. Alone(s) /\ worker'[w] = s
    BY <1>1, <2>1 DEF Solo
  <2>3. Current(s)' /\ Shaped(s)' /\ Balanced(s)'
    BY <1>1, <2>2 DEF Alone, Current, Shaped, Balanced
  <2>4. Recording(s)' /\ Granting(s)' /\ Unpaid(s)'
    BY <1>1, <2>2 DEF Alone, Recording, Granting, Unpaid
  <2>5. Queued(s)'
    BY <1>1, <2>2 DEF Alone, Queued
  <2>6. Alone(s)'
    BY <2>3, <2>4, <2>5 DEF Alone
  <2> QED
    BY <2>2, <2>6 DEF Alone, Current, Shaped, Balanced, Recording, Granting, Unpaid, Queued
<1> QED
  BY <1>2, <1>3, <1>4 DEF Solo

\* What happens outside the sessions.
LEMMA EnvironmentSolo == ASSUME AccountsInv, Solo, Environment PROVE Solo'
<1>1. UNCHANGED <<tables, jobStatus, worker, charged, scenario>>
  BY DEF Environment, ThreadEnqueues, ThreadFails, Tick, ConfirmEmail, CreatePaygOrder, CreateYearlyOrder,
         countVars, jobVars
<1>2. threads \in Nat /\ enqueued \in Nat
  BY DEF AccountsInv, RestOK
<1>3. \/ threads > 0 /\ threads' = threads - 1 /\ enqueued' \in {enqueued, enqueued + 1}
      \/ UNCHANGED <<enqueued, threads>>
  BY DEF Environment, ThreadEnqueues, ThreadFails, Tick, ConfirmEmail, CreatePaygOrder, CreateYearlyOrder, jobVars
<1>4. Queue'
  BY <1>1, <1>2, <1>3 DEF Solo, Queue
<1> QED
  BY <1>1, <1>3, <1>4, OutsideSolo

-----------------------------------------------------------------------------
(* Sums of payments *)

\* The total of some payments adds their amounts, in an order of its own.
LEMMA TotalAdds ==
  ASSUME NEW P, IsFiniteSet(P)
  PROVE  \E g : Adds(g, [p \in P |-> p.amount], P) /\ Total(P) = g[P]
<1> DEFINE f == [p \in P |-> p.amount]
           Is(iter) == iter = [s \in SUBSET P |-> IF s = {} THEN 0 ELSE Pick(s).amount + iter[s \ {Pick(s)}]]
<1>1. Total(P) = (CHOOSE iter : Is(iter))[P]
  BY DEF Total, MapThenSumSet, MapThenFoldSet, Pick
<1>2. ASSUME NEW g PROVE Adds(g, f, P) <=> Is(g)
  <2>1. \A s \in SUBSET P : s # {} => f[Pick(s)] = Pick(s).amount
    BY PickIn
  <2>2. [s \in SUBSET P |-> IF s = {} THEN 0 ELSE f[Pick(s)] + g[s \ {Pick(s)}]]
      = [s \in SUBSET P |-> IF s = {} THEN 0 ELSE Pick(s).amount + g[s \ {Pick(s)}]]
    <3> HIDE DEF f
    <3> QED
      BY <2>1
  <2> HIDE DEF f
  <2> QED
    BY <2>2 DEF Adds
<1>3. \E g : Is(g)
  BY <1>2, AddsExists
<1>4. Is(CHOOSE g : Is(g))
  <2> HIDE DEF Is
  <2> QED
    BY <1>3, Zenon
<1> HIDE DEF Is, f
<1> QED
  BY <1>1, <1>2, <1>4 DEF f

\* One payment more adds its amount.
LEMMA TotalOfOneMore ==
  ASSUME NEW P, IsFiniteSet(P), NEW x, x \notin P, \A p \in P \cup {x} : p.amount \in Int
  PROVE  Total(P \cup {x}) = Total(P) + x.amount
<1> DEFINE M == P \cup {x}
           f == [p \in P |-> p.amount]
           e == [p \in M |-> p.amount]
<1>1. IsFiniteSet(M)
  BY FS_AddElement
<1>2. PICK g : Adds(g, f, P) /\ Total(P) = g[P]
  BY TotalAdds
<1>3. PICK h : Adds(h, e, M) /\ Total(M) = h[M]
  BY <1>1, TotalAdds
<1>4. (\A p \in P : e[p] = f[p]) /\ (\A p \in M : e[p] \in Int) /\ e[x] = x.amount
  OBVIOUS
<1> HIDE DEF f, e
<1>5. h[M] = g[P] + e[x]
  BY <1>2, <1>3, <1>4, AddsOneMore
<1> HIDE DEF M
<1> QED
  BY <1>2, <1>3, <1>4, <1>5 DEF M

\* No payments, no money.
LEMMA TotalOfNone == Total({}) = 0
BY TotalAdds, FS_EmptySet DEF Adds

\* A total is a number.
LEMMA TotalType ==
  ASSUME NEW P, IsFiniteSet(P), \A p \in P : p.amount \in Int
  PROVE  Total(P) \in Int
<1>1. PICK g : Adds(g, [p \in P |-> p.amount], P) /\ Total(P) = g[P]
  BY TotalAdds
<1> DEFINE f == [p \in P |-> p.amount]
<1>2. \A p \in P : f[p] \in Int
  OBVIOUS
<1> HIDE DEF f
<1> QED
  BY <1>1, <1>2, AddsAnyOrder DEF f

-----------------------------------------------------------------------------
(* Commits of the only session *)

\* A row that nobody else has written takes every column from the session.
LEMMA FlushOwnRow == ASSUME NEW p \in Row, NEW n \in Row PROVE Flush(p, p, n) = n
BY DEF Flush, Row

\* So does an attribution.
LEMMA FlushOwnAttribution == ASSUME NEW p \in Attribution, NEW n \in Attribution PROVE Flush(p, p, n) = n
BY DEF Flush, Attribution

\* The rows of the only session are the rows of the tables after its commit.
LEMMA SavesItsOwn ==
  ASSUME AccountsInv, Solo, NEW w \in Workers, worker[w].pc # "idle", NEW s, s = worker[w],
         Commit(w, s), ~Conflict(s), NEW u \in Users
  PROVE  /\ u \in DOMAIN s.prof => profiles'[u] = s.prof[u].new /\ s.prof[u].old = profiles[u] /\ s.prof[u].new \in Row
         /\ u \notin DOMAIN s.prof => profiles'[u] = profiles[u]
         /\ u \in DOMAIN s.attr => attrs'[u] = s.attr[u].new /\ s.attr[u].old = attrs[u]
         /\ u \notin DOMAIN s.attr => attrs'[u] = attrs[u]
<1>1. profiles' = Saved(profiles, s.prof) /\ attrs' = Saved(attrs, s.attr)
  BY DEF Commit
<1>2. /\ DOMAIN profiles = Users /\ profiles[u] \in Row /\ DOMAIN attrs = Users /\ attrs[u] \in Attribution
  BY DEF AccountsInv, Accounting, TablesOK
<1>3. Current(s)
  BY DEF Solo, Alone
<1>4. SessionType(s)
  BY Serving
<1>5. ASSUME u \in DOMAIN s.prof
      PROVE  profiles'[u] = s.prof[u].new /\ s.prof[u].old = profiles[u] /\ s.prof[u].new \in Row
  <2>1. s.prof[u].new \in Row /\ s.prof[u].old = profiles[u]
    BY <1>3, <1>4, <1>5, SessionParts DEF Loaded, Current
  <2>2. profiles'[u] = Flush(profiles[u], s.prof[u].old, s.prof[u].new)
    BY <1>1, <1>2, <1>5 DEF Saved
  <2> QED
    BY <1>2, <2>1, <2>2, FlushOwnRow
<1>6. ASSUME u \in DOMAIN s.attr
      PROVE  attrs'[u] = s.attr[u].new /\ s.attr[u].old = attrs[u]
  <2>1. s.attr[u].new \in Attribution /\ s.attr[u].old = attrs[u]
    BY <1>3, <1>4, <1>6, SessionParts DEF Loaded, Current
  <2>2. attrs'[u] = Flush(attrs[u], s.attr[u].old, s.attr[u].new)
    BY <1>1, <1>2, <1>6 DEF Saved
  <2> QED
    BY <1>2, <2>1, <2>2, FlushOwnAttribution
<1>7. u \notin DOMAIN s.prof => profiles'[u] = profiles[u]
  BY <1>1, <1>2 DEF Saved
<1>8. u \notin DOMAIN s.attr => attrs'[u] = attrs[u]
  BY <1>1, <1>2 DEF Saved
<1> QED
  BY <1>5, <1>6, <1>7, <1>8

\* A payment is recorded by the session that has looked it up.
LEMMA RecordsItsPayment ==
  ASSUME AccountsInv, Solo, NEW w \in Workers, worker[w].pc # "idle", NEW s, s = worker[w],
         Commit(w, s), ~Conflict(s), NEW p \in Payments
  PROVE  /\ transactions[p.id] \in Nat /\ transactions[p.id] <= 1
         /\ s.pc \in {"c_commit", "y_insert"} /\ p.id = s.req.id =>
              transactions[p.id] = 0 /\ transactions'[p.id] = 1 /\ PaymentOf(s.req.id) = p
         /\ ~(s.pc \in {"c_commit", "y_insert"} /\ p.id = s.req.id) => transactions'[p.id] = transactions[p.id]
<1>1. p.id \in PaymentIds /\ p.id \in Ids
  BY DEF PaymentIds, Ids
<1>2. DOMAIN transactions = Ids /\ transactions[p.id] \in Nat /\ transactions[p.id] <= 1
  BY <1>1 DEF AccountsInv, Accounting, TablesOK, Solo, Wallets
<1>3. transactions'[p.id] = transactions[p.id] + (IF p.id \in s.rows THEN 1 ELSE 0)
  BY <1>1, <1>2 DEF Commit
<1>4. Recording(s)
  BY DEF Solo, Alone
<1>5. CASE s.pc \in {"c_commit", "y_insert"} /\ p.id = s.req.id
  <2>1. transactions[p.id] = 0 /\ p.id \in s.rows
    BY <1>4, <1>5 DEF Recording
  <2>2. PaymentOf(s.req.id) = p
    BY <1>1, <1>5, PaymentOfType, PaymentsOK
  <2> QED
    BY <1>2, <1>3, <1>5, <2>1, <2>2
<1>6. CASE ~(s.pc \in {"c_commit", "y_insert"} /\ p.id = s.req.id)
  <2>1. p.id \notin s.rows
    BY <1>1, <1>4, <1>6 DEF Recording
  <2> QED
    BY <1>2, <1>3, <1>6, <2>1
<1> QED
  BY <1>5, <1>6

\* What a session adds to the wallet of its user is the payment it records.
LEMMA PaysItsUser ==
  ASSUME AccountsInv, Solo, NEW w \in Workers, worker[w].pc # "idle", NEW s, s = worker[w],
         Commit(w, s), ~Conflict(s), NEW u \in Users
  PROVE  /\ IsFiniteSet(PaidBy(u)') /\ Total(PaidBy(u)) \in Int
         /\ Total(PaidBy(u)') = Total(PaidBy(u)) + (IF u = s.user /\ s.pc = "c_commit" THEN PaymentOf(s.req.id).amount ELSE 0)
<1>1. Stands(s) /\ RequestOK(s.req)
  BY Serving
<1>2. IsFiniteSet(PaidBy(u)) /\ \A p \in PaidBy(u) : p.amount \in Int
  <2>1. IsFiniteSet(PaidBy(u))
    BY DEF Solo, Wallets
  <2>2. \A p \in PaidBy(u) : p.amount \in Int
    BY PaymentsOK DEF PaidBy
  <2> QED
    BY <2>1, <2>2
<1>3. Total(PaidBy(u)) \in Int
  BY <1>2, TotalType
<1>4. CASE u = s.user /\ s.pc = "c_commit"
  <2> DEFINE x == PaymentOf(s.req.id)
  <2>1. s.req.op \in Capturing /\ s.user = UserOf(s.req) /\ s.req \in scenario.requests
    BY <1>1, <1>4 DEF Stands, Serves, Activating, Rewarding
  <2>2. s.req.id \in PaymentIds /\ x.kind = "payg" /\ x.user = u
    BY <1>4, <2>1, CaptureId DEF AccountsInv, RestOK, UserOf, Capturing
  <2>3. x \in Payments /\ x.id = s.req.id
    BY <2>2, PaymentOfType
  <2> HIDE DEF x
  <2>4. transactions[x.id] = 0 /\ transactions'[x.id] = 1
    BY <1>4, <2>3, RecordsItsPayment
  <2>5. \A p \in Payments : p # x => transactions'[p.id] = transactions[p.id]
    BY <2>3, RecordsItsPayment, PaymentsOK
  <2>6. PaidBy(u)' = PaidBy(u) \cup {x} /\ x \notin PaidBy(u)
    BY <2>2, <2>3, <2>4, <2>5 DEF PaidBy
  <2>7. \A p \in PaidBy(u) \cup {x} : p.amount \in Int
    BY <1>2, <2>3, PaymentsOK
  <2>8. Total(PaidBy(u) \cup {x}) = Total(PaidBy(u)) + x.amount
    BY <1>2, <2>6, <2>7, TotalOfOneMore
  <2> QED
    BY <1>2, <1>3, <1>4, <2>6, <2>8, FS_AddElement DEF x
<1>5. CASE ~(u = s.user /\ s.pc = "c_commit")
  <2>1. \A p \in Payments : p.user = u /\ p.kind = "payg" => transactions'[p.id] = transactions[p.id]
    <3> SUFFICES ASSUME NEW p \in Payments, p.user = u, p.kind = "payg", transactions'[p.id] # transactions[p.id]
                 PROVE FALSE
      OBVIOUS
    <3>1. s.pc \in {"c_commit", "y_insert"} /\ p.id = s.req.id /\ PaymentOf(s.req.id) = p
      BY RecordsItsPayment
    <3>2. s.user = UserOf(s.req)
      BY <1>1 DEF Stands
    <3>3. CASE s.pc = "c_commit"
      <4>1. s.req.op \in Capturing
        BY <1>1, <3>3 DEF Stands, Serves, Activating, Rewarding
      <4> QED
        BY <1>5, <3>1, <3>2, <3>3, <4>1 DEF UserOf, Capturing
    <3>4. CASE s.pc = "y_insert"
      <4>1. s.req.op = "yearly"
        BY <1>1, <3>4 DEF Stands, Serves, Activating, Rewarding
      <4>2. PaymentOf(s.req.id).kind = "yearly"
        BY <1>1, <4>1 DEF RequestOK
      <4> QED
        BY <3>1, <4>2
    <3> QED
      BY <3>1, <3>3, <3>4
  <2>2. PaidBy(u)' = PaidBy(u)
    BY <2>1 DEF PaidBy
  <2> QED
    BY <1>2, <1>3, <1>5, <2>2
<1> QED
  BY <1>4, <1>5

\* The wallets add up after a commit.
LEMMA WalletsCommitted ==
  ASSUME AccountsInv, Solo, NEW w \in Workers, worker[w].pc # "idle", NEW s, s = worker[w],
         Commit(w, s), ~Conflict(s), UNCHANGED scenario,
         charged' = IF s.pc = "h_commit" THEN [charged EXCEPT ![s.user] = @ + s.cost] ELSE charged
  PROVE  Wallets'
<1>1. s \in Session /\ s.user \in Users /\ Stands(s) /\ s.cost \in Int /\ RequestOK(s.req)
  BY Serving DEF Session
<1>2. charged \in [Users -> Int]
  BY DEF Solo, Wallets
<1>3. charged' \in [Users -> Int]
  BY <1>1, <1>2
<1>4. \A p \in Payments : transactions'[p.id] <= 1
  BY RecordsItsPayment
<1>5. ASSUME NEW u \in Users
      PROVE  /\ IsFiniteSet(PaidBy(u)') /\ profiles'[u].credits_inr_balance = Total(PaidBy(u)') - charged'[u]
             /\ scenario.checkout => profiles'[u].credits_inr_balance >= 0
  <2> DEFINE b == profiles[u].credits_inr_balance
             gain == IF u = s.user /\ s.pc = "c_commit" THEN PaymentOf(s.req.id).amount ELSE 0
             loss == IF u = s.user /\ s.pc = "h_commit" THEN s.cost ELSE 0
  <2>1. /\ IsFiniteSet(PaidBy(u)') /\ Total(PaidBy(u)) \in Int
        /\ Total(PaidBy(u)') = Total(PaidBy(u)) + gain
    BY PaysItsUser
  <2>2. charged'[u] = charged[u] + loss /\ charged[u] \in Int
    BY <1>1, <1>2
  <2>3. /\ b = Total(PaidBy(u)) - charged[u] /\ b \in Int
        /\ scenario.checkout => b >= 0
    <3>1. profiles[u] \in Row
      BY DEF AccountsInv, Accounting, TablesOK
    <3> QED
      BY <3>1 DEF Solo, Wallets, Row
  <2>4. gain \in Nat /\ loss \in Int /\ (gain = 0 \/ loss = 0)
    <3>1. s.pc = "c_commit" => PaymentOf(s.req.id).amount \in Nat
      <4>1. s.pc = "c_commit" => s.req.op \in Capturing /\ s.req \in scenario.requests
        BY <1>1 DEF Stands, Serves, Activating, Rewarding
      <4> QED
        BY <4>1, CaptureId, PaymentOfType, PaymentsOK DEF AccountsInv, RestOK
    <3> QED
      BY <1>1, <3>1
  <2>5. Balanced(s)
    BY DEF Solo, Alone
  <2>6. profiles'[u].credits_inr_balance = b + (gain - loss)
    <3>1. u = s.user => Change(s) = gain - loss
      BY <1>1, <2>4 DEF Change
    <3>2. u # s.user => gain = 0 /\ loss = 0
      OBVIOUS
    <3> HIDE DEF gain, loss
    <3>3. CASE u \in DOMAIN s.prof
      <4>1. profiles'[u] = s.prof[u].new /\ s.prof[u].old = profiles[u]
        BY <3>3, SavesItsOwn
      <4>2. s.prof[u].new.credits_inr_balance = s.prof[u].old.credits_inr_balance + (IF u = s.user THEN Change(s) ELSE 0)
        BY <2>5, <3>3 DEF Balanced
      <4> QED
        BY <2>3, <2>4, <3>1, <3>2, <4>1, <4>2
    <3>4. CASE u \notin DOMAIN s.prof
      <4>1. profiles'[u] = profiles[u]
        BY <3>4, SavesItsOwn
      <4>2. gain = 0 /\ loss = 0
        BY <2>5, <3>4 DEF Balanced, gain, loss
      <4> QED
        BY <2>3, <4>1, <4>2
    <3> QED
      BY <3>3, <3>4
  <2>7. scenario.checkout => b - loss >= 0
    <3>1. CASE u = s.user /\ s.pc = "h_commit"
      <4>1. scenario.checkout => s.cost <= b
        BY <2>5, <3>1 DEF Balanced
      <4>2. loss = s.cost
        BY <3>1
      <4> HIDE DEF b, loss
      <4> QED
        BY <1>1, <2>3, <4>1, <4>2
    <3>2. CASE ~(u = s.user /\ s.pc = "h_commit")
      BY <2>3, <3>2
    <3> QED
      BY <3>1, <3>2
  <2> HIDE DEF gain, loss, b
  <2> QED
    BY <2>1, <2>2, <2>3, <2>4, <2>6, <2>7
<1> QED
  BY <1>3, <1>4, <1>5 DEF Wallets

\* The rewards of an invitation among some entries, and their credits.
LEMMA RewardsForType ==
  ASSUME NEW L \in SUBSET Entry, IsFiniteSet(L), NEW u
  PROVE  /\ IsFiniteSet(RewardsFor(L, u)) /\ Credits(RewardsFor(L, u)) \in Int
         /\ \A l \in RewardsFor(L, u) : l.credits \in Int
<1> DEFINE R == RewardsFor(L, u)
<1>1. R \subseteq L
  BY DEF RewardsFor
<1>2. \A l \in R : l.credits \in Int
  BY <1>1 DEF Entry
<1>3. IsFiniteSet(R)
  BY <1>1, FS_Subset
<1> HIDE DEF R
<1> QED
  BY <1>2, <1>3, CreditsType DEF R

\* The invitations add up after a commit.
LEMMA InvitesCommitted ==
  ASSUME AccountsInv, Solo, NEW w \in Workers, worker[w].pc # "idle", NEW s, s = worker[w],
         Commit(w, s), ~Conflict(s)
  PROVE  Invites'
<1>1. /\ s.grants \in SUBSET Entry /\ IsFiniteSet(s.grants) /\ ledger \in SUBSET Entry /\ IsFiniteSet(ledger)
  BY Serving, SessionParts DEF AccountsInv, Accounting, TablesOK
<1>2. ledger' = ledger \cup s.grants
  BY DEF Commit
<1>3. Granting(s) /\ Unpaid(s)
  BY DEF Solo, Alone
<1> SUFFICES ASSUME NEW u \in Users
             PROVE  /\ attrs'[u].words = Credits(RewardsFor(ledger', u)) /\ attrs'[u].words <= InviteTotal
                    /\ attrs'[u].status # "completed" => \A l \in ledger' : l.key # PaymentKey(u)
  BY DEF Invites
<1> DEFINE L == RewardsFor(ledger, u)
           M == RewardsFor(s.grants, u)
<1>4. /\ attrs[u].words = Credits(L) /\ attrs[u].words <= InviteTotal
      /\ attrs[u].status # "completed" => \A l \in ledger : l.key # PaymentKey(u)
  BY DEF Solo, Invites
<1>5. Credits(RewardsFor(ledger', u)) = Credits(L) + Credits(M)
  <2>1. RewardsFor(ledger', u) = L \cup M
    BY <1>2 DEF RewardsFor
  <2>2. L \cap M = {}
    BY DEF RewardsFor, Conflict
  <2>3. IsFiniteSet(L) /\ IsFiniteSet(M) /\ \A l \in L \cup M : l.credits \in Int
    BY <1>1, RewardsForType
  <2> HIDE DEF L, M
  <2> QED
    BY <2>1, <2>2, <2>3, CreditsOfBoth
<1>6. Credits(L) \in Int /\ Credits(M) \in Int
  BY <1>1, RewardsForType
<1>7. CASE u \in DOMAIN s.attr
  <2>1. attrs'[u] = s.attr[u].new /\ s.attr[u].old = attrs[u]
    BY <1>7, SavesItsOwn
  <2>2. s.attr[u].new.words = s.attr[u].old.words + Credits(M) /\ s.attr[u].new.words <= InviteTotal
    BY <1>3, <1>7 DEF Granting
  <2>3. s.attr[u].new.status # "completed" => \A l \in ledger \cup s.grants : l.key # PaymentKey(u)
    BY <1>3, <1>7 DEF Unpaid
  <2> HIDE DEF L, M
  <2> QED
    BY <1>2, <1>4, <1>5, <1>6, <2>1, <2>2, <2>3
<1>8. CASE u \notin DOMAIN s.attr
  <2>1. attrs'[u] = attrs[u]
    BY <1>8, SavesItsOwn
  <2>2. M = {} /\ \A l \in s.grants : l.key # PaymentKey(u)
    BY <1>3, <1>8 DEF Granting, RewardsFor, InviteKeys
  <2>3. Credits(M) = 0
    BY <2>2, CreditsOfNone
  <2> HIDE DEF L, M
  <2> QED
    BY <1>2, <1>4, <1>5, <1>6, <2>1, <2>2, <2>3
<1> QED
  BY <1>7, <1>8

\* A session that writes no rewards and no attributions has no conflict.
LEMMA NoConflict ==
  ASSUME AccountsInv, NEW w \in Workers, worker[w].pc # "idle", Conflict(worker[w])
  PROVE  worker[w].pc \in Rewarding \cup {"m_commit"}
<1>1. Stands(worker[w])
  BY Serving
<1> QED
  BY <1>1 DEF Stands, Conflict, Rewarding

\* After a commit of the only session the tables add up.
LEMMA CommitTallies ==
  ASSUME AccountsInv, Solo, NEW w \in Workers, worker[w].pc # "idle", NEW s, s = worker[w], Commit(w, s),
         UNCHANGED <<scenario, jobStatus, enqueued, threads>>,
         charged' = IF s.pc = "h_commit" THEN [charged EXCEPT ![s.user] = @ + s.cost] ELSE charged
  PROVE  Tallies' /\ \A u \in Users : Later(profiles[u], profiles'[u]) \/ Renewing(s, u)
<1>1. CASE Conflict(s)
  <2>1. UNCHANGED tables
    BY <1>1 DEF Commit
  <2>2. s.pc # "h_commit"
    BY <1>1, NoConflict DEF Rewarding
  <2>3. Tallies'
    BY <2>1, <2>2, TalliesStay DEF Solo, Tallies
  <2>4. \A u \in Users : Later(profiles[u], profiles'[u])
    <3> SUFFICES ASSUME NEW u \in Users PROVE Later(profiles[u], profiles'[u])
      OBVIOUS
    <3>1. profiles[u].subscription_expiry \in Int
      BY DEF AccountsInv, Accounting, TablesOK, Row, Times, NoTime
    <3> QED
      BY <2>1, <3>1 DEF Later, tables
  <2> QED
    BY <2>3, <2>4
<1>2. CASE ~Conflict(s)
  <2>1. Wallets' /\ Invites'
    BY <1>2, WalletsCommitted, InvitesCommitted
  <2>2. ASSUME NEW u \in Users
        PROVE  Shape(profiles'[u]) /\ (Later(profiles[u], profiles'[u]) \/ Renewing(s, u))
    <3>1. CASE u \in DOMAIN s.prof
      <4>1. profiles'[u] = s.prof[u].new /\ s.prof[u].old = profiles[u]
        BY <1>2, <3>1, SavesItsOwn
      <4> QED
        BY <3>1, <4>1 DEF Solo, Alone, Shaped
    <3>2. CASE u \notin DOMAIN s.prof
      <4>1. profiles'[u] = profiles[u]
        BY <1>2, <3>2, SavesItsOwn
      <4>2. profiles[u].subscription_expiry \in Int
        BY DEF AccountsInv, Accounting, TablesOK, Row, Times, NoTime
      <4>3. Shape(profiles[u])
        BY DEF Solo, Shapes
      <4> QED
        BY <4>1, <4>2, <4>3 DEF Later
    <3> QED
      BY <3>1, <3>2
  <2>3. Queue'
    BY DEF Solo, Queue
  <2>4. Shapes'
    BY <2>2 DEF Shapes
  <2> QED
    BY <2>1, <2>2, <2>3, <2>4 DEF Tallies
<1> QED
  BY <1>1, <1>2

\* The only session commits and goes on as session t, of which nothing has been said.
LEMMA CommitSolo ==
  ASSUME AccountsInv, Solo, NEW w \in Workers, worker[w].pc # "idle", Commit(w, worker[w]), NEW t, Step(w, t),
         Blank(t), t.pc \in Plain, UNCHANGED <<scenario, jobStatus, enqueued, threads>>,
         charged' = IF worker[w].pc = "h_commit" THEN [charged EXCEPT ![worker[w].user] = @ + worker[w].cost] ELSE charged
  PROVE  Solo'
<1>1. PICK s : s = worker[w]
  OBVIOUS
<1>2. Tallies'
  BY <1>1, CommitTallies
<1>3. Alone(t)'
  BY BlankAlone
<1>4. \A v \in Workers \ {w} : worker[v] = Idle
  BY OthersIdle DEF Solo
<1> QED
  BY <1>2, <1>3, <1>4, SoloStep DEF Solo

\* Actions CreditCommit, SubscriptionCommit and YearlyInsert: the rewards follow in a new session.
LEMMA RewardsFollowSolo ==
  ASSUME AccountsInv, Solo, NEW w \in Workers, CreditCommit(w) \/ SubscriptionCommit(w) \/ YearlyInsert(w)
  PROVE  Solo'
<1>1. /\ worker[w].pc \in {"c_commit", "s_commit", "y_insert"} /\ Commit(w, worker[w]) /\ Step(w, Fresh(w, "r_attr"))
      /\ UNCHANGED <<scenario, jobStatus, enqueued, threads, charged>>
  BY DEF CreditCommit, SubscriptionCommit, YearlyInsert, At, jobVars, countVars
<1>2. Blank(Fresh(w, "r_attr")) /\ Fresh(w, "r_attr").pc \in Plain
  BY <1>1, FreshSession DEF Places, Rewarding, Plain, Activating
<1> QED
  BY <1>1, <1>2, CommitSolo

\* Actions PlainCommit and ClaimCommit: the request is answered.
LEMMA PlainCommitSolo ==
  ASSUME AccountsInv, Solo, NEW w \in Workers, PlainCommit(w) \/ ClaimCommit(w)
  PROVE  Solo'
<1>1. /\ worker[w].pc \in {"x_commit", "m_commit"} /\ Commit(w, worker[w]) /\ Step(w, Idle)
      /\ UNCHANGED <<scenario, jobStatus, enqueued, threads, charged>>
  BY DEF PlainCommit, ClaimCommit, At, jobVars, countVars
<1>2. Blank(Idle) /\ Idle.pc \in Plain
  BY IdleSession DEF Places, Plain, Activating
<1> QED
  BY <1>1, <1>2, CommitSolo

\* Action ChargeCommit.
LEMMA ChargeCommitSolo == ASSUME AccountsInv, Solo, NEW w \in Workers, ChargeCommit(w) PROVE Solo'
<1>1. /\ worker[w].pc = "h_commit" /\ Commit(w, worker[w]) /\ Step(w, Idle)
      /\ UNCHANGED <<scenario, jobStatus, enqueued, threads>>
      /\ charged' = [charged EXCEPT ![worker[w].user] = @ + worker[w].cost]
  BY DEF ChargeCommit, At, jobVars
<1>2. Blank(Idle) /\ Idle.pc \in Plain
  BY IdleSession DEF Places, Plain, Activating
<1> QED
  BY <1>1, <1>2, CommitSolo

\* Action RewardEnd: a commit if anything changed, then the activation or the yearly plan in a new session.
LEMMA RewardEndSolo == ASSUME AccountsInv, Solo, NEW w \in Workers, RewardEnd(w) PROVE Solo'
<1>1. worker[w].pc = "r_end" /\ UNCHANGED <<scenario, jobStatus, enqueued, threads, charged>>
  BY DEF RewardEnd, At, jobVars, countVars
<1> DEFINE s == worker[w]
           next == CASE s.req.op \in {"capture", "delivery"} -> Fresh(w, "a_load")
                     [] s.req.op = "yearly" -> Fresh(w, "y_load")
                     [] OTHER -> Idle
<1>2. next \in {Fresh(w, "a_load"), Fresh(w, "y_load"), Idle}
  OBVIOUS
<1>3. Step(w, next)
  BY DEF RewardEnd
<1> HIDE DEF next
<1>4. Blank(next) /\ next.pc \in Plain
  <2>1. {"a_load", "y_load", "idle"} \subseteq Plain /\ {"a_load", "y_load"} \subseteq Places
    BY DEF Places, Reading, Plain, Activating
  <2>2. Blank(Idle) /\ Idle.pc = "idle"
    BY IdleSession
  <2>3. \A pc \in {"a_load", "y_load"} : Blank(Fresh(w, pc)) /\ Fresh(w, pc).pc = pc
    BY <1>1, <2>1, FreshSession
  <2> QED
    BY <1>2, <2>1, <2>2, <2>3
<1>5. CASE s.changed
  BY <1>1, <1>3, <1>4, <1>5, CommitSolo DEF RewardEnd
<1>6. CASE ~s.changed
  <2>1. UNCHANGED tables
    BY <1>6 DEF RewardEnd
  <2>2. Tallies'
    BY <1>1, <2>1, TalliesStay DEF Solo, Tallies
  <2>3. PICK t : t = next
    OBVIOUS
  <2>4. Alone(t)'
    BY <1>4, <2>3, BlankAlone
  <2>5. \A v \in Workers \ {w} : worker[v] = Idle
    BY <1>1, OthersIdle DEF Solo
  <2> QED
    BY <1>3, <2>2, <2>3, <2>4, <2>5, SoloStep DEF Solo
<1> QED
  BY <1>5, <1>6

-----------------------------------------------------------------------------
(* Rewards in the only session *)

\* A session that neither credits nor records a payment: it may change what is earned, no more.
RewardState(s) ==
  /\ SessionType(s) /\ Current(s) /\ s.rows = {} /\ Granting(s)
  /\ \A u \in DOMAIN s.prof :
       /\ Shape(s.prof[u].new) /\ Later(s.prof[u].old, s.prof[u].new)
       /\ s.prof[u].new.credits_inr_balance = s.prof[u].old.credits_inr_balance

\* The only session in the middle of its rewards, or about to sign its user in.
LEMMA RewardStateOf ==
  ASSUME AccountsInv, Solo, NEW w \in Workers, NEW s, s = worker[w], s.pc \in Rewarding \cup {"g_load"}
  PROVE  /\ RewardState(s) /\ Unpaid(s) /\ Stands(s) /\ s \in Session /\ s.user \in Users
         /\ s.pc # "idle"
<1>1. s.pc # "idle" /\ s.pc \notin {"c_commit", "h_commit", "y_insert", "s_commit"}
  BY DEF Rewarding
<1>2. Stands(s) /\ s \in Session /\ s.user \in Users /\ SessionType(s)
  BY <1>1, Serving
<1>3. Alone(s)
  BY DEF Solo
<1>4. ASSUME NEW u \in DOMAIN s.prof
      PROVE  /\ Shape(s.prof[u].new) /\ Later(s.prof[u].old, s.prof[u].new)
             /\ s.prof[u].new.credits_inr_balance = s.prof[u].old.credits_inr_balance
  <2>1. Shape(s.prof[u].new) /\ Later(s.prof[u].old, s.prof[u].new)
    BY <1>1, <1>3 DEF Alone, Shaped, Renewing
  <2>2. Change(s) = 0
    BY <1>1 DEF Change
  <2>3. s.prof[u].new.credits_inr_balance = s.prof[u].old.credits_inr_balance + 0
    BY <1>3, <2>2 DEF Alone, Balanced
  <2>4. s.prof[u].old.credits_inr_balance \in Int
    <3>1. s.prof[u].old \in Row
      BY <1>2, SessionParts DEF Loaded
    <3> QED
      BY <3>1 DEF Row
  <2> QED
    BY <2>1, <2>3, <2>4
<1>5. s.rows = {}
  BY <1>1, <1>3 DEF Alone, Recording
<1> QED
  BY <1>1, <1>2, <1>3, <1>4, <1>5 DEF Alone, RewardState

\* And the other way round.
LEMMA RewardAlone ==
  ASSUME NEW t, RewardState(t), Unpaid(t), t.pc \in Rewarding
  PROVE  Alone(t)
<1>1. /\ t.pc \notin {"c_load", "c_commit", "h_commit", "y_insert", "s_commit", "a_commit", "a_quota", "a_spawn", "a_undo"}
  BY DEF Rewarding
<1>2. Shaped(t)
  BY DEF RewardState, Shaped
<1>3. Balanced(t)
  <2>1. Change(t) = 0
    BY <1>1 DEF Change
  <2>2. ASSUME NEW u \in DOMAIN t.prof PROVE t.prof[u].old.credits_inr_balance \in Int
    <3>1. t.prof[u].old \in Row
      BY SessionParts DEF RewardState, Loaded
    <3> QED
      BY <3>1 DEF Row
  <2> QED
    BY <1>1, <2>1, <2>2 DEF RewardState, Balanced
<1>4. Recording(t) /\ Queued(t)
  BY <1>1 DEF RewardState, Recording, Queued
<1> QED
  BY <1>2, <1>3, <1>4 DEF RewardState, Alone

\* It moves on.
LEMMA RewardMoved ==
  ASSUME NEW s, RewardState(s), NEW pc \in Places, NEW t, t = [s EXCEPT !.pc = pc]
  PROVE  /\ RewardState(t) /\ t.pc = pc /\ t.user = s.user /\ t.prof = s.prof /\ t.attr = s.attr
         /\ t.grants = s.grants
<1>1. s \in Session
  BY DEF RewardState, SessionType
<1>2. /\ t \in Session /\ t.pc = pc /\ t.user = s.user /\ t.prof = s.prof /\ t.attr = s.attr
      /\ t.grants = s.grants /\ t.rows = s.rows
  BY <1>1 DEF Session
<1>3. SessionType(t) /\ Current(t) /\ Granting(t)
  BY <1>2 DEF RewardState, SessionType, Current, Granting
<1> QED
  BY <1>2, <1>3 DEF RewardState

\* It reads a profile.
LEMMA RewardReadsProfile ==
  ASSUME AccountsInv, Solo, NEW s, RewardState(s), NEW r \in Users, NEW t, ProfRead(s, r, profiles[r], t)
  PROVE  /\ RewardState(t) /\ t.pc = s.pc /\ t.user = s.user /\ t.attr = s.attr /\ t.grants = s.grants
         /\ r \in DOMAIN t.prof
<1> DEFINE m == Load(s.prof, r, profiles[r])
<1>1. s \in Session /\ s.prof \in [DOMAIN s.prof -> Loaded(Row)] /\ DOMAIN s.prof \subseteq Users
  BY SessionParts DEF RewardState
<1>2. profiles[r] \in Row /\ Shape(profiles[r]) /\ Later(profiles[r], profiles[r])
  <2>1. profiles[r] \in Row /\ Shape(profiles[r])
    BY DEF AccountsInv, Accounting, TablesOK, Solo, Shapes
  <2> QED
    BY <2>1 DEF Row, Times, NoTime, Later
<1>3. /\ m \in [DOMAIN s.prof \cup {r} -> Loaded(Row)] /\ DOMAIN m = DOMAIN s.prof \cup {r}
      /\ \A i \in DOMAIN s.prof : m[i] = s.prof[i]
      /\ r \notin DOMAIN s.prof => m[r].old = profiles[r] /\ m[r].new = profiles[r]
  BY <1>1, <1>2 DEF Load, Loaded
<1>4. m \in Maps(Users, Row)
  BY <1>1, <1>3 DEF Maps
<1> HIDE DEF m
<1>5. /\ t \in Session /\ t.pc = s.pc /\ t.user = s.user /\ t.prof = m /\ t.grants = s.grants
      /\ t.attr = s.attr /\ t.rows = s.rows
  BY <1>1, <1>4 DEF Session, ProfRead, m
<1>6. SessionType(t) /\ Granting(t)
  BY <1>5 DEF RewardState, SessionType, Granting
<1>7. ASSUME NEW i \in DOMAIN m
      PROVE  /\ m[i].old = profiles[i] /\ Shape(m[i].new) /\ Later(m[i].old, m[i].new)
             /\ m[i].new.credits_inr_balance = m[i].old.credits_inr_balance
  <2>1. CASE i \in DOMAIN s.prof
    BY <1>3, <2>1 DEF RewardState, Current
  <2>2. CASE i \notin DOMAIN s.prof
    BY <1>2, <1>3, <2>2
  <2> QED
    BY <2>1, <2>2
<1>8. Current(t)
  BY <1>5, <1>7 DEF RewardState, Current
<1> QED
  BY <1>3, <1>5, <1>6, <1>7, <1>8 DEF RewardState

\* It reads the attribution of its user.
LEMMA RewardReadsAttribution ==
  ASSUME AccountsInv, Solo, NEW s, RewardState(s), NEW u \in Users, u = s.user, NEW t, AttrRead(s, u, attrs[u], t)
  PROVE  /\ RewardState(t) /\ t.pc = s.pc /\ t.user = s.user /\ t.prof = s.prof /\ t.grants = s.grants
         /\ DOMAIN t.attr = {u}
         /\ u \in DOMAIN s.attr => t.attr[u] = s.attr[u]
         /\ u \notin DOMAIN s.attr => t.attr[u].new = attrs[u]
<1> DEFINE m == Load(s.attr, u, attrs[u])
<1>1. s \in Session /\ s.attr \in [DOMAIN s.attr -> Loaded(Attribution)] /\ DOMAIN s.attr \subseteq {u}
  BY SessionParts DEF RewardState
<1>2. attrs[u] \in Attribution /\ attrs[u].words <= InviteTotal /\ attrs[u].words \in Nat
  BY DEF AccountsInv, Accounting, TablesOK, Solo, Invites, Attribution
<1>3. /\ m \in [{u} -> Loaded(Attribution)] /\ DOMAIN m = {u}
      /\ u \in DOMAIN s.attr => m[u] = s.attr[u]
      /\ u \notin DOMAIN s.attr => m[u].old = attrs[u] /\ m[u].new = attrs[u]
  BY <1>1, <1>2 DEF Load, Loaded
<1>4. m \in Maps(Users, Attribution)
  BY <1>3 DEF Maps
<1> HIDE DEF m
<1>5. /\ t \in Session /\ t.pc = s.pc /\ t.user = s.user /\ t.prof = s.prof /\ t.grants = s.grants
      /\ t.attr = m /\ t.rows = s.rows
  BY <1>1, <1>4 DEF Session, AttrRead, m
<1>6. SessionType(t) /\ Current(t)
  BY <1>3, <1>5 DEF RewardState, SessionType, Current
<1>7. Granting(t)
  <2>1. CASE u \in DOMAIN s.attr
    <3>1. DOMAIN s.attr = {u}
      BY <1>1, <2>1
    <3> QED
      BY <1>3, <1>5, <2>1, <3>1 DEF RewardState, Granting
  <2>2. CASE u \notin DOMAIN s.attr
    <3>1. RewardsFor(s.grants, u) = {}
      BY <2>2 DEF RewardState, Granting
    <3>2. Credits(RewardsFor(s.grants, u)) = 0
      BY <3>1, CreditsOfNone
    <3>3. DOMAIN s.attr = {}
      BY <1>1, <2>2
    <3> QED
      BY <1>2, <1>3, <1>5, <2>2, <3>2, <3>3 DEF RewardState, Granting
  <2> QED
    BY <2>1, <2>2
<1> QED
  BY <1>3, <1>5, <1>6, <1>7 DEF RewardState

\* It sets the status of the attribution.
LEMMA RewardSetsStatus ==
  ASSUME NEW s, RewardState(s), NEW u \in DOMAIN s.attr, NEW status \in {"verified", "completed"},
         NEW t, t = SetStatus(s, u, status)
  PROVE  /\ RewardState(t) /\ t.pc = s.pc /\ t.user = s.user /\ t.prof = s.prof /\ t.grants = s.grants
         /\ DOMAIN t.attr = DOMAIN s.attr /\ t.attr[u].new.words = s.attr[u].new.words
         /\ t.attr[u].new.status = status /\ t.attr[u].new.referrer = s.attr[u].new.referrer
<1> DEFINE n == [s.attr[u].new EXCEPT !.status = status]
           m == Put(s.attr, u, n)
<1>1. s \in Session /\ s.attr \in [DOMAIN s.attr -> Loaded(Attribution)] /\ DOMAIN s.attr = {u} /\ u \in Users
  <2>1. /\ s \in Session /\ s.attr \in [DOMAIN s.attr -> Loaded(Attribution)] /\ DOMAIN s.attr = {u}
        /\ s.attr \in Maps(Users, Attribution)
    BY SessionParts DEF RewardState, Session
  <2> QED
    BY <2>1 DEF Maps
<1>2. s.attr[u].new \in Attribution /\ s.attr[u].old \in Attribution
  BY <1>1 DEF Loaded
<1>3. n \in Attribution /\ n.words = s.attr[u].new.words /\ n.status = status /\ n.referrer = s.attr[u].new.referrer
  BY <1>2 DEF Attribution
<1> HIDE DEF n
<1>4. m \in [{u} -> Loaded(Attribution)] /\ DOMAIN m = {u} /\ m[u].old = s.attr[u].old /\ m[u].new = n
  BY <1>1, <1>2, <1>3 DEF Put, Loaded
<1>5. m \in Maps(Users, Attribution)
  BY <1>1, <1>4 DEF Maps
<1>6. t = [s EXCEPT !.attr = m, !.changed = TRUE]
  BY DEF SetStatus, n
<1> HIDE DEF m
<1>7. /\ t \in Session /\ t.pc = s.pc /\ t.user = s.user /\ t.prof = s.prof /\ t.grants = s.grants
      /\ t.attr = m /\ t.rows = s.rows
  BY <1>1, <1>5, <1>6 DEF Session
<1>8. SessionType(t) /\ Current(t) /\ Granting(t)
  BY <1>1, <1>3, <1>4, <1>7 DEF RewardState, SessionType, Current, Granting
<1> QED
  BY <1>1, <1>3, <1>4, <1>7, <1>8 DEF RewardState

\* A pending invitation becomes a verified one.
LEMMA RewardVerifies ==
  ASSUME NEW s, RewardState(s), Unpaid(s), NEW u \in DOMAIN s.attr, NEW t, t = Verified(s, u)
  PROVE  /\ RewardState(t) /\ Unpaid(t) /\ t.pc = s.pc /\ t.user = s.user /\ t.grants = s.grants
         /\ DOMAIN t.attr = DOMAIN s.attr /\ t.attr[u].new.referrer = s.attr[u].new.referrer
<1>1. CASE t = s
  BY <1>1
<1>2. CASE t # s
  <2>1. t = SetStatus(s, u, "verified") /\ s.attr[u].new.status # "completed"
    BY <1>2 DEF Verified
  <2>2. /\ RewardState(t) /\ t.pc = s.pc /\ t.user = s.user /\ t.grants = s.grants
        /\ DOMAIN t.attr = DOMAIN s.attr /\ t.attr[u].new.referrer = s.attr[u].new.referrer
    BY <2>1, RewardSetsStatus
  <2>3. DOMAIN s.attr = {u}
    BY DEF RewardState, SessionType
  <2> QED
    BY <2>1, <2>2, <2>3 DEF Unpaid
<1> QED
  BY <1>1, <1>2

\* It gives words to a referrer it has read, no more than the invitation has left.
LEMMA RewardGives ==
  ASSUME AccountsInv, NEW s, RewardState(s), NEW u \in DOMAIN s.attr, NEW r \in DOMAIN s.prof, NEW amount \in Nat,
         NEW key \in InviteKeys(u), \A g \in s.grants : g.key # key, s.attr[u].new.words + amount <= InviteTotal,
         NEW t, t = WordCredit(s, u, r, amount, key)
  PROVE  /\ RewardState(t) /\ t.pc = s.pc /\ t.user = s.user
         /\ DOMAIN t.attr = DOMAIN s.attr /\ t.attr[u].new.status = s.attr[u].new.status
         /\ \A g \in t.grants : g \in s.grants \/ g.key = key
<1> DEFINE earned == s.prof[r].new.referral_words_earned_total
           room   == scenario.maxEarned - earned
           grant  == IF amount <= room THEN amount ELSE room
<1>1. CASE grant <= 0 \/ Recorded(key)
  <2>1. t = s
    BY <1>1 DEF WordCredit
  <2> QED
    BY <2>1
<1>2. CASE ~(grant <= 0 \/ Recorded(key))
  <2>1. t = [s EXCEPT !.grants = @ \cup {[key |-> key, user |-> r, credits |-> grant]},
                      !.prof = Put(@, r, Credited(@[r].new, grant)),
                      !.attr = Put(@, u, Rewarded(@[u].new, grant)),
                      !.changed = TRUE]
    BY <1>2 DEF WordCredit
  <2>2. /\ s \in Session /\ s.prof \in [DOMAIN s.prof -> Loaded(Row)] /\ DOMAIN s.prof \subseteq Users
        /\ s.attr \in [DOMAIN s.attr -> Loaded(Attribution)] /\ DOMAIN s.attr = {u}
        /\ s.grants \in SUBSET Entry /\ IsFiniteSet(s.grants)
    BY SessionParts DEF RewardState
  <2>3. u \in Users
    <3>1. s.attr \in Maps(Users, Attribution)
      BY <2>2 DEF Session
    <3> QED
      BY <3>1 DEF Maps
  <2>4. s.prof[r].new \in Row /\ s.attr[u].new \in Attribution /\ s.attr[u].old \in Attribution
    BY <2>2 DEF Loaded
  <2>5. earned \in Nat /\ scenario.maxEarned \in Nat
    BY <2>4, ScenariosOK DEF Row, AccountsInv, RestOK
  <2>6. grant \in Nat /\ grant <= amount
    <3> DEFINE k == scenario.maxEarned
    <3>1. k \in Nat /\ earned \in Nat /\ grant = (IF amount <= k - earned THEN amount ELSE k - earned) /\ ~(grant <= 0)
      BY <1>2, <2>5
    <3> HIDE DEF k, earned, grant, room
    <3> QED
      BY <3>1
  <2> DEFINE g == [key |-> key, user |-> r, credits |-> grant]
             v == Credited(s.prof[r].new, grant)
             n == Rewarded(s.attr[u].new, grant)
             p == Put(s.prof, r, v)
             a == Put(s.attr, u, n)
             G == s.grants \cup {g}
  <2> HIDE DEF grant, earned, room
  <2>7. key \in Keys
    BY <2>3 DEF InviteKeys, Keys, RewardKeys
  <2>8. g \in Entry /\ g.key = key /\ g.credits = grant
    BY <2>2, <2>6, <2>7 DEF Entry
  <2>9. /\ v \in Row
        /\ Shape(s.prof[r].new) => Shape(v)
        /\ Later(s.prof[r].old, s.prof[r].new) => Later(s.prof[r].old, v)
        /\ v.credits_inr_balance = s.prof[r].new.credits_inr_balance
    <3>1. v \in Row
      BY <2>4, <2>6, CreditedType
    <3>2. /\ v.subscription_active = s.prof[r].new.subscription_active /\ v.plan = s.prof[r].new.plan
          /\ v.subscription_expiry = s.prof[r].new.subscription_expiry
          /\ v.subscription_credits = s.prof[r].new.subscription_credits
          /\ v.subscription_contract_end = s.prof[r].new.subscription_contract_end
          /\ v.credits_inr_balance = s.prof[r].new.credits_inr_balance
      BY <2>4 DEF Credited, Row
    <3> HIDE DEF v
    <3> QED
      BY <3>1, <3>2 DEF Shape, Later
  <2>10. n \in Attribution /\ n.words = s.attr[u].new.words + grant /\ n.status = s.attr[u].new.status
    BY <2>4, <2>6, RewardedType
  <2>11. t = [s EXCEPT !.grants = G, !.prof = p, !.attr = a, !.changed = TRUE]
    BY <2>1
  <2> HIDE DEF g, v, n
  <2>12. /\ p \in [DOMAIN s.prof -> Loaded(Row)] /\ DOMAIN p = DOMAIN s.prof
         /\ \A i \in DOMAIN s.prof : p[i].old = s.prof[i].old
         /\ \A i \in DOMAIN s.prof : i # r => p[i].new = s.prof[i].new
         /\ p[r].new = v
    BY <2>2, <2>9 DEF Put, Loaded
  <2>13. a \in [{u} -> Loaded(Attribution)] /\ DOMAIN a = {u} /\ a[u].old = s.attr[u].old /\ a[u].new = n
    BY <2>2, <2>10 DEF Put, Loaded
  <2>14. p \in Maps(Users, Row) /\ a \in Maps(Users, Attribution) /\ G \in SUBSET Entry /\ IsFiniteSet(G)
    <3>1. p \in Maps(Users, Row) /\ a \in Maps(Users, Attribution)
      BY <2>2, <2>3, <2>12, <2>13 DEF Maps
    <3> QED
      BY <2>2, <2>8, <3>1, FS_AddElement
  <2> HIDE DEF p, a, G
  <2>15. /\ t \in Session /\ t.pc = s.pc /\ t.user = s.user /\ t.prof = p /\ t.grants = G
         /\ t.attr = a /\ t.rows = s.rows
    BY <2>2, <2>11, <2>14 DEF Session
  <2>16. SessionType(t) /\ Current(t)
    BY <2>2, <2>12, <2>13, <2>14, <2>15 DEF RewardState, SessionType, Current
  <2>17. Granting(t)
    <3> DEFINE L == RewardsFor(s.grants, u)
    <3>1. RewardsFor(G, u) = L \cup {g} /\ g \notin L
      BY <2>8 DEF RewardsFor, G
    <3>2. \A v1 \in Users \ {u} : RewardsFor(G, v1) = RewardsFor(s.grants, v1)
      BY <2>8 DEF RewardsFor, G, InviteKeys, VerifyKey, PaymentKey
    <3>3. IsFiniteSet(L) /\ Credits(L) \in Int /\ \A l \in L : l.credits \in Int
      BY <2>2, RewardsForType
    <3> HIDE DEF L
    <3>4. Credits(L \cup {g}) = Credits(L) + grant
      <4>1. \A l \in L \cup {g} : l.credits \in Int
        BY <2>6, <2>8, <3>3
      <4> QED
        BY <2>8, <3>1, <3>3, <4>1, CreditsOfOneMore
    <3>5. s.attr[u].new.words = s.attr[u].old.words + Credits(L)
      BY DEF RewardState, Granting, L
    <3>6. n.words = s.attr[u].old.words + Credits(RewardsFor(G, u)) /\ n.words <= InviteTotal
      <4>1. s.attr[u].old.words \in Nat /\ s.attr[u].new.words \in Nat
        BY <2>4 DEF Attribution
      <4>2. InviteTotal \in Int
        BY ReferralConstants DEF InviteTotal
      <4> QED
        BY <2>6, <2>10, <3>1, <3>3, <3>4, <3>5, <4>1, <4>2
    <3>7. \A v1 \in Users : v1 \notin DOMAIN a => RewardsFor(G, v1) = {}
      BY <2>2, <2>13, <3>2 DEF RewardState, Granting
    <3> QED
      BY <2>13, <2>15, <3>6, <3>7 DEF Granting
  <2>18. ASSUME NEW i \in DOMAIN p
         PROVE  /\ Shape(p[i].new) /\ Later(p[i].old, p[i].new)
                /\ p[i].new.credits_inr_balance = p[i].old.credits_inr_balance
    <3>1. CASE i = r
      BY <2>9, <2>12, <3>1 DEF RewardState
    <3>2. CASE i # r
      BY <2>12, <3>2 DEF RewardState
    <3> QED
      BY <3>1, <3>2
  <2>19. RewardState(t)
    BY <2>15, <2>16, <2>17, <2>18 DEF RewardState
  <2>20. \A x \in G : x \in s.grants \/ x.key = key
    BY <2>8 DEF G
  <2> QED
    BY <2>2, <2>10, <2>13, <2>15, <2>19, <2>20
<1> QED
  BY <1>1, <1>2

\* A rewarding session has moved from s to t, and nothing else has changed.
LEMMA RewardSolo ==
  ASSUME AccountsInv, Solo, NEW w \in Workers, worker[w].pc # "idle", NEW t, Step(w, t),
         RewardState(t), Unpaid(t), t.pc \in Rewarding, UNCHANGED <<tables, jobVars, countVars>>
  PROVE  Solo'
BY RewardAlone, LocalSolo DEF jobVars

\* A pending or verified invitation that is read has not been paid.
LEMMA ReadUnpaid ==
  ASSUME AccountsInv, Solo, NEW s, RewardState(s), Unpaid(s), s.grants = {}, NEW u \in Users, u = s.user,
         NEW t, AttrRead(s, u, attrs[u], t)
  PROVE  Unpaid(t)
<1>1. /\ DOMAIN t.attr = {u} /\ t.grants = {}
      /\ u \in DOMAIN s.attr => t.attr[u] = s.attr[u]
      /\ u \notin DOMAIN s.attr => t.attr[u].new = attrs[u]
  BY RewardReadsAttribution
<1>2. attrs[u].status # "completed" => \A l \in ledger : l.key # PaymentKey(u)
  BY DEF Solo, Invites
<1>3. CASE u \in DOMAIN s.attr
  BY <1>1, <1>3 DEF Unpaid
<1>4. CASE u \notin DOMAIN s.attr
  BY <1>1, <1>2, <1>4 DEF Unpaid
<1> QED
  BY <1>3, <1>4

\* Action SignInLoad.
LEMMA SignInLoadSolo == ASSUME AccountsInv, Solo, NEW w \in Workers, SignInLoad(w) PROVE Solo'
<1>1. PICK s, u, a : s = worker[w] /\ u = s.user /\ a = attrs[u]
  OBVIOUS
<1>2. s.pc = "g_load" /\ UNCHANGED <<tables, jobVars, countVars>>
  BY <1>1 DEF SignInLoad, At
<1>3. RewardState(s) /\ Unpaid(s) /\ Stands(s) /\ s \in Session /\ u \in Users /\ s.pc # "idle"
  BY <1>1, <1>2, RewardStateOf
<1>4. DOMAIN s.attr = {} /\ s.grants = {}
  BY <1>2, <1>3, ReadsNothingYet DEF Reading
<1>5. PICK q : q = [s EXCEPT !.pc = "r_attr"]
  OBVIOUS
<1>6. /\ RewardState(q) /\ q.pc = "r_attr" /\ q.user = u /\ q.prof = s.prof /\ q.attr = s.attr /\ q.grants = {}
  BY <1>1, <1>3, <1>4, <1>5, RewardMoved DEF Places, Rewarding
<1>7. PICK t : ProfRead(q, u, profiles[u], t)
  BY DEF ProfRead
<1>8. t = [s EXCEPT !.pc = "r_attr", !.prof = Load(@, u, profiles[u])]
  BY <1>5, <1>6, <1>7 DEF ProfRead
<1>9. RewardState(t) /\ t.pc = "r_attr" /\ t.user = u /\ DOMAIN t.attr = {} /\ t.grants = {}
  BY <1>3, <1>4, <1>6, <1>7, RewardReadsProfile
<1>10. Unpaid(t) /\ t.pc \in Rewarding
  BY <1>9 DEF Unpaid, Rewarding
<1>11. CASE a.status # "pending"
  <2>1. Step(w, t)
    BY <1>1, <1>8, <1>11 DEF SignInLoad
  <2> QED
    BY <1>1, <1>2, <1>3, <1>9, <1>10, <2>1, RewardSolo
<1>12. CASE a.status = "pending"
  <2>1. PICK y : AttrRead(t, u, attrs[u], y)
    BY DEF AttrRead
  <2>2. /\ RewardState(y) /\ y.pc = "r_attr" /\ y.user = u /\ y.prof = t.prof /\ y.grants = {}
        /\ DOMAIN y.attr = {u} /\ y.attr[u].new = a
    BY <1>1, <1>3, <1>9, <2>1, RewardReadsAttribution
  <2>3. Unpaid(y) /\ y.pc \in Rewarding
    BY <1>3, <1>9, <1>10, <2>1, <2>2, ReadUnpaid DEF Rewarding
  <2>4. CASE ~confirmed[u]
    <3>1. Step(w, y)
      BY <1>1, <1>8, <1>12, <2>1, <2>4 DEF SignInLoad, AttrRead
    <3> QED
      BY <1>1, <1>2, <1>3, <2>2, <2>3, <3>1, RewardSolo
  <2>5. CASE confirmed[u]
    <3>1. PICK z : z = Verified(y, u)
      OBVIOUS
    <3>2. z = SetStatus(y, u, "verified")
      BY <1>12, <2>2, <2>5, <3>1 DEF Verified
    <3>3. RewardState(z) /\ Unpaid(z) /\ z.pc = "r_attr"
      BY <2>2, <2>3, <3>1, RewardVerifies
    <3>4. Step(w, z)
      <4>1. z = [y EXCEPT !.attr = Put(@, u, [a EXCEPT !.status = "verified"]), !.changed = TRUE]
        BY <2>2, <3>2 DEF SetStatus
      <4>2. z = [t EXCEPT !.attr = Put(Load(@, u, a), u, [a EXCEPT !.status = "verified"]), !.changed = TRUE]
        BY <1>1, <2>1, <4>1 DEF AttrRead
      <4> QED
        BY <1>1, <1>8, <1>12, <2>5, <4>2 DEF SignInLoad
    <3> QED
      BY <1>1, <1>2, <1>3, <3>3, <3>4, RewardSolo DEF Rewarding
  <2> QED
    BY <2>4, <2>5
<1> QED
  BY <1>11, <1>12

\* Action RewardLockAttribution.
LEMMA RewardLockAttributionSolo ==
  ASSUME AccountsInv, Solo, NEW w \in Workers, RewardLockAttribution(w)
  PROVE  Solo'
<1>1. PICK s, u : s = worker[w] /\ u = s.user
  OBVIOUS
<1>2. s.pc = "r_attr" /\ UNCHANGED <<tables, jobVars, countVars>>
  BY <1>1 DEF RewardLockAttribution, At
<1>3. RewardState(s) /\ Unpaid(s) /\ Stands(s) /\ s \in Session /\ u \in Users /\ s.pc # "idle"
  BY <1>1, <1>2, RewardStateOf DEF Rewarding
<1>4. s.grants = {}
  BY <1>2, <1>3 DEF Stands, Rewarding
<1>5. CASE attrs[u] = NoAttr
  <2>1. PICK q : q = [s EXCEPT !.pc = "r_end"]
    OBVIOUS
  <2>2. Step(w, q)
    BY <1>1, <1>5, <2>1 DEF RewardLockAttribution, Goto
  <2>3. RewardState(q) /\ q.pc = "r_end" /\ q.attr = s.attr /\ q.grants = s.grants
    BY <1>3, <2>1, RewardMoved DEF Places, Rewarding
  <2>4. Unpaid(q)
    BY <1>3, <2>3 DEF Unpaid
  <2> QED
    BY <1>1, <1>2, <1>3, <2>2, <2>3, <2>4, RewardSolo DEF Rewarding
<1>6. CASE attrs[u] # NoAttr
  <2>1. PICK q : q = [s EXCEPT !.pc = "r_verify"]
    OBVIOUS
  <2>2. RewardState(q) /\ q.pc = "r_verify" /\ q.user = u /\ q.attr = s.attr /\ q.grants = {}
    BY <1>1, <1>3, <1>4, <2>1, RewardMoved DEF Places, Rewarding
  <2>3. Unpaid(q)
    BY <1>3, <1>4, <2>2 DEF Unpaid
  <2>4. PICK x : AttrRead(q, u, attrs[u], x)
    BY DEF AttrRead
  <2>5. RewardState(x) /\ x.pc = "r_verify" /\ x.user = u /\ DOMAIN x.attr = {u}
    BY <1>3, <2>2, <2>4, RewardReadsAttribution
  <2>6. Unpaid(x)
    BY <1>3, <2>2, <2>3, <2>4, ReadUnpaid
  <2>7. PICK t : t = Verified(x, u)
    OBVIOUS
  <2>8. RewardState(t) /\ Unpaid(t) /\ t.pc = "r_verify"
    BY <2>5, <2>6, <2>7, RewardVerifies
  <2>9. Step(w, t)
    BY <1>1, <1>6, <2>1, <2>2, <2>4, <2>7 DEF RewardLockAttribution, AttrRead
  <2> QED
    BY <1>1, <1>2, <1>3, <2>8, <2>9, RewardSolo DEF Rewarding
<1> QED
  BY <1>5, <1>6

\* Action RewardVerify.
LEMMA RewardVerifySolo == ASSUME AccountsInv, Solo, NEW w \in Workers, RewardVerify(w) PROVE Solo'
<1>1. PICK s, u : s = worker[w] /\ u = s.user
  OBVIOUS
<1>2. s.pc = "r_verify" /\ UNCHANGED <<tables, jobVars, countVars>>
  BY <1>1 DEF RewardVerify, At
<1>3. RewardState(s) /\ Unpaid(s) /\ Stands(s) /\ s \in Session /\ u \in Users /\ s.pc # "idle" /\ SessionOK(w, s)
  BY <1>1, <1>2, RewardStateOf DEF Rewarding, AccountsInv
<1>4. s.grants = {} /\ u \in DOMAIN s.attr /\ DOMAIN s.attr = {u} /\ s.attr[u].new.referrer \in Users
  <2>1. s.grants = {} /\ u \in DOMAIN s.attr
    BY <1>1, <1>2, <1>3 DEF Stands, Rewarding
  <2>2. DOMAIN s.attr \subseteq {u}
    BY <1>1, <1>3 DEF RewardState, SessionType
  <2>3. s.attr[u].new.referrer \in Users
    BY <1>3, <2>1 DEF SessionOK, InviteOK
  <2> QED
    BY <2>1, <2>2, <2>3
<1>5. PICK q : q = [s EXCEPT !.pc = "r_pay"]
  OBVIOUS
<1>6. RewardState(q) /\ q.pc = "r_pay" /\ q.user = u /\ q.prof = s.prof /\ q.attr = s.attr /\ q.grants = {}
  BY <1>1, <1>3, <1>4, <1>5, RewardMoved DEF Places, Rewarding
<1>7. Unpaid(q)
  BY <1>3, <1>4, <1>6 DEF Unpaid
<1>8. PICK a, r : a = s.attr[u].new /\ a.referrer = r
  OBVIOUS
<1>9. PICK t : ProfRead(q, r, profiles[r], t)
  BY DEF ProfRead
<1>10. PICK x : x = WordCredit(t, u, r, VerifyReward, VerifyKey(u))
  OBVIOUS
<1>11. \/ Step(w, q)
       \/ /\ a.status = "verified" /\ ~Recorded(VerifyKey(u))
          /\ Step(w, t) \/ Step(w, x)
  BY <1>1, <1>5, <1>6, <1>8, <1>9, <1>10 DEF RewardVerify, ProfRead
<1>12. /\ RewardState(t) /\ t.pc = "r_pay" /\ t.user = u /\ t.attr = s.attr /\ t.grants = {} /\ r \in DOMAIN t.prof
  BY <1>4, <1>6, <1>8, <1>9, RewardReadsProfile
<1>13. Unpaid(t)
  BY <1>6, <1>7, <1>12 DEF Unpaid
<1>14. CASE Step(w, q)
  BY <1>1, <1>2, <1>3, <1>6, <1>7, <1>14, RewardSolo DEF Rewarding
<1>15. CASE Step(w, t)
  BY <1>1, <1>2, <1>3, <1>12, <1>13, <1>15, RewardSolo DEF Rewarding
<1>16. CASE a.status = "verified" /\ ~Recorded(VerifyKey(u)) /\ Step(w, x)
  <2>1. \A l \in ledger : l.key # PaymentKey(u)
    BY <1>3, <1>4, <1>8, <1>16 DEF Unpaid
  <2>2. RewardsFor(ledger, u) = {}
    BY <1>16, <2>1 DEF RewardsFor, InviteKeys, Recorded
  <2>3. a.words = 0
    <3>1. attrs[u].words = 0
      BY <1>3, <2>2, CreditsOfNone DEF Solo, Invites
    <3>2. s.attr[u].old.words = 0
      BY <1>3, <1>4, <3>1 DEF RewardState, Current
    <3>3. RewardsFor(s.grants, u) = {}
      BY <1>4 DEF RewardsFor
    <3> QED
      BY <1>3, <1>4, <1>8, <3>2, <3>3, CreditsOfNone DEF RewardState, Granting
  <2>4. VerifyReward \in Nat /\ t.attr[u].new.words + VerifyReward <= InviteTotal
    BY <1>8, <1>12, <2>3, ReferralConstants DEF InviteTotal
  <2>5. VerifyKey(u) \in InviteKeys(u) /\ VerifyKey(u) # PaymentKey(u)
    BY DEF InviteKeys, VerifyKey, PaymentKey
  <2>6. /\ RewardState(x) /\ x.pc = "r_pay" /\ DOMAIN x.attr = {u}
        /\ \A g \in x.grants : g.key = VerifyKey(u)
    BY <1>4, <1>10, <1>12, <2>4, <2>5, RewardGives
  <2>7. Unpaid(x)
    BY <2>1, <2>5, <2>6 DEF Unpaid
  <2> QED
    BY <1>1, <1>2, <1>3, <1>16, <2>6, <2>7, RewardSolo DEF Rewarding
<1> QED
  BY <1>11, <1>14, <1>15, <1>16

\* Action RewardPayment.
LEMMA RewardPaymentSolo == ASSUME AccountsInv, Solo, NEW w \in Workers, RewardPayment(w) PROVE Solo'
<1>1. PICK z, u : z = worker[w] /\ u = z.user
  OBVIOUS
<1>2. z.pc = "r_pay" /\ UNCHANGED <<tables, jobVars, countVars>>
  BY <1>1 DEF RewardPayment, At
<1>3. RewardState(z) /\ Unpaid(z) /\ Stands(z) /\ z \in Session /\ u \in Users /\ z.pc # "idle" /\ SessionOK(w, z)
  BY <1>1, <1>2, RewardStateOf DEF Rewarding, AccountsInv
<1>4. /\ u \in DOMAIN z.attr /\ DOMAIN z.attr = {u} /\ z.attr[u].new.referrer \in Users
      /\ \A g \in z.grants : g.key # PaymentKey(u)
  <2>1. u \in DOMAIN z.attr
    BY <1>1, <1>2, <1>3 DEF Stands, Rewarding
  <2>2. DOMAIN z.attr \subseteq {u}
    BY <1>1, <1>3 DEF RewardState, SessionType
  <2>3. z.attr[u].new.referrer \in Users
    BY <1>3, <2>1 DEF SessionOK, InviteOK
  <2>4. \A g \in z.grants : g.key # PaymentKey(u)
    BY <1>2, <1>3 DEF Stands
  <2> QED
    BY <2>1, <2>2, <2>3, <2>4
<1>5. PICK q : q = [z EXCEPT !.pc = "r_end"]
  OBVIOUS
<1>6. RewardState(q) /\ q.pc = "r_end" /\ q.user = u /\ q.attr = z.attr /\ q.grants = z.grants
  BY <1>1, <1>3, <1>5, RewardMoved DEF Places, Rewarding
<1>7. PICK p : ProfRead(q, u, profiles[u], p)
  BY DEF ProfRead
<1>8. RewardState(p) /\ p.pc = "r_end" /\ p.user = u /\ p.attr = z.attr /\ p.grants = z.grants
  BY <1>3, <1>6, <1>7, RewardReadsProfile
<1>9. Unpaid(p)
  BY <1>3, <1>8 DEF Unpaid
<1>10. PICK s : s = Verified(p, u)
  OBVIOUS
<1>11. /\ RewardState(s) /\ Unpaid(s) /\ s.pc = "r_end" /\ s.user = u /\ s.grants = z.grants
       /\ DOMAIN s.attr = {u} /\ s.attr[u].new.referrer = z.attr[u].new.referrer
  BY <1>4, <1>8, <1>9, <1>10, RewardVerifies
<1>12. PICK a, r : a = s.attr[u].new /\ a.referrer = r
  OBVIOUS
<1>13. PICK t : ProfRead(s, r, profiles[r], t)
  BY DEF ProfRead
<1>14. PICK x : x = WordCredit(t, u, r, Remainder(a), PaymentKey(u))
  OBVIOUS
<1>15. \/ Step(w, s)
       \/ Step(w, SetStatus(s, u, "completed"))
       \/ Step(w, SetStatus(t, u, "completed"))
       \/ Remainder(a) > 0 /\ Step(w, SetStatus(x, u, "completed"))
  BY <1>1, <1>5, <1>7, <1>10, <1>12, <1>13, <1>14 DEF RewardPayment, ProfRead
<1>16. CASE Step(w, s)
  BY <1>1, <1>2, <1>3, <1>11, <1>16, RewardSolo DEF Rewarding
<1>17. ASSUME NEW v, RewardState(v), v.pc = "r_end", DOMAIN v.attr = {u}, Step(w, SetStatus(v, u, "completed"))
       PROVE  Solo'
  <2>1. PICK y : y = SetStatus(v, u, "completed")
    OBVIOUS
  <2>2. RewardState(y) /\ y.pc = "r_end" /\ DOMAIN y.attr = {u} /\ y.attr[u].new.status = "completed"
    BY <1>17, <2>1, RewardSetsStatus
  <2>3. Unpaid(y)
    BY <2>2 DEF Unpaid
  <2> QED
    BY <1>1, <1>2, <1>3, <1>17, <2>1, <2>2, <2>3, RewardSolo DEF Rewarding
<1>18. /\ RewardState(t) /\ t.pc = "r_end" /\ t.user = u /\ t.attr = s.attr /\ t.grants = z.grants
       /\ r \in DOMAIN t.prof
  BY <1>4, <1>11, <1>12, <1>13, RewardReadsProfile
<1>19. CASE Remainder(a) > 0 /\ Step(w, SetStatus(x, u, "completed"))
  <2>1. a.words \in Nat /\ a.words <= InviteTotal
    <3>1. s.attr \in [DOMAIN s.attr -> Loaded(Attribution)]
      BY <1>11, SessionParts DEF RewardState
    <3>2. a \in Attribution
      BY <1>11, <1>12, <3>1 DEF Loaded
    <3> QED
      BY <1>11, <1>12, <3>2 DEF Attribution, RewardState, Granting
  <2>2. Remainder(a) \in Nat /\ a.words + Remainder(a) <= InviteTotal
    BY <1>19, <2>1, ReferralConstants DEF Remainder, InviteTotal
  <2>3. PaymentKey(u) \in InviteKeys(u)
    BY DEF InviteKeys
  <2>4. RewardState(x) /\ x.pc = "r_end" /\ DOMAIN x.attr = {u}
    BY <1>4, <1>11, <1>12, <1>14, <1>18, <2>2, <2>3, RewardGives
  <2> QED
    BY <1>17, <1>19, <2>4
<1> QED
  BY <1>11, <1>15, <1>16, <1>17, <1>18, <1>19

\* Action ClaimCheck: a new invitation has no words, and the signup bonus is not a reward for it.
LEMMA ClaimCheckSolo == ASSUME AccountsInv, Solo, NEW w \in Workers, ClaimCheck(w) PROVE Solo'
<1>1. PICK s, u, r : s = worker[w] /\ u = s.user /\ r = s.req
  OBVIOUS
<1>2. s.pc = "m_check" /\ UNCHANGED <<tables, jobVars, countVars>>
  BY <1>1 DEF ClaimCheck, At
<1>3. /\ Stands(s) /\ s \in Session /\ u \in Users /\ RequestOK(r) /\ s.pc # "idle"
      /\ DOMAIN s.prof = {} /\ DOMAIN s.attr = {} /\ s.grants = {} /\ s.rows = {}
      /\ r \in scenario.requests /\ profiles[u] \in Row /\ Shape(profiles[u])
      /\ profiles[u].subscription_expiry \in Int /\ profiles[u].credits_inr_balance \in Int
  BY <1>1, <1>2, ServingAlone DEF Reading
<1>4. CASE Finish(w)
  BY <1>1, <1>2, <1>3, <1>4, FinishSolo DEF jobVars
<1>5. CASE ~Finish(w)
  <2> DEFINE a == [status |-> "pending", words |-> 0, referrer |-> r.referrer, device |-> r.device]
             v == [profiles[u] EXCEPT !.referred_by_user_id = r.referrer, !.free_credits = @ + SignupBonus]
             G == IF SignupBonus > 0 THEN {[key |-> BonusKey(u), user |-> u, credits |-> SignupBonus]} ELSE {}
             m == Put(Load(s.prof, u, profiles[u]), u, v)
             n == Put(Load(s.attr, u, NoAttr), u, a)
             t == [s EXCEPT !.pc = "m_commit", !.prof = m, !.attr = n, !.grants = G]
  <2>1. Step(w, t) /\ attrs[u] = NoAttr
    BY <1>1, <1>5 DEF ClaimCheck
  <2>2. /\ v.subscription_active = profiles[u].subscription_active /\ v.plan = profiles[u].plan
        /\ v.subscription_expiry = profiles[u].subscription_expiry
        /\ v.subscription_credits = profiles[u].subscription_credits
        /\ v.subscription_contract_end = profiles[u].subscription_contract_end
        /\ v.credits_inr_balance = profiles[u].credits_inr_balance
    BY <1>3 DEF Row
  <2>3. \A g \in G : g.key = BonusKey(u)
    OBVIOUS
  <2>4. a.words = 0
    OBVIOUS
  <2>5. m = [i \in {u} |-> [old |-> profiles[u], new |-> v]]
    <3> HIDE DEF v
    <3> QED
      BY <1>3 DEF Put, Load
  <2>6. n = [i \in {u} |-> [old |-> NoAttr, new |-> a]]
    <3> HIDE DEF a
    <3> QED
      BY <1>3 DEF Put, Load
  <2> HIDE DEF a, v, G, m, n
  <2>7. /\ DOMAIN m = {u} /\ m[u].old = profiles[u] /\ m[u].new = v
        /\ DOMAIN n = {u} /\ n[u].old = NoAttr /\ n[u].new = a
    BY <2>5, <2>6
  <2>8. t.pc = "m_commit" /\ t.user = u /\ t.prof = m /\ t.attr = n /\ t.grants = G /\ t.rows = {}
    BY <1>1, <1>3 DEF Session
  <2> HIDE DEF t
  <2>9. Current(t)
    BY <2>1, <2>7, <2>8 DEF Current
  <2>10. Shape(v) /\ Later(profiles[u], v)
    BY <1>3, <2>2 DEF Shape, Later
  <2>11. Shaped(t) /\ Recording(t) /\ Queued(t)
    BY <2>7, <2>8, <2>10 DEF Shaped, Recording, Queued
  <2>12. Balanced(t)
    <3>1. Change(t) = 0
      BY <2>8 DEF Change
    <3> QED
      BY <1>3, <2>2, <2>7, <2>8, <3>1 DEF Balanced
  <2>13. \A i \in Users : RewardsFor(G, i) = {}
    BY <2>3 DEF RewardsFor, InviteKeys, BonusKey, VerifyKey, PaymentKey
  <2>14. Granting(t)
    <3>1. NoAttr.words = 0 /\ InviteTotal >= 0
      BY NoAttrWords, ReferralConstants DEF InviteTotal
    <3>2. Credits(RewardsFor(G, u)) = 0
      BY <1>3, <2>13, CreditsOfNone
    <3> QED
      BY <2>4, <2>7, <2>8, <2>13, <3>1, <3>2 DEF Granting
  <2>15. Unpaid(t)
    <3>1. \A l \in ledger : l.key # PaymentKey(u)
      BY <1>3, <2>1, NoAttrWords DEF Solo, Invites
    <3>2. \A g \in G : g.key # PaymentKey(u)
      BY <2>3 DEF BonusKey, PaymentKey
    <3> QED
      BY <2>7, <2>8, <3>1, <3>2 DEF Unpaid
  <2>16. Alone(t)
    BY <2>9, <2>11, <2>12, <2>14, <2>15 DEF Alone
  <2> QED
    BY <1>1, <1>2, <1>3, <2>1, <2>16, LocalSolo DEF jobVars
<1> QED
  BY <1>4, <1>5

-----------------------------------------------------------------------------
(* Theorems about requests that do not overlap *)

\* Nobody is busy at first, and the tables add up.
LEMMA InitSolo == Init => Solo
<1> SUFFICES ASSUME Init PROVE Solo
  OBVIOUS
<1>1. AccountsInv
  BY InitEstablishes
<1>2. \A w \in Workers : worker[w] = Idle
  BY DEF Init
<1>3. Lone /\ \A w \in Workers : Alone(worker[w])
  BY <1>2, IdleSession, IdleAlone DEF Lone, At
<1>4. Queue
  BY DEF Init, Queue
<1>5. \A u \in Users : /\ profiles[u].credits_inr_balance = 0 /\ ~profiles[u].subscription_active
                       /\ profiles[u].plan = "free" /\ profiles[u].subscription_credits = 0
  BY DEF Init, NewProfile
<1>6. Shapes
  BY <1>5 DEF Shapes, Shape, PaidPlans
<1>7. Wallets
  <2>1. charged = [u \in Users |-> 0] /\ \A p \in Payments : transactions[p.id] = 0
    BY DEF Init, PaymentIds
  <2>2. \A u \in Users : PaidBy(u) = {}
    BY <2>1 DEF PaidBy
  <2>3. IsFiniteSet({}) /\ Total({}) = 0
    BY TotalOfNone, FS_EmptySet
  <2>4. ASSUME NEW u \in Users
        PROVE  /\ IsFiniteSet(PaidBy(u)) /\ profiles[u].credits_inr_balance = Total(PaidBy(u)) - charged[u]
               /\ profiles[u].credits_inr_balance >= 0
    <3>1. PaidBy(u) = {} /\ charged[u] = 0 /\ profiles[u].credits_inr_balance = 0
      BY <1>5, <2>1, <2>2
    <3> QED
      BY <2>3, <3>1
  <2> QED
    BY <2>1, <2>4 DEF Wallets
<1>8. Invites
  <2>1. ledger = {} /\ \A u \in Users : attrs[u].words = 0
    BY ScenariosOK DEF Init
  <2>2. \A u \in Users : RewardsFor(ledger, u) = {}
    BY <2>1 DEF RewardsFor
  <2>3. InviteTotal >= 0
    BY ReferralConstants DEF InviteTotal
  <2> QED
    BY <2>1, <2>2, <2>3, CreditsOfNone DEF Invites
<1> QED
  BY <1>3, <1>4, <1>6, <1>7, <1>8 DEF Solo

\* Every other step of a worker.
LEMMA ServeSolo == ASSUME AccountsInv, Solo, NEW w \in Workers, Serve(w) PROVE Solo'
BY AcknowledgeSolo, CreditLookupSolo, CreditLoadSolo, RewardsFollowSolo, ActivateLoadSolo, ActivateCommitSolo,
   ActivateQuotaSolo, ActivateRefusedSolo, ActivateSpawnSolo, EventLookupSolo, EventLoadSolo, CancelLoadSolo,
   CreateLoadSolo, PlainCommitSolo, SyncLoadSolo, YearlyLookupSolo, YearlyLoadSolo, SignInLoadSolo,
   RewardLockAttributionSolo, RewardVerifySolo, RewardPaymentSolo, RewardEndSolo, ClaimCheckSolo, ChargeLoadSolo,
   ChargeCommitSolo
   DEF Serve

\* A worker's step commits its session, or leaves the tables as they are.
Commits(w) ==
  /\ worker[w].pc # "idle" /\ Commit(w, worker[w])
  /\ UNCHANGED <<scenario, jobStatus, enqueued, threads>>
  /\ charged' = IF worker[w].pc = "h_commit" THEN [charged EXCEPT ![worker[w].user] = @ + worker[w].cost] ELSE charged

\* A step that does not take up a request says nothing of overlaps; only a session's end writes.
LEMMA ServeWrites ==
  ASSUME NEW w \in Workers, Serve(w)
  PROVE  raced' = raced /\ (UNCHANGED profiles \/ Commits(w))
<1>1. CASE CreditCommit(w) \/ SubscriptionCommit(w) \/ YearlyInsert(w) \/ PlainCommit(w) \/ ClaimCommit(w)
  BY <1>1 DEF CreditCommit, SubscriptionCommit, YearlyInsert, PlainCommit, ClaimCommit, Commits, At, jobVars, countVars
<1>2. CASE ChargeCommit(w)
  BY <1>2 DEF ChargeCommit, Commits, At, jobVars
<1>3. CASE RewardEnd(w)
  BY <1>3 DEF RewardEnd, Commits, At, jobVars, countVars, tables
<1>4. CASE Acknowledge(w) \/ CreditLookup(w) \/ CreditLoad(w) \/ ActivateLoad(w)
  BY <1>4 DEF Acknowledge, CreditLookup, CreditLoad, ActivateLoad, countVars, tables
<1>5. CASE ActivateCommit(w) \/ ActivateQuota(w) \/ ActivateRefused(w) \/ ActivateSpawn(w)
  BY <1>5 DEF ActivateCommit, ActivateQuota, ActivateRefused, ActivateSpawn, countVars, tables
<1>6. CASE EventLookup(w) \/ EventLoad(w) \/ CancelLoad(w) \/ CreateLoad(w) \/ SyncLoad(w)
  BY <1>6 DEF EventLookup, EventLoad, CancelLoad, CreateLoad, SyncLoad, countVars, tables
<1>7. CASE YearlyLookup(w) \/ YearlyLoad(w) \/ ClaimCheck(w) \/ ChargeLoad(w) \/ SignInLoad(w)
  BY <1>7 DEF YearlyLookup, YearlyLoad, ClaimCheck, ChargeLoad, SignInLoad, countVars, tables
<1>8. CASE RewardLockAttribution(w) \/ RewardVerify(w) \/ RewardPayment(w)
  BY <1>8 DEF RewardLockAttribution, RewardVerify, RewardPayment, countVars, tables
<1> QED
  BY <1>1, <1>2, <1>3, <1>4, <1>5, <1>6, <1>7, <1>8 DEF Serve

\* Taking up a request writes nothing, and requests that have overlapped have overlapped.
LEMMA AcceptWrites ==
  ASSUME NEW w \in Workers, scenario \in Scenarios, Accept(w)
  PROVE  UNCHANGED profiles /\ (raced => raced')
<1>1. PICK r \in scenario.requests, pc \in Reading : Begin(w, r, pc, UserOf(r))
  BY Accepted DEF TakesUp
<1> QED
  BY <1>1 DEF Begin, tables

\* Nor does anything that happens outside the sessions.
LEMMA EnvironmentWrites ==
  ASSUME Environment
  PROVE  UNCHANGED profiles /\ raced' = raced
BY DEF Environment, ThreadEnqueues, ThreadFails, Tick, ConfirmEmail, CreatePaygOrder, CreateYearlyOrder, countVars, tables

\* What a step may write, and that an overlap is not forgotten.
LEMMA NextWrites ==
  ASSUME AccountsInv, Next
  PROVE  (raced => raced') /\ (UNCHANGED profiles \/ \E w \in Workers : Commits(w))
<1>1. ASSUME NEW w \in Workers, Accept(w) \/ Serve(w) \/ Crash(w)
      PROVE  (raced => raced') /\ (UNCHANGED profiles \/ Commits(w))
  <2>1. CASE Accept(w)
    BY <2>1, AcceptWrites DEF AccountsInv, RestOK
  <2>2. CASE Serve(w)
    BY <2>2, ServeWrites
  <2>3. CASE Crash(w)
    BY <2>3 DEF Crash, tables
  <2> QED
    BY <1>1, <2>1, <2>2, <2>3
<1>2. ASSUME Environment PROVE (raced => raced') /\ UNCHANGED profiles
  BY <1>2, EnvironmentWrites
<1> QED
  BY <1>1, <1>2 DEF Next, Environment

\* While nothing happens, nothing changes.
LEMMA StutterSolo == Solo /\ UNCHANGED vars => Solo'
<1> SUFFICES ASSUME Solo, UNCHANGED vars PROVE Solo'
  OBVIOUS
<1>1. UNCHANGED <<profiles, transactions, attrs, ledger, jobStatus, enqueued, threads, worker, charged, scenario>>
  BY DEF vars, tables, jobVars, countVars
<1>2. Lone' /\ Queue' /\ Shapes' /\ Invites'
  BY <1>1 DEF Solo, Lone, At, Queue, Shapes, Invites
<1>3. Wallets'
  BY <1>1 DEF Solo, Wallets, PaidBy
<1>4. \A w \in Workers : Alone(worker[w])'
  <2> SUFFICES ASSUME NEW w \in Workers PROVE Alone(worker[w])'
    OBVIOUS
  <2>1. PICK s : s = worker[w]
    OBVIOUS
  <2>2. Alone(s) /\ worker'[w] = s
    BY <1>1, <2>1 DEF Solo
  <2>3. Alone(s)'
    BY <1>1, <2>2, FrameAlone DEF tables
  <2> QED
    BY <2>2, <2>3 DEF Alone, Current, Shaped, Balanced, Recording, Granting, Unpaid, Queued
<1> QED
  BY <1>2, <1>3, <1>4 DEF Solo

\* The invariant of requests that do not overlap, after every step.
LEMMA SoloKeeps == SoloInv /\ [Next]_vars => SoloInv'
<1> SUFFICES ASSUME SoloInv, [Next]_vars, ~raced' PROVE Solo'
  BY StepKeeps DEF SoloInv
<1>1. CASE UNCHANGED vars
  <2>1. raced' = raced
    BY <1>1 DEF vars, countVars
  <2> QED
    BY <1>1, <2>1, StutterSolo DEF SoloInv
<1>2. CASE Next
  <2>1. Solo
    BY <1>2, NextWrites DEF SoloInv
  <2>2. ASSUME NEW w \in Workers, Accept(w) \/ Serve(w) \/ Crash(w) PROVE Solo'
    BY <2>1, <2>2, AcceptSolo, ServeSolo, CrashSolo DEF SoloInv
  <2>3. ASSUME Environment PROVE Solo'
    BY <2>1, <2>3, EnvironmentSolo DEF SoloInv
  <2> QED
    BY <1>2, <2>2, <2>3 DEF Next, Environment
<1> QED
  BY <1>1, <1>2

\* So it always holds.
LEMMA SoloInvariant == Spec => []SoloInv
<1>1. Init => SoloInv
  BY InitEstablishes, InitSolo DEF SoloInv
<1> QED
  BY <1>1, SoloKeeps, PTL DEF Spec

\* While no two requests overlap, a payment that the client verifies and the webhook
\* delivers, again and with crashes between, enqueues its job once.
THEOREM JobsQueueOnce == Spec => []JobQueuedOnce
<1>1. SoloInv => JobQueuedOnce
  BY DEF SoloInv, Solo, Queue, JobQueuedOnce
<1> QED
  BY <1>1, SoloInvariant, PTL

\* While no two requests overlap, the wallet is every recorded payment, once, less what was
\* charged, for any payments, prices and charges, and never negative where charges are covered.
THEOREM WalletsAreExplained == Spec => []WalletExplained
<1>1. SoloInv => WalletExplained
  BY DEF SoloInv, Solo, Wallets, WalletExplained
<1> QED
  BY <1>1, SoloInvariant, PTL

\* While no two requests overlap, an invitation pays at most its two rewards together, and
\* the attribution shows what the ledger shows.
THEOREM InvitesPayTheirTotal == Spec => []InvitePaysItsTotal
<1>1. SoloInv => InvitePaysItsTotal
  BY DEF SoloInv, Solo, Invites, RewardsFor, InviteKeys, InvitePaysItsTotal
<1> QED
  BY <1>1, SoloInvariant, PTL

\* While no two requests overlap, whatever order the events of subscriptions come in, the
\* plan, the pool and the dates of a profile fit together.
THEOREM SubscriptionsKeepShape == Spec => []SubscriptionShape
<1>1. SoloInv => SubscriptionShape
  BY DEF SoloInv, Solo, Shapes, Shape, SubscriptionShape
<1> QED
  BY <1>1, SoloInvariant, PTL

\* A step of requests that do not overlap shortens no period, but for a renewal without an end.
LEMMA PeriodStep ==
  ASSUME SoloInv, [Next]_vars, ~raced', NEW u \in Users
  PROVE  \/ profiles'[u].subscription_expiry >= profiles[u].subscription_expiry
         \/ \E w \in Workers : worker[w].user = u /\ At(w, "s_commit") /\ worker[w].end = NoTime
<1>1. CASE UNCHANGED profiles
  <2>1. profiles[u].subscription_expiry \in Int
    BY DEF SoloInv, AccountsInv, Accounting, TablesOK, Row, Times, NoTime
  <2> QED
    BY <1>1, <2>1
<1>2. CASE ~UNCHANGED profiles
  <2>1. Next
    BY <1>2 DEF vars, tables
  <2>2. PICK w \in Workers : Commits(w)
    BY <1>2, <2>1, NextWrites DEF SoloInv
  <2>3. Solo
    BY <2>1, NextWrites DEF SoloInv
  <2>4. PICK s : s = worker[w]
    OBVIOUS
  <2>5. Later(profiles[u], profiles'[u]) \/ Renewing(s, u)
    BY <2>2, <2>3, <2>4, CommitTallies DEF SoloInv, Commits
  <2> QED
    BY <2>4, <2>5 DEF Later, Renewing, At
<1> QED
  BY <1>1, <1>2

\* While no two requests overlap, an event that comes late, again or out of order never
\* shortens the period of an active subscription.
THEOREM PeriodsNeverShrink == Spec => PeriodNeverShrinks
<1> DEFINE A == \A u \in Users :
             (~raced' /\ profiles[u].subscription_active /\ profiles'[u].subscription_active)
               => \/ profiles'[u].subscription_expiry >= profiles[u].subscription_expiry
                  \/ \E w \in Workers : worker[w].user = u /\ At(w, "s_commit") /\ worker[w].end = NoTime
<1>1. SoloInv /\ [Next]_vars => [A]_vars
  BY PeriodStep
<1> QED
  BY <1>1, SoloInvariant, PTL DEF Spec, PeriodNeverShrinks
=============================================================================
