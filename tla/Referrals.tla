------------------------------ MODULE Referrals ------------------------------
(***************************************************************************)
(* app/services/referrals.py and app/services/referral_lifecycle.py: an    *)
(* invited user (the referee) claims a code and gets a signup bonus; the   *)
(* inviting user (the referrer) earns words when the referee confirms the  *)
(* email address and again when the referee first pays.                    *)
(***************************************************************************)
EXTENDS AccountSession

CONSTANTS
  SignupBonus,      \* referral_referee_signup_bonus_words
  VerifyReward,     \* referral_referrer_verify_reward_words
  PaymentReward,    \* referral_referrer_first_payment_reward_words
  MaxRewarded       \* referral_max_rewarded_referrals

ASSUME ReferralConstants ==
  {SignupBonus, VerifyReward, PaymentReward, MaxRewarded} \subseteq Nat

InviteTotal == VerifyReward + PaymentReward

VerifyKey(u)  == <<"referrer_reward_verify", u>>
PaymentKey(u) == <<"referrer_reward_payment", u>>
BonusKey(u)   == <<"referee_signup_bonus", u>>
Recorded(key) == \E l \in ledger : l.key = key

-----------------------------------------------------------------------------
(* claim_referral *)

ClaimReferral(w) == \E r \in Asked("claim") : Begin(w, r, "m_check", r.user)

DeviceUsed(device, u) == device # None /\ \E v \in Users \ {u} : attrs[v].device = device

ClaimCheck(w) ==
  LET u == worker[w].user
      r == worker[w].req
      refused == \/ attrs[u] # NoAttr
                 \/ profiles[u].referred_by_user_id # Nobody
                 \/ r.referrer = u
                 \/ DeviceUsed(r.device, u)
      attr == [status |-> "pending", words |-> 0, referrer |-> r.referrer, device |-> r.device]
      row  == [profiles[u] EXCEPT !.referred_by_user_id = r.referrer, !.free_credits = @ + SignupBonus]
  IN  /\ At(w, "m_check")
      /\ IF refused THEN Finish(w)
         ELSE /\ Step(w, [worker[w] EXCEPT
                   !.pc = "m_commit",
                   !.prof = Put(Load(@, u, profiles[u]), u, row),
                   !.attr = Put(Load(@, u, NoAttr), u, attr),
                   !.grants = IF SignupBonus > 0 THEN {[key |-> BonusKey(u), user |-> u, credits |-> SignupBonus]}
                              ELSE {}])
              /\ UNCHANGED lockVars
      /\ UNCHANGED <<tables, jobVars, outsideVars, countVars>>

ClaimCommit(w) ==
  /\ At(w, "m_commit")
  /\ Commit(w, worker[w]) /\ Step(w, Idle)
  /\ UNCHANGED <<jobVars, outsideVars, countVars>>

-----------------------------------------------------------------------------
(* Rewards of the referrer, in the session of whoever calls *)

\* resolve_auth_profile: every signed-in call begins with it.
SignIn(w) == \E r \in Asked("signin") : Begin(w, r, "g_load", r.user)

\* advance_referee_referral_to_verified at sign-in: the row is read without a lock.
SignInLoad(w) ==
  LET u == worker[w].user
      s == [worker[w] EXCEPT !.pc = "r_attr", !.prof = Load(@, u, profiles[u])]
      a == attrs[u]
  IN  /\ At(w, "g_load")
      /\ IF a.status # "pending" THEN Step(w, s)
         ELSE IF ~confirmed[u] THEN Step(w, [s EXCEPT !.attr = Load(@, u, a)])
         ELSE Step(w, [s EXCEPT !.attr = Put(Load(@, u, a), u, [a EXCEPT !.status = "verified"]),
                                !.changed = TRUE])
      /\ UNCHANGED <<tables, jobVars, lockVars, outsideVars, countVars>>

SetStatus(s, u, status) == [s EXCEPT !.attr = Put(@, u, [@[u].new EXCEPT !.status = status]),
                                     !.changed = TRUE]
Verified(s, u) == IF s.attr[u].new.status = "pending" /\ confirmed[u]
                  THEN SetStatus(s, u, "verified") ELSE s

\* SELECT ... FOR UPDATE of the referee's attribution.
RewardLockAttribution(w) ==
  LET u == worker[w].user
  IN  /\ At(w, "r_attr")
      /\ IF attrs[u] = NoAttr THEN Goto(w, "r_end") /\ UNCHANGED attrLock
         ELSE /\ Free(attrLock, u, w)
              /\ attrLock' = [attrLock EXCEPT ![u] = w]
              /\ Step(w, Verified([worker[w] EXCEPT !.pc = "r_verify", !.attr = Load(@, u, attrs[u])], u))
      /\ UNCHANGED <<tables, jobVars, rowLock, outsideVars, countVars>>

\* _count_referrer_started_rewards and _count_referrer_paid_completions.
StartedRewards(r)   == Cardinality({u \in Users : attrs[u].referrer = r /\ attrs[u].words > 0})
CompletedRewards(r) == Cardinality({u \in Users : /\ attrs[u].referrer = r /\ attrs[u].words > 0
                                                  /\ attrs[u].status = "completed"})

\* _apply_referrer_word_credit, in session s.
Credited(p, words) == [p EXCEPT !.referral_bonus_words = @ + words, !.referral_words_earned_total = @ + words]
Rewarded(a, words) == [a EXCEPT !.words = @ + words]

WordCreditUncapped(s, u, r, amount, key) ==
  IF Recorded(key) THEN s
  ELSE [s EXCEPT !.grants = @ \cup {[key |-> key, user |-> r, credits |-> amount]},
                 !.prof = Put(@, r, Credited(@[r].new, amount)),
                 !.attr = Put(@, u, Rewarded(@[u].new, amount)),
                 !.changed = TRUE]
WordCredit(s, u, r, amount, key) ==
  LET room  == scenario.maxEarned - s.prof[r].new.referral_words_earned_total
      grant == IF amount <= room THEN amount ELSE room
  IN  IF grant <= 0 \/ Recorded(key) THEN s
      ELSE [s EXCEPT !.grants = @ \cup {[key |-> key, user |-> r, credits |-> grant]},
                     !.prof = Put(@, r, Credited(@[r].new, grant)),
                     !.attr = Put(@, u, Rewarded(@[u].new, grant)),
                     !.changed = TRUE]

\* Row r of profiles, read FOR UPDATE into session s.
ReadReferrer(w, r) == UNCHANGED rowLock
LockReferrer(w, r) == Free(rowLock, r, w) /\ rowLock' = [rowLock EXCEPT ![r] = w]

\* The rest of try_referrer_verify_reward.
RewardVerify(w) ==
  LET u == worker[w].user
      s == [worker[w] EXCEPT !.pc = "r_pay"]
      a == s.attr[u].new
      t == [s EXCEPT !.prof = Load(@, a.referrer, profiles[a.referrer])]
      due == a.status = "verified" /\ a.words < VerifyReward /\ ~Recorded(VerifyKey(u))
  IN  /\ At(w, "r_verify")
      /\ \/ ~due /\ Step(w, s) /\ UNCHANGED rowLock
         \/ /\ due /\ LockReferrer(w, a.referrer)
            /\ Step(w, IF StartedRewards(a.referrer) >= MaxRewarded THEN t
                       ELSE WordCredit(t, u, a.referrer, VerifyReward, VerifyKey(u)))
      /\ UNCHANGED <<tables, jobVars, attrLock, outsideVars, countVars>>

\* referee_has_qualifying_first_payment
Qualifies(s, u) ==
  \/ \E p \in Payments : p.user = u /\ p.kind = "payg" /\ transactions[p.id] > 0
  \/ s.prof[u].new.subscription_started_at # NoTime

\* What the second reward pays: all that the first one did not.
FullTotal(a) == IF InviteTotal > 0 THEN InviteTotal ELSE PaymentReward
Remainder(a) == IF InviteTotal > 0 THEN InviteTotal - a.words ELSE PaymentReward

\* try_referrer_payment_reward, on the row that is locked already.
RewardPayment(w) ==
  LET u == worker[w].user
      s == Verified([worker[w] EXCEPT !.pc = "r_end", !.prof = Load(@, u, profiles[u])], u)
      a == s.attr[u].new
      r == a.referrer
      t == [s EXCEPT !.prof = Load(@, r, profiles[r])]
      remainder == Remainder(a)
      noSlot == \/ VerifyReward > 0 /\ a.words < VerifyReward /\ StartedRewards(r) >= MaxRewarded
                \/ CompletedRewards(r) >= MaxRewarded
  IN  /\ At(w, "r_pay")
      /\ \/ /\ a.status # "verified" \/ ~Qualifies(s, u)
            /\ Step(w, s) /\ UNCHANGED rowLock
         \/ /\ a.status = "verified" /\ Qualifies(s, u) /\ remainder <= 0
            /\ Step(w, SetStatus(s, u, "completed")) /\ UNCHANGED rowLock
         \/ /\ a.status = "verified" /\ Qualifies(s, u) /\ remainder > 0
            /\ LockReferrer(w, r)
            /\ Step(w, SetStatus(IF noSlot THEN t ELSE WordCredit(t, u, r, remainder, PaymentKey(u)),
                                 u, "completed"))
      /\ UNCHANGED <<tables, jobVars, attrLock, outsideVars, countVars>>

\* The caller commits if anything changed, and goes on in a session of its own.
RewardEnd(w) ==
  /\ At(w, "r_end")
  /\ IF worker[w].changed THEN Commit(w, worker[w])
     ELSE ReleaseLocks(w) /\ UNCHANGED tables
  /\ Step(w, CASE worker[w].req.op \in {"capture", "delivery"} -> Fresh(w, "a_load")
               [] worker[w].req.op = "yearly"  -> Fresh(w, "y_load")
               [] OTHER -> Idle)
  /\ UNCHANGED <<jobVars, outsideVars, countVars>>
=============================================================================
