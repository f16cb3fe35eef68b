----------------------------- MODULE MCAccounts -----------------------------
(* Instances of Accounts for TLC. *)
EXTENDS Accounts, TLC

CONSTANTS w1, w2     \* model values

\* A referrer and two invited users; the first has a job that awaits payment.
Claim(r) == [NoAttr EXCEPT !.status = "pending", !.referrer = r]
BothInvited == [u \in Users |-> IF u = "ref" THEN NoAttr ELSE Claim("ref")]
NoneInvited == [u \in Users |-> NoAttr]

Wallet == {[id |-> "pay1", user |-> "ann", kind |-> "payg", amount |-> 99],
           [id |-> "pay2", user |-> "ann", kind |-> "yearly", amount |-> 9990]}

\* The activation and the payment of one period, and the renewal of the next.
Deliveries == {[id |-> "ev1", name |-> "subscription.activated", sub |-> "sub1", at |-> 0, start |-> 0, end |-> Month],
               [id |-> "ev2", name |-> "payment.captured", sub |-> "sub1", at |-> 0, start |-> 0, end |-> 0],
               [id |-> "ev3", name |-> "subscription.charged", sub |-> "sub1", at |-> Month, start |-> Month, end |-> 2 * Month]}

Capture == [op |-> "capture", id |-> "pay1"]
Deliver == [op |-> "delivery", id |-> "pay1"]
Yearly  == [op |-> "yearly", id |-> "pay2"]
Event(id) == [op |-> "event", user |-> "ann", event |-> CHOOSE e \in Deliveries : e.id = id]
Cancel  == [op |-> "cancel", user |-> "ann", sub |-> "sub1"]
SyncSub == [op |-> "sync", user |-> "ann"]
Create(kind) == [op |-> "create", user |-> "ann", sub |-> "sub1", kind |-> kind]
Charge(u) == [op |-> "charge", user |-> u, words |-> 2]
AskSignIn(u) == [op |-> "signin", user |-> u]
AskClaim(u) == [op |-> "claim", user |-> u, referrer |-> "ref", device |-> "d1"]

\* Subscriptions, one request after the other.
Contracts ==
  [requests |-> {Yearly, Event("ev1"), Event("ev2"), Event("ev3"), Cancel, SyncSub,
                 Create("monthly"), Create("yearly"), Charge("ann")},
   most |-> 5, overlap |-> 1, faults |-> 0, attrs |-> NoneInvited, unconfirmed |-> {}, quota |-> 0, checkout |-> FALSE,
   maxEarned |-> 4, orders |-> {"pay1", "pay2"}, until |-> 2]

\* The orders are still to be made.
Checkouts == [Contracts EXCEPT !.requests = {Capture, Yearly}, !.most = 2, !.orders = {}, !.until = 0]

\* A payment and a charge, two at a time, with a crash; the day's quota may be used up.
Purchases(used) ==
  [requests |-> {Capture, Deliver, Charge("ann"), AskSignIn("ann")},
   most |-> 3, overlap |-> 2, faults |-> 1, attrs |-> BothInvited, unconfirmed |-> {"ann"}, quota |-> used, checkout |-> used = 0,
   maxEarned |-> 4, orders |-> {"pay1", "pay2"}, until |-> 0]

\* Claims and rewards, two at a time, with a crash.
Invites(attributions, cap) ==
  [requests |-> {Capture, Charge("ref"), AskSignIn("ann"), AskSignIn("bob"), AskClaim("ann"), AskClaim("bob")},
   most |-> 3, overlap |-> 2, faults |-> 1, attrs |-> attributions, unconfirmed |-> {"ann", "bob"}, quota |-> 0,
   checkout |-> FALSE, maxEarned |-> cap, orders |-> {"pay1", "pay2"}, until |-> 0]

Everyday == {Contracts, Checkouts, Purchases(0), Purchases(FreeDailyJobs),
             Invites(BothInvited, 2), Invites(BothInvited, 4), Invites(NoneInvited, 4)}

Captures == {[Purchases(0) EXCEPT !.requests = {Capture, Deliver}, !.most = 2, !.faults = 0]}

Symmetric == Permutations(Workers)
=============================================================================
