------------------------------- MODULE MCJobs -------------------------------
(* Instances of Jobs for TLC. *)
EXTENDS Jobs, TLC

Report == [words |-> 2, pages |-> 5, readable |-> TRUE]
Letter == [words |-> 1, pages |-> 1, readable |-> TRUE]
Torn   == [words |-> 1, pages |-> 1, readable |-> FALSE]
Shelf  == {Report, Letter, Torn}

Ask(op) == [op |-> op, user |-> "ann"]
Send(doc) == [op |-> "translate", user |-> "ann", doc |-> doc, deferred |-> FALSE, quote |-> 0]
Defer(doc, quote) == [Send(doc) EXCEPT !.deferred = TRUE, !.quote = quote]
Draft(doc) == [op |-> "upload", user |-> "ann", doc |-> doc, draft |-> TRUE]
Estimated(doc) == [Draft(doc) EXCEPT !.draft = FALSE]
Guest(op) == [op |-> op, user |-> Nobody]

Quiet == [requests |-> {}, most |-> 4, overlap |-> 1, faults |-> 0, procs |-> {"p1"},
          checkout |-> FALSE, limit |-> 4, free |-> 2]

\* Uploads to the RQ workers: one at a time with faults, and two at once.
Retries  == [Quiet EXCEPT !.requests = {Send(Report), Defer(Report, 50), Ask("pay")}, !.faults = 1, !.limit = 1,
                          !.most = 3]
Refusals == [Quiet EXCEPT !.requests = {Send(Report), Send(Torn), Defer(Letter, 0), Defer(Report, 50)}, !.free = 0,
                          !.checkout = TRUE]
Rush     == [Quiet EXCEPT !.requests = {Send(Report), Send(Letter)}, !.most = 3, !.overlap = 2, !.limit = 1]

\* The dashboard, in one process.
Desk     == [Quiet EXCEPT !.requests = {Draft(Report), Ask("estimate"), Ask("start"), Ask("confirm")}]
Preview  == [Quiet EXCEPT !.requests = {Estimated(Report), Ask("confirm"), Ask("preview")}]
Checkout == [Quiet EXCEPT !.requests = {Estimated(Report), Ask("confirm"), Ask("preview"), Ask("pay")},
                          !.checkout = TRUE, !.free = 0]
Deferred == [Quiet EXCEPT !.requests = {Defer(Report, 50), Defer(Letter, 50), Ask("pay"), Send(Report)}, !.checkout = TRUE, !.free = 0,
                          !.most = 3]
Spent    == [Quiet EXCEPT !.requests = {Send(Letter), Defer(Report, 50), Ask("pay")}, !.limit = 1, !.most = 3]
Guests   == [Quiet EXCEPT !.requests = {[Estimated(Report) EXCEPT !.user = Nobody], Estimated(Torn), Draft(Torn),
                                        Guest("estimate"), Guest("start"), Guest("confirm"), Guest("preview")},
                          !.checkout = TRUE, !.free = 0, !.most = 3]
Clashes  == [Quiet EXCEPT !.requests = {Estimated(Letter), Draft(Letter), Ask("estimate"), Ask("confirm"), Ask("start"), Ask("preview")}, !.overlap = 2, !.most = 3]

\* Free words are left with checkout on, and the quota is used up when a job is paid.
Covered  == [Quiet EXCEPT !.requests = {Estimated(Report), Ask("start"), Ask("confirm")}, !.checkout = TRUE]
SpentDesk == [Quiet EXCEPT !.requests = {Send(Letter), Estimated(Report), Ask("confirm"), Ask("pay")},
                           !.checkout = TRUE, !.free = 1, !.limit = 1]

InTwo == [Quiet EXCEPT !.procs = {"p1", "p2"}, !.most = 3]
TwoProcesses == [InTwo EXCEPT !.requests = {Estimated(Report), Ask("confirm"), Ask("preview"), Ask("poll")}]

\* A process dies, Redis or the database fails for requests and threads, a second
\* process serves.
Outages  == [Quiet EXCEPT !.requests = {Estimated(Report), Ask("confirm"), Ask("pay")}, !.faults = 2,
                          !.checkout = TRUE, !.free = 0]
Restarts == [Outages EXCEPT !.requests = @ \cup {Ask("start")}, !.most = 3]
Strangers == [Outages EXCEPT !.requests = {Estimated(Report), Ask("confirm"), Guest("start")}, !.most = 3]
Storm    == [Quiet EXCEPT !.requests = {Estimated(Report), Ask("start"), Ask("confirm")}, !.faults = 4,
                          !.most = 3]
Lapses   == [Preview EXCEPT !.faults = 2, !.most = 3]
Failover == [InTwo EXCEPT !.requests = {Estimated(Report), Ask("start"), Ask("confirm")}, !.faults = 1,
                          !.checkout = TRUE, !.free = 0]

Everyday == {Retries, Refusals, Rush, Desk, Preview, Checkout, Deferred, Spent, Guests, Clashes, Covered, SpentDesk,
             TwoProcesses, Outages, Restarts, Strangers, Storm, Lapses, Failover}
=============================================================================
