------------------------------- MODULE Dunning -------------------------------
(***************************************************************************)
(* Dunning of NMI subscriptions: the sweep that lists the past due ones    *)
(* every minute, the attempt jobs it inserts, the charge at the gateway    *)
(* and the lifecycle transaction each outcome ends in, together with the   *)
(* sale failure and the deletion that the gateway reports meanwhile.       *)
(*                                                                         *)
(* The clock is relative: a row carries the days left until next_retry_at, *)
(* 0 once it has been reached.  Workers are River's goroutines; a second   *)
(* job of one subscription may run while the first is still under way.     *)
(* The process has a client for each provider its configuration names:     *)
(* without one an attempt does nothing, and webhooks are refused.          *)
(***************************************************************************)
EXTENDS Integers, FiniteSets

CONSTANTS
    Subs,                \* NMI subscriptions
    Workers,             \* goroutines
    MaxDunningFailures,  \* dunning.MaxDunningFailures
    Interval,            \* dunning.DunningInterval, in days
    MaxQueued,           \* bound on the attempt jobs queued for one subscription
    MaxCharges,          \* bound on the successful charges of one subscription
    MaxFaults            \* bound on lost responses and failed statements

ASSUME DunningAssumption ==
    /\ IsFiniteSet(Workers)
    /\ MaxDunningFailures \in Nat \ {0}
    /\ Interval \in Nat \ {0}
    /\ MaxQueued \in Nat \ {0}
    /\ MaxCharges \in Nat
    /\ MaxFaults \in Nat

VARIABLES
    connected, \* subscriptions for whose provider the process has a client
    row,       \* rows of billing.subscriptions
    usable,    \* whether the payment method can be charged
    batch,     \* what the sweep has listed and not inserted yet
    queued,    \* attempt jobs waiting in River's table
    task,      \* what each worker is doing
    charges,   \* successful charges at the gateway
    booked,    \* charges with a row in billing.payments
    faults     \* lost responses and failed statements so far

vars == <<connected, row, usable, batch, queued, task, charges, booked, faults>>

NoTime == -1
NoSub  == "none"

\* wait: days until next_retry_at; paid: periods credited by rebills.
Row == [status : {"active", "past_due", "cancelled"}, failures : Nat,
        wait : {NoTime} \cup 0..Interval, paid : 0..MaxCharges]

NewRow == [status |-> "active", failures |-> 0, wait |-> NoTime, paid |-> 0]

\* A lifecycle call is about to load its row (fail, renew, cancel), has loaded
\* it (failing, renewing, cancelling), or a payment is about to be recorded.
Step == {"idle", "charge", "fail", "failing", "renew", "renewing", "cancel",
         "cancelling", "record"}

\* job: the task is River's attempt job and not a webhook.
Task == [step : Step, sub : Subs \cup {NoSub}, job : BOOLEAN, copy : Row]

Idle == [step |-> "idle", sub |-> NoSub, job |-> FALSE, copy |-> NewRow]

Loading == [fail |-> "failing", renew |-> "renewing", cancel |-> "cancelling"]

TypeOK ==
    /\ connected \subseteq Subs
    /\ row \in [Subs -> Row]
    /\ usable \in [Subs -> BOOLEAN]
    /\ batch \subseteq Subs
    /\ queued \in [Subs -> 0..MaxQueued]
    /\ task \in [Workers -> Task]
    /\ charges \in [Subs -> 0..MaxCharges]
    /\ booked \in [Subs -> 0..MaxCharges]
    /\ faults \in 0..MaxFaults

Init ==
    /\ connected = Subs
    /\ row = [s \in Subs |-> NewRow]
    /\ usable = [s \in Subs |-> TRUE]
    /\ batch = {}
    /\ queued = [s \in Subs |-> 0]
    /\ task = [w \in Workers |-> Idle]
    /\ charges = [s \in Subs |-> 0]
    /\ booked = [s \in Subs |-> 0]
    /\ faults = 0

-----------------------------------------------------------------------------
(* Rows                                                                    *)

\* FailMembership
Failed(r) ==
    IF r.failures + 1 >= MaxDunningFailures
    THEN [r EXCEPT !.status = "cancelled", !.failures = @ + 1]
    ELSE [r EXCEPT !.status = "past_due", !.failures = @ + 1, !.wait = Interval]

\* RenewMembership: neither the failures nor the retry time are reset.
Renewed(r) == [r EXCEPT !.status = "active", !.paid = @ + 1]

\* CancelMembership
Cancelled(r) == [r EXCEPT !.status = "cancelled"]


\* The query of the sweep.
Due(s) == row[s].status = "past_due" /\ row[s].wait = 0

-----------------------------------------------------------------------------
(* The sweep                                                               *)

\* The due subscriptions are listed once ...
Scan ==
    /\ batch = {}
    /\ batch' = {s \in Subs : Due(s) /\ queued[s] < MaxQueued}
    /\ batch' # {}
    /\ UNCHANGED <<connected, row, usable, queued, task, charges, booked, faults>>

\* ... and a job is inserted for each, unless the insert fails.
Enqueue(s) ==
    /\ s \in batch
    /\ batch' = batch \ {s}
    /\ \/ queued' = [queued EXCEPT ![s] = IF @ < MaxQueued THEN @ + 1 ELSE @]
          /\ UNCHANGED faults
       \/ faults < MaxFaults /\ faults' = faults + 1 /\ UNCHANGED queued
    /\ UNCHANGED <<connected, row, usable, task, charges, booked>>

-----------------------------------------------------------------------------
(* An attempt                                                              *)

Go(w, step) == task' = [task EXCEPT ![w].step = step]

Done(w) == task' = [task EXCEPT ![w] = Idle]

\* A worker takes a job and loads the subscription and its payment method; the
\* status is not looked at.  Without a client that is all: the job is done.
TakeJob(w, s) ==
    /\ task[w] = Idle
    /\ queued[s] > 0
    /\ queued' = [queued EXCEPT ![s] = @ - 1]
    /\ \/ /\ s \in connected
          /\ task' = [task EXCEPT ![w].sub = s, ![w].job = TRUE,
                                  ![w].step = IF usable[s] THEN "charge" ELSE "fail"]
       \/ s \notin connected /\ UNCHANGED task
    /\ UNCHANGED <<connected, row, usable, batch, charges, booked, faults>>

\* The load fails: River tries the job again, or has tried it often enough.
LoadFails(w, s) ==
    /\ task[w] = Idle
    /\ queued[s] > 0
    /\ faults < MaxFaults
    /\ faults' = faults + 1
    /\ UNCHANGED queued \/ queued' = [queued EXCEPT ![s] = @ - 1]
    /\ UNCHANGED <<connected, row, usable, batch, task, charges, booked>>

\* Faulty variant of AttemptManualRebill: a declined charge counts as approved.
RebillIgnoringResult(s, approved) ==
    approved /\ UNCHANGED <<charges, faults>>

\* The gateway approves or declines, or its answer is lost: the charge may have
\* been made then, and the attempt counts as failed.
AttemptManualRebill(s, approved) ==
    LET Charged == charges[s] < MaxCharges /\ charges' = [charges EXCEPT ![s] = @ + 1]
    IN  \/ approved /\ Charged /\ UNCHANGED faults
        \/ ~ approved /\ UNCHANGED <<charges, faults>>
        \/ ~ approved /\ Charged /\ faults < MaxFaults /\ faults' = faults + 1

Charge(w) ==
    /\ task[w].step = "charge"
    /\ \E approved \in BOOLEAN :
          /\ AttemptManualRebill(task[w].sub, approved)
          /\ Go(w, IF approved THEN "renew" ELSE "fail")
    /\ UNCHANGED <<connected, row, usable, batch, queued, booked>>

\* The lifecycle transaction loads the row.
Begin(w) ==
    /\ task[w].step \in {"fail", "renew", "cancel"}
    /\ task' = [task EXCEPT ![w].step = Loading[task[w].step],
                            ![w].copy = row[task[w].sub]]
    /\ UNCHANGED <<connected, row, usable, batch, queued, charges, booked, faults>>

Save(w, r) ==
    /\ row' = [row EXCEPT ![task[w].sub] = r]
    /\ UNCHANGED <<connected, usable, batch, queued, charges, booked, faults>>

\* ... and writes every column of its copy back.
CommitFail(w) ==
    task[w].step = "failing" /\ Save(w, Failed(task[w].copy)) /\ Done(w)

CommitRenew(w) ==
    task[w].step = "renewing" /\ Save(w, Renewed(task[w].copy)) /\ Go(w, "record")

CommitCancel(w) ==
    task[w].step = "cancelling" /\ Save(w, Cancelled(task[w].copy)) /\ Done(w)

\* A lifecycle call that fails is only logged: the attempt is over.  One that only
\* its notification has undone may answer no error: the payment is recorded then.
CommitLost(w) ==
    /\ task[w].step \in {"failing", "renewing", "cancelling"}
    /\ faults < MaxFaults
    /\ faults' = faults + 1
    /\ Done(w) \/ (task[w].step = "renewing" /\ Go(w, "record"))
    /\ UNCHANGED <<connected, row, usable, batch, queued, charges, booked>>

\* The payment is recorded, or its insert fails and is logged.
Record(w) ==
    /\ task[w].step = "record"
    /\ \/ /\ booked' = [booked EXCEPT ![task[w].sub] = @ + 1]
          /\ UNCHANGED faults
       \/ faults < MaxFaults /\ faults' = faults + 1 /\ UNCHANGED booked
    /\ Done(w)
    /\ UNCHANGED <<connected, row, usable, batch, queued, charges>>

\* The process dies in the middle of an attempt; River rescues the job.
Crash(w) ==
    /\ task[w].job
    /\ faults < MaxFaults
    /\ faults' = faults + 1
    /\ queued[task[w].sub] < MaxQueued
    /\ queued' = [queued EXCEPT ![task[w].sub] = @ + 1]
    /\ Done(w)
    /\ UNCHANGED <<connected, row, usable, batch, charges, booked>>

-----------------------------------------------------------------------------
(* The gateway's own events, and time                                      *)

\* The endpoint knows the providers it has a client for.
Receive(w, s, step) ==
    /\ task[w] = Idle
    /\ s \in connected
    /\ task' = [task EXCEPT ![w] = [Idle EXCEPT !.step = step, !.sub = s]]
    /\ UNCHANGED <<connected, row, usable, batch, queued, charges, booked, faults>>

\* The gateway reports that its own rebill failed, or that the subscription has
\* been deleted there.
SaleFailure(w, s) == row[s].failures < MaxDunningFailures /\ Receive(w, s, "fail")

Deletion(w, s) == row[s].status # "cancelled" /\ Receive(w, s, "cancel")

\* The user removes the payment method or adds one.
ChangeMethod(s) ==
    /\ usable' = [usable EXCEPT ![s] = ~ @]
    /\ UNCHANGED <<connected, row, batch, queued, task, charges, booked, faults>>

\* The process is restarted, between two tasks, with a configuration that has a
\* provider more or less.
Reconfigure(s) ==
    /\ \A w \in Workers : task[w] = Idle
    /\ connected' = IF s \in connected THEN connected \ {s} ELSE connected \cup {s}
    /\ UNCHANGED <<row, usable, batch, queued, task, charges, booked, faults>>

\* A day passes.  No transaction lasts a day.
Tick ==
    /\ \E s \in Subs : row[s].wait > 0
    /\ \A w \in Workers : task[w].step \notin {"failing", "renewing", "cancelling"}
    /\ row' = [s \in Subs |-> [row[s] EXCEPT !.wait = IF @ > 0 THEN @ - 1 ELSE @]]
    /\ UNCHANGED <<connected, usable, batch, queued, task, charges, booked, faults>>

-----------------------------------------------------------------------------

Work(w) ==
    \/ Charge(w)
    \/ Begin(w)
    \/ CommitFail(w) \/ CommitRenew(w) \/ CommitCancel(w)
    \/ Record(w)

Fetch(s) == \E w \in Workers : TakeJob(w, s)

Next ==
    \/ Scan
    \/ \E s \in Subs : Enqueue(s) \/ Fetch(s) \/ ChangeMethod(s) \/ Reconfigure(s)
    \/ \E w \in Workers : Work(w) \/ CommitLost(w) \/ Crash(w)
    \/ \E w \in Workers, s \in Subs : LoadFails(w, s) \/ SaleFailure(w, s) \/ Deletion(w, s)
    \/ Tick

Spec == Init /\ [][Next]_vars

\* The sweep is a periodic job, River takes every job some day although other
\* work keeps its workers busy, a goroutine that is under way goes on, and time
\* passes.
Fairness ==
    /\ WF_vars(Scan)
    /\ \A s \in Subs : WF_vars(Enqueue(s)) /\ SF_vars(Fetch(s))
    /\ \A w \in Workers : WF_vars(Work(w))
    /\ WF_vars(Tick)

FairSpec == Spec /\ Fairness

-----------------------------------------------------------------------------
(* Properties                                                              *)

\* A period is credited only for a charge the gateway has made: whatever the
\* interleaving of attempts, lost answers, crashes and gateway events, nobody
\* gets a rebilled period for nothing (RenewMembership is only called after an
\* approved rebill, on the row its transaction loads).
CreditsAreCharged == \A s \in Subs : row[s].paid <= charges[s]


\* Whatever the configuration ("recover failed rebills within the same billing
\* cycle").
EveryPastDueSettles ==
    \A s \in Subs : row[s].status = "past_due" ~> row[s].status # "past_due"

\* A rebill is only tried once the retry time has come ("the fixed delay
\* between dunning attempts").
AttemptsAreSpaced ==
    [][\A s \in Subs : charges'[s] > charges[s] => row[s].wait = 0]_vars

\* A cancelled subscription is not charged ("Will never rebill again").
CancelledIsNeverCharged ==
    [][\A s \in Subs : charges'[s] > charges[s] => row[s].status # "cancelled"]_vars

\* With nothing under way, what was charged has been credited, one period per
\* charge ("Success: renew membership window").
ChargesAreCredited ==
    \A s \in Subs :
        (\A w \in Workers : task[w].sub # s) => row[s].paid = charges[s]

\* Only a subscription that is already past due is given up: the failures are
\* those of one billing cycle ("recover failed rebills within the same billing
\* cycle").
FirstFailureIsRetried ==
    [][\A s \in Subs :
          /\ row'[s].status = "cancelled"
          /\ row'[s].failures > row[s].failures
          => row[s].status # "active"]_vars
=============================================================================
