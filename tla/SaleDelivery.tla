---------------------------- MODULE SaleDelivery ----------------------------
(***************************************************************************)
(* What the deliveries of one signup's events do: idempotency records, the *)
(* look-up that decides between activation and renewal, the membership     *)
(* transaction, and the payment recorded after it.  The processors deliver *)
(* an event any number of times and in any order; each delivery is a row   *)
(* of its own in billing.webhook_events, tried again when its handler      *)
(* fails (WebhookEvents has that part in detail).                          *)
(***************************************************************************)
EXTENDS Integers, FiniteSets

CONSTANTS
    Adds,           \* NMI recurring.subscription.add events
    Sales,          \* NMI sales whose source is recurring or retry
    ApiSales,       \* NMI sales of any other source
    Renewals,       \* CCBill renewals
    Workers,        \* goroutines
    MaxDeliveries,  \* bound on the deliveries of one event
    MaxFaults       \* bound on failing statements and dying workers

NMIEvents == Adds \cup Sales \cup ApiSales
Events    == NMIEvents \cup Renewals

ASSUME SaleDeliveryAssumption ==
    /\ IsFiniteSet(Events) /\ IsFiniteSet(Workers)
    /\ Adds \cap Sales = {} /\ (Adds \cup Sales) \cap ApiSales = {}
    /\ NMIEvents \cap Renewals = {}
    /\ MaxDeliveries \in Nat \ {0}
    /\ MaxFaults \in Nat

VARIABLES
    record,     \* idempotency records, by operation and key
    row,        \* the NMI subscription and the CCBill subscription
    payments,   \* rows of billing.payments with an event's transaction id
    waiting,    \* stored deliveries to be processed
    delivered,  \* deliveries so far
    task,       \* what each worker is doing
    effects,    \* membership transactions committed for each event
    gained,     \* periods these have added to the row
    aborted,    \* events one of whose membership transactions is gone unnoticed
    faults      \* faults so far

vars ==
    <<record, row, payments, waiting, delivered, task, effects, gained, aborted, faults>>

Account(e) == IF e \in Renewals THEN "ccbill" ELSE "nmi"

\* periods: the billing cycles the row's current period adds up to.
Row == [status : {"pending", "active"}, periods : Nat]

NoEvent == "none"

Phase == {"idle", "begin", "lookUp", "create", "renew", "created", "renewed",
          "checkPayment", "pay", "complete", "fail"}

\* copy: the row as the membership transaction has loaded it.
Task == [phase : Phase, event : Events \cup {NoEvent}, copy : Row]

NewRow == [status |-> "pending", periods |-> 0]

Idle == [phase |-> "idle", event |-> NoEvent, copy |-> NewRow]

TypeOK ==
    /\ record \in [NMIEvents -> {"absent", "pending", "success", "failed"}]
    /\ row \in [{"nmi", "ccbill"} -> Row]
    /\ payments \in [Events -> Nat]
    /\ waiting \in [Events -> 0..MaxDeliveries]
    /\ delivered \in [Events -> 0..MaxDeliveries]
    /\ task \in [Workers -> Task]
    /\ effects \in [Events -> Nat]
    /\ gained \in [Events -> Int]
    /\ aborted \subseteq Events
    /\ faults \in 0..MaxFaults

\* Subscribe has inserted the pending NMI row; the CCBill one is in its first period.
Init ==
    /\ record = [e \in NMIEvents |-> "absent"]
    /\ row = [nmi |-> NewRow, ccbill |-> [status |-> "active", periods |-> 1]]
    /\ payments = [e \in Events |-> 0]
    /\ waiting = [e \in Events |-> 0]
    /\ delivered = [e \in Events |-> 0]
    /\ task = [w \in Workers |-> Idle]
    /\ effects = [e \in Events |-> 0]
    /\ gained = [e \in Events |-> 0]
    /\ aborted = {}
    /\ faults = 0

-----------------------------------------------------------------------------

Go(w, phase) == task' = [task EXCEPT ![w].phase = phase]

Done(w) == task' = [task EXCEPT ![w] = Idle]

Fault == faults < MaxFaults /\ faults' = faults + 1

\* The endpoint verifies the call, stores a row for it and answers 200.
Webhook(e) ==
    /\ delivered[e] < MaxDeliveries
    /\ delivered' = [delivered EXCEPT ![e] = @ + 1]
    /\ waiting' = [waiting EXCEPT ![e] = @ + 1]
    /\ UNCHANGED <<record, row, payments, task, effects, gained, aborted, faults>>

\* A worker dispatches a stored delivery: a CCBill one is not deduplicated.
Dispatch(w, e) ==
    /\ task[w] = Idle
    /\ waiting[e] > 0
    /\ waiting' = [waiting EXCEPT ![e] = @ - 1]
    /\ task' = [task EXCEPT ![w] = [phase |-> IF e \in Renewals THEN "renew" ELSE "begin",
                                    event |-> e, copy |-> NewRow]]
    /\ UNCHANGED <<record, row, payments, delivered, effects, gained, aborted, faults>>

-----------------------------------------------------------------------------
(* ProcessWebhook                                                          *)

\* Faulty variant of Begin: the record is not looked at.
BeginBlindly(w) ==
    LET e == task[w].event IN
    /\ task[w].phase = "begin"
    /\ Go(w, "lookUp")
    /\ record' = [record EXCEPT ![e] = IF @ = "absent" THEN "pending" ELSE @]
    /\ UNCHANGED <<row, payments, waiting, delivered, effects, gained, aborted, faults>>

\* Select, insert, and select again when the insert meets the unique index: the
\* last of these statements decides what the caller sees.
Begin(w) ==
    LET e == task[w].event IN
    /\ task[w].phase = "begin"
    /\ IF record[e] = "success" THEN Done(w) ELSE Go(w, "lookUp")
    /\ record' = [record EXCEPT ![e] = IF @ = "absent" THEN "pending" ELSE @]
    /\ UNCHANGED <<row, payments, waiting, delivered, effects, gained, aborted, faults>>

\* The handler has succeeded; if the update fails, that is only logged.
Complete(w) ==
    LET e == task[w].event IN
    /\ task[w].phase = "complete"
    /\ \/ /\ record' = [x \in NMIEvents |-> IF x = e THEN "success" ELSE record[x]]
          /\ UNCHANGED faults
       \/ e \in NMIEvents /\ Fault /\ UNCHANGED record
    /\ Done(w)
    /\ UNCHANGED <<row, payments, waiting, delivered, effects, gained, aborted>>

\* Faulty variant of Fail: the delivery is not tried again.
FailForGood(w) ==
    LET e == task[w].event IN
    /\ task[w].phase = "fail"
    /\ record' = [x \in NMIEvents |-> IF x = e THEN "failed" ELSE record[x]]
    /\ Done(w)
    /\ UNCHANGED <<row, payments, waiting, delivered, effects, gained, aborted, faults>>

\* The handler has failed: the stored delivery is tried again.
Fail(w) ==
    LET e == task[w].event IN
    /\ task[w].phase = "fail"
    /\ \/ /\ record' = [x \in NMIEvents |-> IF x = e THEN "failed" ELSE record[x]]
          /\ UNCHANGED faults
       \/ e \in NMIEvents /\ Fault /\ UNCHANGED record
    /\ waiting' = [waiting EXCEPT ![e] = @ + 1]
    /\ Done(w)
    /\ UNCHANGED <<row, payments, delivered, effects, gained, aborted>>

-----------------------------------------------------------------------------
(* The handlers                                                            *)

\* handleAddSubscription and handleTransactionSaleSuccess find the row.
LookUp(w) ==
    LET e == task[w].event
        pending == row[Account(e)].status = "pending"
    IN  /\ task[w].phase = "lookUp"
        /\ \/ e \in Adds  /\ Go(w, IF pending THEN "create" ELSE "complete")
           \/ e \in Sales /\ Go(w, IF pending THEN "create" ELSE "renew")
           \/ e \in ApiSales /\ Go(w, "complete")
        /\ UNCHANGED <<record, row, payments, waiting, delivered, effects, gained,
                       aborted, faults>>

\* CreateMembership refuses a user whose subscription is active.
LoadForCreate(w) ==
    LET r == row[Account(task[w].event)] IN
    /\ task[w].phase = "create"
    /\ IF r.status = "active"
       THEN Go(w, "fail")
       ELSE task' = [task EXCEPT ![w].phase = "created", ![w].copy = r]
    /\ UNCHANGED <<record, row, payments, waiting, delivered, effects, gained,
                   aborted, faults>>

LoadForRenew(w) ==
    /\ task[w].phase = "renew"
    /\ task' = [task EXCEPT ![w].phase = "renewed", ![w].copy = row[Account(task[w].event)]]
    /\ UNCHANGED <<record, row, payments, waiting, delivered, effects, gained,
                   aborted, faults>>

\* Only an NMI sale goes on to the payments.
AfterCommit(e) == IF e \in Sales THEN "checkPayment" ELSE "complete"

Commit(w, periods) ==
    LET e == task[w].event IN
    /\ row' = [row EXCEPT ![Account(e)] = [status |-> "active", periods |-> periods]]
    /\ effects' = [effects EXCEPT ![e] = @ + 1]
    /\ gained' = [gained EXCEPT ![e] = @ + periods - row[Account(e)].periods]
    /\ Go(w, AfterCommit(e))
    /\ UNCHANGED <<record, payments, waiting, delivered, aborted, faults>>

\* A new period starts now, or the loaded one is extended by a cycle.
CommitCreate(w) == task[w].phase = "created" /\ Commit(w, 1)

CommitRenew(w) == task[w].phase = "renewed" /\ Commit(w, task[w].copy.periods + 1)

\* GetByTransactionID
CheckPayment(w) ==
    /\ task[w].phase = "checkPayment"
    /\ Go(w, IF payments[task[w].event] > 0 THEN "complete" ELSE "pay")
    /\ UNCHANGED <<record, row, payments, waiting, delivered, effects, gained,
                   aborted, faults>>

\* The insert, which UNIQUE(processor, transaction_id) may refuse or a fault
\* prevent: both are only logged.
Pay(w) ==
    LET e == task[w].event IN
    /\ task[w].phase = "pay"
    /\ \/ payments[e] = 0 /\ payments' = [payments EXCEPT ![e] = 1] /\ UNCHANGED faults
       \/ payments[e] > 0 /\ UNCHANGED <<payments, faults>>
       \/ Fault /\ UNCHANGED payments
    /\ Go(w, "complete")
    /\ UNCHANGED <<record, row, waiting, delivered, effects, gained, aborted>>

\* Faulty variant of StatementFails: a failed renewal is only logged.
StatementLogged(w) ==
    /\ task[w].phase \in {"renew", "renewed"}
    /\ Fault
    /\ Go(w, AfterCommit(task[w].event))
    /\ UNCHANGED <<record, row, payments, waiting, delivered, effects, gained, aborted>>

\* Any statement before these fails: so does the handler, and what it has
\* committed stays.
StatementFails(w) ==
    /\ task[w].phase \in {"lookUp", "create", "renew", "created", "renewed", "checkPayment"}
    /\ Fault
    /\ Go(w, "fail")
    /\ UNCHANGED <<record, row, payments, waiting, delivered, effects, gained, aborted>>

\* The last statement of the membership transaction inserts a notification.  That
\* it fails is only logged; it has aborted the transaction, and the driver may
\* answer the commit without an error: the handler goes on as if it had taken place.
NoticeFails(w) ==
    /\ task[w].phase \in {"created", "renewed"}
    /\ Fault
    /\ aborted' = aborted \cup {task[w].event}
    /\ Go(w, AfterCommit(task[w].event))
    /\ UNCHANGED <<record, row, payments, waiting, delivered, effects, gained>>

\* The worker dies: its delivery stays in processing.
Crash(w) ==
    /\ task[w] # Idle
    /\ Fault
    /\ Done(w)
    /\ UNCHANGED <<record, row, payments, waiting, delivered, effects, gained, aborted>>

-----------------------------------------------------------------------------

Work(w) ==
    \/ Begin(w) \/ Complete(w) \/ Fail(w)
    \/ LookUp(w)
    \/ LoadForCreate(w) \/ CommitCreate(w)
    \/ LoadForRenew(w) \/ CommitRenew(w)
    \/ CheckPayment(w) \/ Pay(w)

Take(e) == \E w \in Workers : Dispatch(w, e)

Next ==
    \/ \E e \in Events : Webhook(e) \/ Take(e)
    \/ \E w \in Workers : Work(w) \/ StatementFails(w) \/ NoticeFails(w) \/ Crash(w)

Spec == Init /\ [][Next]_vars

\* Stored deliveries are picked up, and a goroutine under way goes on.
Fairness ==
    /\ \A e \in Events : WF_vars(Take(e))
    /\ \A w \in Workers : WF_vars(Work(w))

FairSpec == Spec /\ Fairness

-----------------------------------------------------------------------------
(* Properties                                                              *)

\* A transaction has one row in billing.payments at most, although every
\* delivery looks for it and inserts it in two statements (webhook_nmi.go:504).
\* It has none before its membership transaction has taken place, whatever the
\* order of statements and failures, with one exception: a membership transaction
\* that its notification has aborted (lifecycle_service.go:351).
PaidIsCredited ==
    \A e \in Events :
        /\ payments[e] <= 1
        /\ payments[e] > 0 => effects[e] > 0 \/ e \in aborted

\* Without the exception: what is recorded as paid has renewed the membership
\* ("renews an existing subscription and extends the membership").
RecordedIsCredited == \A e \in Events : payments[e] > 0 => effects[e] > 0

\* A record says success only when its event has had its effect, with the same
\* exception: the signup's row is active after the add and after a recurring
\* sale, in whichever order.
SuccessIsActive ==
    \A e \in Adds \cup Sales :
        record[e] = "success" => row[Account(e)].status = "active" \/ e \in aborted

\* Deduplication ("robust webhook deduplication using PostgreSQL"): however
\* often an event is delivered, the user gets at most one period for it.
CreditedOnce == \A e \in NMIEvents : gained[e] <= 1

\* The same of CCBill events ("Deduplicates, validates IP, pushes ...").
CCBillCreditedOnce == \A e \in Renewals : gained[e] <= 1

\* Unless there is a fault, every sale that is delivered is recorded in the end:
\* one that lost the race with the add of its signup fails and is retried.
SaleIsRecorded == \A e \in Sales : waiting[e] > 0 ~> payments[e] > 0 \/ faults > 0
=============================================================================
