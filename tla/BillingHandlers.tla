--------------------------- MODULE BillingHandlers ---------------------------
(***************************************************************************)
(* What calls the lifecycle service and what else writes subscriptions and *)
(* entitlements: the CCBill and the NMI webhook handlers, Subscribe, the   *)
(* admin extension and the Solana purchase, for one user.                  *)
(*                                                                         *)
(* Webhooks come in any order and any number of times: jobs run            *)
(* concurrently, a failed one is retried later, and CCBill's are not       *)
(* deduplicated.  A handler that returns an error before it has written    *)
(* anything is a call that never takes its first step.                     *)
(***************************************************************************)
EXTENDS Memberships

\* One more webhook or request reaches worker w.
Call(w) ==
    /\ task[w] = Idle
    /\ calls < MaxCalls
    /\ calls' = calls + 1

-----------------------------------------------------------------------------
(* CCBill: webhook_ccbill.go                                               *)

\* A handler that does everything in one transaction on the row it looks up.
OnRow(w, op, id, newId, date) ==
    /\ Call(w)
    /\ \E i \in Rows : Matches(i, id) /\ Load(w, op, i, newId, date)

NewSaleSuccess(w, id)  == Call(w) /\ LoadForCreate(w, id)
RenewalSuccess(w, id)  == OnRow(w, "renew", id, NoId, NoTime)
RenewalFailure(w, id)  == OnRow(w, "fail", id, NoId, NoTime)

\* The new id replaces the old one; Validate refuses a period that is over.
UpgradeSuccess(w, id, newId) ==
    /\ \A i \in Rows : Matches(i, id) => NextPeriod(subs[i].periodEnd) >= now
    /\ OnRow(w, "upgrade", id, newId, NoTime)
CommitUpgrade(w) == Save(w, "upgrade", Upgraded(task[w].copy, task[w].id))

BillingDateChange(w, id, date) == OnRow(w, "changeDate", id, NoId, date)
CommitDateChange(w) ==
    Save(w, "changeDate", [task[w].copy EXCEPT !.periodEnd = task[w].date])

\* The renewal date is optional.
UserReactivation(w, id, date) == OnRow(w, "reactivate", id, NoId, date)
CommitReactivation(w) == Save(w, "reactivate", Reactivated(task[w].copy, task[w].date))

\* ResetCurrentPeriods refuses a row without a period.
HasPeriod(id) == \A i \in Rows : Matches(i, id) => subs[i].periodEnd # NoTime

\* A refund of at least 80% terminates; a smaller one writes the row back.
Refund(w, id) ==
    \/ HasPeriod(id) /\ OnRow(w, "refund", id, NoId, NoTime)
    \/ OnRow(w, "refundPart", id, NoId, NoTime)
CommitRefund(w) ==
    \/ SaveAndEnd(w, "refund", Refunded(task[w].copy))
    \/ Save(w, "refundPart", task[w].copy)

Chargeback(w, id) == HasPeriod(id) /\ OnRow(w, "chargeback", id, NoId, NoTime)
CommitChargeback(w) == SaveAndEnd(w, "chargeback", ChargedBack(task[w].copy))

\* These two look the row up before the lifecycle service's transaction.
Cancellation(w, id) ==
    Call(w) /\ \E i \in Rows : Matches(i, id) /\ LookUp(w, "cancelNow", i, id)
Expiration(w, id) ==
    Call(w) /\ \E i \in Rows : Matches(i, id) /\ LookUp(w, "expire", i, id)

CCBillWebhook(w) ==
    \E id \in CCBillIds :
        \/ NewSaleSuccess(w, id)
        \/ RenewalSuccess(w, id)
        \/ RenewalFailure(w, id)
        \/ \E newId \in CCBillIds : UpgradeSuccess(w, id, newId)
        \/ \E date \in now..(now + Cycle) : BillingDateChange(w, id, date)
        \/ \E date \in {NoTime, now + Cycle} : UserReactivation(w, id, date)
        \/ Refund(w, id)
        \/ Chargeback(w, id)
        \/ Cancellation(w, id)
        \/ Expiration(w, id)

-----------------------------------------------------------------------------
(* NMI: webhook_nmi.go                                                     *)

\* Only a pending subscription is activated.
AddSubscription(w, id) ==
    /\ Call(w)
    /\ \E i \in Rows :
          Matches(i, id) /\ subs[i].status = "pending" /\ LookUp(w, "create", i, id)

\* The status read here decides between activation and renewal.
SaleSuccess(w, id) ==
    /\ Call(w)
    /\ \E i \in Rows :
          /\ Matches(i, id)
          /\ LookUp(w, IF subs[i].status = "pending" THEN "create" ELSE "renew", i, id)

SaleFailure(w, id) == OnRow(w, "fail", id, NoId, NoTime)

\* A cancelled subscription is left alone.
DeleteSubscription(w, id) ==
    /\ Call(w)
    /\ \E i \in Rows :
          Matches(i, id) /\ subs[i].status # "cancelled" /\ LookUp(w, "cancelLater", i, id)

NMIWebhook(w) ==
    \E id \in NMIIds :
        \/ AddSubscription(w, id)
        \/ SaleSuccess(w, id)
        \/ SaleFailure(w, id)
        \/ DeleteSubscription(w, id)

-----------------------------------------------------------------------------
(* The lifecycle transaction after a look-up                               *)

BeginCreate(w) ==
    /\ task[w].op = "create" /\ ~ task[w].loaded
    /\ \/ LoadForCreate(w, task[w].id)
       \/ /\ \E i \in Rows : IsLatest(i) /\ subs[i].status = "active"
          /\ Done(w)
          /\ UNCHANGED <<subs, windows, now>>
    /\ UNCHANGED calls

\* RenewMembership looks the row up again, by its id.
BeginRenew(w) ==
    /\ task[w].op = "renew" /\ ~ task[w].loaded
    /\ \/ \E i \in Rows :
             Matches(i, task[w].id) /\ Load(w, "renew", i, task[w].id, NoTime)
       \/ /\ \A i \in Rows : ~ Matches(i, task[w].id)
          /\ Done(w)
          /\ UNCHANGED <<subs, windows, now>>
    /\ UNCHANGED calls

\* CancelMembership and ExpireMembership load the row by its primary key.
BeginEnd(w) ==
    /\ task[w].op \in {"cancelNow", "cancelLater", "expire"} /\ ~ task[w].loaded
    /\ Load(w, task[w].op, task[w].row, task[w].id, NoTime)
    /\ UNCHANGED calls

-----------------------------------------------------------------------------
(* Requests                                                                *)

\* Subscribe: the check and the call to the gateway, which issues a new id ...
Subscribe(w, id) ==
    /\ Call(w)
    /\ \A i \in Rows : ~ Matches(i, id) /\ (IsLatest(i) => subs[i].status # "active")
    /\ \A v \in Workers : task[v].id # id
    /\ \E i \in Rows : IsNext(i)
    /\ Perform(w, "subscribe", TRUE, 0, NoRow, id, NoTime)
    /\ UNCHANGED <<subs, windows, now>>

\* ... and the insert of the pending row.
CommitSubscribe(w) ==
    /\ Loaded(w, "subscribe")
    /\ \E i \in Rows :
          /\ IsNext(i)
          /\ Commit(w, i, [NoRow EXCEPT !.status = "pending", !.id = task[w].id], windows)

\* The admin extension of an active subscription.
ExtendSubscription(w, i) ==
    /\ Call(w)
    /\ subs[i].status = "active"
    /\ Load(w, "extend", i, NoId, NoTime)
CommitExtend(w) == Save(w, "extend", Extended(task[w].copy))

\* Submit of a confirmed Solana payment: the check and the last window are read;
\* two windows that start now do not start at the same instant ...
Purchase(w) ==
    /\ Call(w)
    /\ ~ HasActiveIndefinite(windows, now)
    /\ \E start \in AppendStarts(windows, now) :
          /\ \A x \in windows : x.start # start
          /\ Perform(w, "purchase", TRUE, 0, NoRow, NoId, start)
    /\ UNCHANGED <<subs, windows, now>>

\* ... and the window is inserted, unless an index refuses it.
CommitPurchase(w) ==
    LET start == task[w].date
        W == windows \cup {Window(start, start + OneOffDays, OneOff)}
    IN  /\ Loaded(w, "purchase")
        /\ windows' = IF UniqueIndexes(W) THEN W ELSE windows
        /\ Done(w)
        /\ UNCHANGED <<subs, now, calls>>

Request(w) ==
    \/ \E id \in NMIIds : Subscribe(w, id)
    \/ \E i \in Rows : ExtendSubscription(w, i)
    \/ Purchase(w)

-----------------------------------------------------------------------------
\* A transaction is far shorter than a day.
Tick ==
    /\ now < MaxNow
    /\ \A w \in Workers : ~ task[w].loaded
    /\ now' = now + 1
    /\ UNCHANGED <<subs, windows, task, calls>>

Work(w) ==
    \/ BeginCreate(w) \/ BeginRenew(w) \/ BeginEnd(w)
    \/ CommitCreate(w) \/ CommitRenew(w) \/ CommitFail(w)
    \/ CommitCancelNow(w) \/ CommitCancelLater(w) \/ CommitExpire(w)
    \/ CommitUpgrade(w) \/ CommitDateChange(w) \/ CommitReactivation(w)
    \/ CommitRefund(w) \/ CommitChargeback(w)
    \/ CommitSubscribe(w) \/ CommitExtend(w) \/ CommitPurchase(w)

Next ==
    \/ \E w \in Workers : CCBillWebhook(w) \/ NMIWebhook(w) \/ Request(w) \/ Work(w)
    \/ Tick

Spec == Init /\ [][Next]_vars

-----------------------------------------------------------------------------
(* Properties                                                              *)

OpenWindowOf(W, i) == \E x \in W : Open(x) /\ x.source = i

\* A subscription that still waits for its first payment grants nothing.
PendingHasNoWindow ==
    \A i \in Rows : subs[i].status \in {"absent", "pending"} => ~ OpenWindowOf(windows, i)

\* A past due subscription has failed at least once, has failures left, and its
\* next attempt is scheduled: it is never forgotten and never tried for ever.
PastDueIsScheduled ==
    \A i \in Rows :
        subs[i].status = "past_due" =>
            subs[i].scheduled /\ subs[i].retries \in 1..(MaxDunningFailures - 1)

\* A subscription that has ended has no open window left.
EndedHasNoWindow == \A i \in Rows : subs[i].ended => ~ OpenWindowOf(windows, i)

\* A step takes a subscription's access away only if it leaves it cancelled.
EndsByCancelling ==
    \A i \in Rows :
        OpenWindowOf(windows, i) /\ ~ OpenWindowOf(windows', i)
            => subs'[i].status = "cancelled"
AccessEndsOnlyByCancelling == [][EndsByCancelling]_vars

\* A step opens access only together with a new paid period that starts now.
OpensBySale ==
    \A i \in Rows :
        ~ OpenWindowOf(windows, i) /\ OpenWindowOf(windows', i)
            => subs'[i].status = "active" /\ subs'[i].periodEnd = now + Cycle
AccessOpensOnlyBySale == [][OpensBySale]_vars

\* A user with an active subscription in its period is entitled to premium.
ActiveIsEntitled ==
    \A i \in Rows :
        subs[i].status = "active" /\ subs[i].periodEnd > now => IsEntitled(windows, now)

\* No two windows of the user overlap.
NoOverlap == \A x, y \in windows : x # y => ~ Overlap(x, y)

\* A cancelled subscription grants nothing any more once its period is over.
CancelledAccessEnds ==
    \A i \in Rows :
        subs[i].status = "cancelled" /\ subs[i].periodEnd < now => ~ OpenWindowOf(windows, i)

\* A cancelled subscription is never up for another payment attempt.
CancelledIsNotRetried ==
    [][\A i \in Rows :
          subs[i].status = "cancelled" => subs'[i].status # "past_due"]_vars

\* A paid sale that comes to its commit leaves the user with an active
\* subscription: no index refuses it.
SaleActivates ==
    [][\A w \in Workers :
          Loaded(w, "create") /\ task'[w] = Idle
              => \E i \in Rows : subs'[i].status = "active"]_vars

\* A purchase that is recorded entitles the buyer from that moment.
PurchaseEntitles ==
    [][\A w \in Workers :
          Loaded(w, "purchase") /\ task'[w] = Idle => IsEntitled(windows', now)]_vars
=============================================================================
