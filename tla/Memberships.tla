----------------------------- MODULE Memberships -----------------------------
(***************************************************************************)
(* The subscriptions and the premium windows of one user, and everything   *)
(* that changes them: the CCBill and the NMI webhook handlers with the     *)
(* lifecycle service they call, Subscribe, the admin extension and the     *)
(* one-off Solana purchase.                                                *)
(*                                                                         *)
(* A worker is a goroutine that runs one of them.  Every handler first     *)
(* loads a copy of its row and later writes the whole row back, by primary *)
(* key, in the same READ COMMITTED transaction as the entitlement          *)
(* statements: the load is one step, the update, what follows it and the   *)
(* commit are another, and any step of another worker may come between.    *)
(* Handlers that look a row up before they open their transaction have a   *)
(* step for that too.                                                      *)
(***************************************************************************)
EXTENDS EntitlementWindows

CONSTANTS
    Workers,             \* goroutines that run handlers
    CCBillIds,           \* subscription ids CCBill uses for this user
    NMIIds,              \* subscription ids NMI issues for this user
    NoId,                \* no id
    MaxDunningFailures,  \* dunning.MaxDunningFailures
    Cycle,               \* days of one billing cycle
    OneOffDays,          \* days of a one-off purchase
    ExtensionDays,       \* days of an admin extension
    MaxRows,             \* bound on the rows of billing.subscriptions
    MaxNow,              \* bound on the clock
    MaxCalls             \* bound on webhooks and requests

ASSUME MembershipAssumption ==
    /\ CCBillIds \cap NMIIds = {}
    /\ NoId \notin CCBillIds \cup NMIIds
    /\ MaxDunningFailures \in Nat \ {0}
    /\ Cycle \in Nat \ {0}
    /\ OneOffDays \in Nat \ {0}
    /\ ExtensionDays \in Nat \ {0}
    /\ MaxRows \in Nat \ {0}
    /\ MaxNow \in Nat
    /\ MaxCalls \in Nat

VARIABLES
    subs,     \* rows of billing.subscriptions, in the order of created_at
    windows,  \* the user's windows in billing.entitlements
    now,      \* the clock, in days
    task,     \* what each worker is doing
    calls     \* webhooks and requests so far

vars == <<subs, windows, now, task, calls>>

Rows   == 1..MaxRows
Ids    == CCBillIds \cup NMIIds
Time   == Nat \cup {NoTime}
Status == {"absent", "pending", "active", "past_due", "cancelled"}

\* id stands for processor and processor_subscription_id: each processor issues
\* its own.  ended: ended_at is set; scheduled: next_retry_at is set.
Row == [status : Status, id : Ids \cup {NoId}, periodEnd : Time, ended : BOOLEAN,
        retries : Nat, scheduled : BOOLEAN]

NoRow == [status |-> "absent", id |-> NoId, periodEnd |-> NoTime, ended |-> FALSE,
          retries |-> 0, scheduled |-> FALSE]

Op == {"none", "create", "renew", "cancelNow", "cancelLater", "expire", "fail",
       "upgrade", "changeDate", "reactivate", "refund", "refundPart", "chargeback",
       "extend", "subscribe", "purchase"}

\* What a worker does: the operation, whether its transaction has loaded the
\* row, the row, the copy, and the id and the date its event carries.
Task == [op : Op, loaded : BOOLEAN, row : 0..MaxRows, copy : Row,
         id : Ids \cup {NoId}, date : Time]

Idle == [op |-> "none", loaded |-> FALSE, row |-> 0, copy |-> NoRow, id |-> NoId,
         date |-> NoTime]

\* A subscription's window is open; a purchase's is not, and has a length.
WindowType ==
    [start : Nat, end : {NoTime}, source : Rows]
        \cup {x \in [start : Nat, end : Nat, source : {OneOff}] : x.start < x.end}

TypeOK ==
    /\ subs \in [Rows -> Row]
    /\ windows \subseteq WindowType
    /\ now \in 0..MaxNow
    /\ task \in [Workers -> Task]
    /\ calls \in 0..MaxCalls

Init ==
    /\ subs = [i \in Rows |-> NoRow]
    /\ windows = {}
    /\ now = 0
    /\ task = [w \in Workers |-> Idle]
    /\ calls = 0

-----------------------------------------------------------------------------
(* Rows                                                                    *)

Exists(i) == subs[i].status # "absent"

NoRows == \A i \in Rows : ~ Exists(i)

\* GetByUserID: the user's newest row.
IsLatest(i) == Exists(i) /\ \A j \in Rows : j > i => ~ Exists(j)

\* Where the next insert goes.
IsNext(i) == ~ Exists(i) /\ \A j \in Rows : j < i => Exists(j)

\* GetByProcessorSubscriptionID: any such row, when there are several.
Matches(i, id) == Exists(i) /\ subs[i].id = id

\* idx_subscriptions_user_active
OneActive(S) ==
    \A i, j \in Rows : S[i].status = "active" /\ S[j].status = "active" => i = j

\* Faulty variant of Failed: one failure too many is tolerated.
FailedOffByOne(r) ==
    IF r.retries >= MaxDunningFailures
    THEN [r EXCEPT !.status = "cancelled", !.ended = TRUE, !.retries = @ + 1]
    ELSE [r EXCEPT !.status = "past_due", !.retries = @ + 1, !.scheduled = TRUE]

\* FailMembership
Failed(r) ==
    IF r.retries + 1 >= MaxDunningFailures
    THEN [r EXCEPT !.status = "cancelled", !.ended = TRUE, !.retries = @ + 1]
    ELSE [r EXCEPT !.status = "past_due", !.retries = @ + 1, !.scheduled = TRUE]

\* Faulty variants of Created: the new period follows the old one; the status
\* is left as it was.
CreatedFromOldPeriod(r, id) ==
    [r EXCEPT !.status = "active", !.id = id, !.ended = FALSE,
              !.periodEnd = (IF @ = NoTime THEN now ELSE @) + Cycle]
CreatedKeepingStatus(r, id) ==
    [r EXCEPT !.status = IF @ = "absent" THEN "active" ELSE @, !.id = id,
              !.periodEnd = now + Cycle, !.ended = FALSE]

\* createMembershipCore: the columns it sets on an existing or a new row.
Created(r, id) ==
    [r EXCEPT !.status = "active", !.id = id, !.periodEnd = now + Cycle, !.ended = FALSE]

NextPeriod(end) == (IF end = NoTime THEN now ELSE end) + Cycle

\* RenewMembership
Renewed(r) ==
    [r EXCEPT !.status = "active", !.periodEnd = NextPeriod(@), !.ended = FALSE]

\* CancelMembership
CancelledNow(r) ==
    [r EXCEPT !.status = "cancelled", !.periodEnd = now, !.ended = TRUE]
CancelledLater(r) ==
    [r EXCEPT !.status = "cancelled", !.ended = @ \/ r.periodEnd = NoTime]

\* ExpireMembership
Expired(r) == [r EXCEPT !.status = "cancelled", !.ended = TRUE]

\* ResetCurrentPeriods, in handleRefund and handleChargeback
PeriodsReset(r) ==
    IF r.periodEnd <= now THEN [r EXCEPT !.periodEnd = NoTime, !.ended = TRUE] ELSE r
Refunded(r) == [PeriodsReset(r) EXCEPT !.status = "cancelled"]
ChargedBack(r) == [PeriodsReset(r) EXCEPT !.status = "cancelled", !.ended = TRUE]

\* handleUpgradeSuccess
Upgraded(r, id) == [Renewed(r) EXCEPT !.id = id]

\* handleUserReactivation, with or without a renewal date
Reactivated(r, date) ==
    [r EXCEPT !.status = "active", !.ended = FALSE,
              !.periodEnd = IF date = NoTime THEN @ ELSE date]

\* ExtendSubscription
Extended(r) ==
    [r EXCEPT !.periodEnd = (IF @ = NoTime THEN now ELSE @) + ExtensionDays]

-----------------------------------------------------------------------------
(* Steps that every handler is made of                                     *)

Perform(w, op, loaded, i, copy, id, date) ==
    task' = [task EXCEPT ![w] = [op |-> op, loaded |-> loaded, row |-> i, copy |-> copy,
                                 id |-> id, date |-> date]]

Done(w) == task' = [task EXCEPT ![w] = Idle]

\* The transaction of an operation on row i begins: it holds a copy of the row.
Load(w, op, i, id, date) ==
    /\ Perform(w, op, TRUE, i, subs[i], id, date)
    /\ UNCHANGED <<subs, windows, now>>

\* The row is looked up before the transaction that acts on it begins.
LookUp(w, op, i, id) ==
    /\ Perform(w, op, FALSE, i, NoRow, id, NoTime)
    /\ UNCHANGED <<subs, windows, now>>

\* createMembershipCore starts from the user's newest row, if it is not active.
LoadForCreate(w, id) ==
    /\ \/ NoRows /\ Perform(w, "create", TRUE, 0, NoRow, id, NoTime)
       \/ \E i \in Rows :
             /\ IsLatest(i)
             /\ subs[i].status # "active"
             /\ Perform(w, "create", TRUE, i, subs[i], id, NoTime)
    /\ UNCHANGED <<subs, windows, now>>

\* Row i is written and the transaction commits, unless a unique index refuses
\* it: then nothing is changed.
Commit(w, i, r, W) ==
    /\ LET S == [subs EXCEPT ![i] = r] IN
       IF OneActive(S) /\ UniqueIndexes(W)
       THEN subs' = S /\ windows' = W
       ELSE UNCHANGED <<subs, windows>>
    /\ Done(w)
    /\ UNCHANGED <<now, calls>>

Loaded(w, op) == task[w].op = op /\ task[w].loaded

\* The update of the loaded row, with no entitlement statement ...
Save(w, op, r) == Loaded(w, op) /\ Commit(w, task[w].row, r, windows)

\* ... and with the one that ends the subscription's open window.
SaveAndEnd(w, op, r) ==
    /\ Loaded(w, op)
    /\ Commit(w, task[w].row, r, EndActiveBySubscription(windows, task[w].row))

\* The windows after CreateMembership for row i: its open window, unless it has
\* one, from now or from the end of the finite window the user is in.
Granted(W, i) ==
    IF ExistsBySource(W, i)
    THEN {W}
    ELSE {W \cup {Window(t, NoTime, i)} : t \in SubscriptionStarts(W, now)}

CommitCreate(w) ==
    /\ Loaded(w, "create")
    /\ \E i \in Rows :
          /\ IF task[w].row = 0 THEN IsNext(i) ELSE i = task[w].row
          /\ \E W \in Granted(windows, i) :
                Commit(w, i, Created(task[w].copy, task[w].id), W)

CommitRenew(w) == Save(w, "renew", Renewed(task[w].copy))

CommitCancelNow(w) == SaveAndEnd(w, "cancelNow", CancelledNow(task[w].copy))

\* A cancellation at the period's end ends the access only if that end has passed.
CommitCancelLater(w) ==
    LET end == task[w].copy.periodEnd IN
    IF end # NoTime /\ end < now
    THEN SaveAndEnd(w, "cancelLater", CancelledLater(task[w].copy))
    ELSE Save(w, "cancelLater", CancelledLater(task[w].copy))

CommitExpire(w) == SaveAndEnd(w, "expire", Expired(task[w].copy))

\* Faulty variants of CommitFail: the access is left open; it ends at once.
CommitFailKeepingAccess(w) == Save(w, "fail", Failed(task[w].copy))
CommitFailEndingAccess(w) == SaveAndEnd(w, "fail", Failed(task[w].copy))

\* The access ends with the last failure.
CommitFail(w) ==
    LET r == Failed(task[w].copy) IN
    IF r.status = "cancelled" THEN SaveAndEnd(w, "fail", r) ELSE Save(w, "fail", r)

=============================================================================
