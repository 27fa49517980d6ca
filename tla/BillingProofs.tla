---------------------------- MODULE BillingProofs ----------------------------
(***************************************************************************)
(* Proofs about the subscriptions and windows of one user, for any number  *)
(* of concurrent handlers, of subscription ids, rows, days and calls.      *)
(*                                                                         *)
(* Every handler is a load and a commit, so the inductive invariant says   *)
(* of the copies that the handlers hold what it says of the rows: a stale  *)
(* copy that is written back is as good a row as the one it replaces.      *)
(***************************************************************************)
EXTENDS MCBillingHandlers, TLAPS

\* What PastDueIsScheduled says of a row, for a row or a copy of one.
Scheduled(r) ==
    r.status = "past_due" => r.scheduled /\ r.retries \in 1..(MaxDunningFailures - 1)

\* A worker's copy is as good as a row, what it has looked up is a row, and a
\* purchase knows when its window starts.
Sound(t) ==
    /\ Scheduled(t.copy)
    /\ t.op # "none" /\ ~ t.loaded => t.row \in Rows
    /\ t.op = "purchase" => t.date \in Nat

IInv ==
    /\ TypeOK
    /\ \A i \in Rows : Scheduled(subs[i])
    /\ \A w \in Workers : Sound(task[w])

-----------------------------------------------------------------------------
(* Rows                                                                    *)

\* Every update of a row keeps its type and its schedule.
LEMMA RowUpdates ==
    ASSUME NEW r \in Row, Scheduled(r), now \in Nat,
           NEW id \in Ids \cup {NoId}, NEW date \in Time
    PROVE  /\ Failed(r) \in Row /\ Scheduled(Failed(r))
           /\ Created(r, id) \in Row /\ Scheduled(Created(r, id))
           /\ Renewed(r) \in Row /\ Scheduled(Renewed(r))
           /\ CancelledNow(r) \in Row /\ Scheduled(CancelledNow(r))
           /\ CancelledLater(r) \in Row /\ Scheduled(CancelledLater(r))
           /\ Expired(r) \in Row /\ Scheduled(Expired(r))
           /\ Refunded(r) \in Row /\ Scheduled(Refunded(r))
           /\ ChargedBack(r) \in Row /\ Scheduled(ChargedBack(r))
           /\ Upgraded(r, id) \in Row /\ Scheduled(Upgraded(r, id))
           /\ Reactivated(r, date) \in Row /\ Scheduled(Reactivated(r, date))
           /\ Extended(r) \in Row /\ Scheduled(Extended(r))
           /\ [r EXCEPT !.periodEnd = date] \in Row
           /\ Scheduled([r EXCEPT !.periodEnd = date])
<1> USE MembershipAssumption DEF Row, Scheduled, Status, Time, NoTime
<1>1. Failed(r) \in Row /\ Scheduled(Failed(r))
  <2>1. r.retries + 1 \in Nat
    OBVIOUS
  <2>2. CASE r.retries + 1 >= MaxDunningFailures
    <3>1. Failed(r) = [r EXCEPT !.status = "cancelled", !.ended = TRUE,
                                !.retries = r.retries + 1]
      BY <2>2 DEF Failed
    <3>2. Failed(r) \in Row
      BY <2>1, <3>1
    <3>3. Failed(r).status = "cancelled"
      BY <3>1
    <3> QED
      BY <3>2, <3>3
  <2>3. CASE ~ (r.retries + 1 >= MaxDunningFailures)
    <3>1. Failed(r) = [r EXCEPT !.status = "past_due", !.retries = r.retries + 1,
                                !.scheduled = TRUE]
      BY <2>3 DEF Failed
    <3>2. r.retries + 1 \in 1..(MaxDunningFailures - 1)
      BY <2>1, <2>3
    <3>3. Failed(r) \in Row
      BY <2>1, <3>1
    <3>4. Failed(r).scheduled /\ Failed(r).retries = r.retries + 1
      BY <3>1
    <3>5. Scheduled(Failed(r))
      BY <3>2, <3>4
    <3> QED
      BY <3>3, <3>5
  <2> QED
    BY <2>2, <2>3
<1>2. Created(r, id) \in Row /\ Scheduled(Created(r, id))
  <2>1. now + Cycle \in Time
    OBVIOUS
  <2> QED
    BY <2>1 DEF Created
<1>3. Renewed(r) \in Row /\ Scheduled(Renewed(r))
  <2>1. NextPeriod(r.periodEnd) \in Time
    BY DEF NextPeriod
  <2>2. Renewed(r) = [r EXCEPT !.status = "active", !.ended = FALSE,
                               !.periodEnd = NextPeriod(r.periodEnd)]
    BY DEF Renewed
  <2>3. Renewed(r) \in Row
    BY <2>1, <2>2
  <2>4. Renewed(r).status = "active"
    BY <2>2
  <2> QED
    BY <2>3, <2>4
<1>4. CancelledNow(r) \in Row /\ Scheduled(CancelledNow(r))
  BY DEF CancelledNow
<1>5. CancelledLater(r) \in Row /\ Scheduled(CancelledLater(r))
  BY DEF CancelledLater
<1>6. Expired(r) \in Row /\ Scheduled(Expired(r))
  BY DEF Expired
<1>7. Refunded(r) \in Row /\ Scheduled(Refunded(r))
  BY DEF Refunded, PeriodsReset
<1>8. ChargedBack(r) \in Row /\ Scheduled(ChargedBack(r))
  BY DEF ChargedBack, PeriodsReset
<1>9. Upgraded(r, id) \in Row /\ Scheduled(Upgraded(r, id))
  BY <1>3 DEF Upgraded
<1>10. Reactivated(r, date) \in Row /\ Scheduled(Reactivated(r, date))
  BY DEF Reactivated
<1>11. Extended(r) \in Row /\ Scheduled(Extended(r))
  BY DEF Extended
<1>12. [r EXCEPT !.periodEnd = date] \in Row /\ Scheduled([r EXCEPT !.periodEnd = date])
  OBVIOUS
<1> QED
  BY <1>1, <1>2, <1>3, <1>4, <1>5, <1>6, <1>7, <1>8, <1>9, <1>10, <1>11, <1>12

LEMMA NoRowTyped == NoRow \in Row /\ Scheduled(NoRow)
  BY DEF NoRow, Row, Scheduled, Status, Time, NoTime

LEMMA IdleTyped == Idle \in Task /\ Sound(Idle)
  BY NoRowTyped, MembershipAssumption DEF Sound, Idle, Task, Op, Time, NoTime

-----------------------------------------------------------------------------
(* Windows                                                                 *)

LEMMA AppendStartsTyped ==
    ASSUME windows \subseteq WindowType, now \in Nat
    PROVE  AppendStarts(windows, now) \subseteq Nat
  BY DEF AppendStarts, WindowType, Open, NoTime

LEMMA GrantedTyped ==
    ASSUME windows \subseteq WindowType, now \in Nat, NEW i \in Rows
    PROVE  \A W \in Granted(windows, i) : W \subseteq WindowType
<1> USE MembershipAssumption DEF Rows, Time, NoTime, OneOff
<1>1. ASSUME NEW W \in Granted(windows, i)
      PROVE  W \subseteq WindowType
  <2>1. CASE ExistsBySource(windows, i)
    BY <1>1, <2>1 DEF Granted
  <2>2. CASE ~ ExistsBySource(windows, i)
    <3>1. PICK t \in SubscriptionStarts(windows, now) :
             W = windows \cup {Window(t, NoTime, i)}
      BY <1>1, <2>2 DEF Granted
    <3>2. t \in Nat
      <4>1. CASE \E x \in windows : ~ Open(x) /\ Covers(x, now)
        <5>1. \E x \in windows : ~ Open(x) /\ x.end = t
          BY <3>1, <4>1 DEF SubscriptionStarts, IsLatestFiniteEnd
        <5> QED
          BY <5>1 DEF WindowType, Open
      <4>2. CASE ~ \E x \in windows : ~ Open(x) /\ Covers(x, now)
        BY <3>1, <4>2 DEF SubscriptionStarts
      <4> QED
        BY <4>1, <4>2
    <3> QED
      BY <3>1, <3>2 DEF WindowType, Window
  <2> QED
    BY <2>1, <2>2
<1> QED
  BY <1>1

-----------------------------------------------------------------------------
(* Steps                                                                   *)

\* A commit of a good row and of well formed windows keeps the invariant.
LEMMA CommitKeeps ==
    ASSUME IInv, NEW w \in Workers, NEW i \in 0..MaxRows, NEW r \in Row, Scheduled(r),
           NEW W, W \subseteq WindowType, Commit(w, i, r, W)
    PROVE  IInv'
<1> USE DEF IInv, TypeOK
<1>1. subs' \in [Rows -> Row] /\ \A j \in Rows : Scheduled(subs'[j])
  BY DEF Commit
<1>2. windows' \subseteq WindowType
  BY DEF Commit
<1>3. task' \in [Workers -> Task] /\ \A v \in Workers : Sound(task'[v])
  BY IdleTyped DEF Commit, Done
<1>4. now' = now /\ calls' = calls
  BY DEF Commit
<1> QED
  BY <1>1, <1>2, <1>3, <1>4 DEF Scheduled, Sound

\* So does a step that only changes what a worker is doing.
LEMMA PerformKeeps ==
    ASSUME IInv, NEW w \in Workers, UNCHANGED <<subs, windows, now>>,
           calls' \in 0..MaxCalls, NEW t \in Task, Sound(t),
           task' = [task EXCEPT ![w] = t]
    PROVE  IInv'
  BY DEF IInv, TypeOK, Scheduled, Sound

LEMMA CallTyped ==
    ASSUME IInv, NEW w \in Workers, Call(w)
    PROVE  calls' \in 0..MaxCalls
  BY MembershipAssumption DEF IInv, TypeOK, Call

LEMMA LoadKeeps ==
    ASSUME IInv, NEW w \in Workers, NEW i \in Rows, NEW op \in Op \ {"purchase"},
           NEW id \in Ids \cup {NoId}, NEW date \in Time, calls' \in 0..MaxCalls,
           Load(w, op, i, id, date)
    PROVE  IInv'
<1> DEFINE t == [op |-> op, loaded |-> TRUE, row |-> i, copy |-> subs[i], id |-> id,
                 date |-> date]
<1>1. t \in Task /\ Sound(t)
  BY MembershipAssumption DEF Sound, IInv, TypeOK, Task, Rows
<1>2. task' = [task EXCEPT ![w] = t] /\ UNCHANGED <<subs, windows, now>>
  BY DEF Load, Perform
<1> HIDE DEF t
<1> QED
  BY <1>1, <1>2, PerformKeeps

LEMMA LookUpKeeps ==
    ASSUME IInv, NEW w \in Workers, NEW i \in Rows, NEW op \in Op \ {"purchase"},
           NEW id \in Ids \cup {NoId}, calls' \in 0..MaxCalls, LookUp(w, op, i, id)
    PROVE  IInv'
<1> DEFINE t == [op |-> op, loaded |-> FALSE, row |-> i, copy |-> NoRow, id |-> id,
                 date |-> NoTime]
<1>1. t \in Task /\ Sound(t)
  BY MembershipAssumption, NoRowTyped DEF Sound, Task, Rows, Time, NoTime
<1>2. task' = [task EXCEPT ![w] = t] /\ UNCHANGED <<subs, windows, now>>
  BY DEF LookUp, Perform
<1> HIDE DEF t
<1> QED
  BY <1>1, <1>2, PerformKeeps

LEMMA LoadForCreateKeeps ==
    ASSUME IInv, NEW w \in Workers, NEW id \in Ids \cup {NoId},
           calls' \in 0..MaxCalls, LoadForCreate(w, id)
    PROVE  IInv'
<1>1. PICK i \in 0..MaxRows, r \in Row :
         Scheduled(r) /\ Perform(w, "create", TRUE, i, r, id, NoTime)
  <2>1. CASE Perform(w, "create", TRUE, 0, NoRow, id, NoTime)
    <3>1. 0 \in 0..MaxRows
      BY MembershipAssumption
    <3> QED
      BY <2>1, <3>1, NoRowTyped
  <2>2. CASE \E i \in Rows : Perform(w, "create", TRUE, i, subs[i], id, NoTime)
    <3>1. PICK i \in Rows : Perform(w, "create", TRUE, i, subs[i], id, NoTime)
      BY <2>2
    <3>2. i \in 0..MaxRows /\ subs[i] \in Row /\ Scheduled(subs[i])
      BY MembershipAssumption DEF IInv, TypeOK, Rows
    <3> QED
      BY <3>1, <3>2
  <2> QED
    BY <2>1, <2>2 DEF LoadForCreate
<1> DEFINE t == [op |-> "create", loaded |-> TRUE, row |-> i, copy |-> r, id |-> id,
                 date |-> NoTime]
<1>2. t \in Task /\ Sound(t)
  BY <1>1 DEF Sound, Task, Op, Time, NoTime
<1>3. task' = [task EXCEPT ![w] = t] /\ UNCHANGED <<subs, windows, now>>
  BY <1>1 DEF LoadForCreate, Perform
<1> HIDE DEF t
<1> QED
  BY <1>2, <1>3, PerformKeeps

\* A lookup that finds nothing to do ends the worker's task.
LEMMA DoneKeeps ==
    ASSUME IInv, NEW w \in Workers, Done(w), UNCHANGED <<subs, windows, now, calls>>
    PROVE  IInv'
  BY IdleTyped, PerformKeeps DEF Done, IInv, TypeOK

\* The update of a loaded row, with and without the end of its window.
LEMMA SaveKeeps ==
    ASSUME IInv, NEW w \in Workers, NEW op, NEW r \in Row, Scheduled(r),
           Save(w, op, r) \/ SaveAndEnd(w, op, r)
    PROVE  IInv'
<1>1. windows \subseteq WindowType /\ task[w].row \in 0..MaxRows
  BY DEF IInv, TypeOK, Task
<1>2. CASE Save(w, op, r)
  BY <1>1, <1>2, CommitKeeps DEF Save
<1>3. CASE SaveAndEnd(w, op, r)
  BY <1>1, <1>3, CommitKeeps DEF SaveAndEnd, EndActiveBySubscription
<1> QED
  BY <1>2, <1>3

-----------------------------------------------------------------------------
(* The invariant                                                           *)

LEMMA InitIInv == Init => IInv
<1> SUFFICES ASSUME Init PROVE IInv
  OBVIOUS
<1>1. TypeOK
  BY MembershipAssumption, NoRowTyped, IdleTyped DEF Init, TypeOK
<1> QED
  BY <1>1, NoRowTyped, IdleTyped DEF Init, IInv

\* A webhook or a request that begins.
LEMMA OnRowKeeps ==
    ASSUME IInv, NEW w \in Workers, NEW op \in Op \ {"purchase"}, NEW id,
           NEW newId \in Ids \cup {NoId}, NEW date \in Time,
           OnRow(w, op, id, newId, date)
    PROVE  IInv'
  BY CallTyped, LoadKeeps DEF OnRow

LEMMA CCBillWebhookKeeps ==
    ASSUME IInv, NEW w \in Workers, CCBillWebhook(w)
    PROVE  IInv'
<1>1. PICK id \in CCBillIds :
        \/ NewSaleSuccess(w, id)
        \/ RenewalSuccess(w, id)
        \/ RenewalFailure(w, id)
        \/ \E newId \in CCBillIds : UpgradeSuccess(w, id, newId)
        \/ \E date \in now..(now + Cycle) : BillingDateChange(w, id, date)
        \/ \E date \in {NoTime, now + Cycle} : UserReactivation(w, id, date)
        \/ Refund(w, id)
        \/ Chargeback(w, id)
        \/ Cancellation(w, id)
        \/ Expiration(w, id)
  BY DEF CCBillWebhook
<1>2. now \in Nat /\ NoTime \in Time /\ now + Cycle \in Time
  BY MembershipAssumption DEF IInv, TypeOK, Time
<1>3. id \in Ids \cup {NoId} /\ NoId \in Ids \cup {NoId}
  BY DEF Ids
<1>4. CASE NewSaleSuccess(w, id)
  BY <1>3, <1>4, CallTyped, LoadForCreateKeeps DEF NewSaleSuccess
<1>5. CASE RenewalSuccess(w, id)
  BY <1>2, <1>3, <1>5, OnRowKeeps DEF RenewalSuccess, Op
<1>6. CASE RenewalFailure(w, id)
  BY <1>2, <1>3, <1>6, OnRowKeeps DEF RenewalFailure, Op
<1>7. CASE \E newId \in CCBillIds : UpgradeSuccess(w, id, newId)
  BY <1>2, <1>7, OnRowKeeps DEF UpgradeSuccess, Op, Ids
<1>8. CASE \E date \in now..(now + Cycle) : BillingDateChange(w, id, date)
  <2>1. PICK date \in now..(now + Cycle) : BillingDateChange(w, id, date)
    BY <1>8
  <2>2. date \in Time
    BY <1>2, MembershipAssumption DEF Time
  <2> QED
    BY <1>3, <2>1, <2>2, OnRowKeeps DEF BillingDateChange, Op
<1>9. CASE \E date \in {NoTime, now + Cycle} : UserReactivation(w, id, date)
  BY <1>2, <1>3, <1>9, OnRowKeeps DEF UserReactivation, Op
<1>10. CASE Refund(w, id)
  BY <1>2, <1>3, <1>10, OnRowKeeps DEF Refund, Op
<1>11. CASE Chargeback(w, id)
  BY <1>2, <1>3, <1>11, OnRowKeeps DEF Chargeback, Op
<1>12. CASE Cancellation(w, id)
  BY <1>3, <1>12, CallTyped, LookUpKeeps DEF Cancellation, Op
<1>13. CASE Expiration(w, id)
  BY <1>3, <1>13, CallTyped, LookUpKeeps DEF Expiration, Op
<1> QED
  BY <1>1, <1>4, <1>5, <1>6, <1>7, <1>8, <1>9, <1>10, <1>11, <1>12, <1>13

LEMMA NMIWebhookKeeps ==
    ASSUME IInv, NEW w \in Workers, NMIWebhook(w)
    PROVE  IInv'
<1>1. PICK id \in NMIIds :
        \/ AddSubscription(w, id)
        \/ SaleSuccess(w, id)
        \/ SaleFailure(w, id)
        \/ DeleteSubscription(w, id)
  BY DEF NMIWebhook
<1>2. id \in Ids \cup {NoId} /\ NoId \in Ids \cup {NoId} /\ NoTime \in Time
  BY DEF Ids, Time
<1>3. CASE AddSubscription(w, id)
  BY <1>2, <1>3, CallTyped, LookUpKeeps DEF AddSubscription, Op
<1>4. CASE SaleSuccess(w, id)
  BY <1>2, <1>4, CallTyped, LookUpKeeps DEF SaleSuccess, Op
<1>5. CASE SaleFailure(w, id)
  BY <1>2, <1>5, OnRowKeeps DEF SaleFailure, Op
<1>6. CASE DeleteSubscription(w, id)
  BY <1>2, <1>6, CallTyped, LookUpKeeps DEF DeleteSubscription, Op
<1> QED
  BY <1>1, <1>3, <1>4, <1>5, <1>6

LEMMA RequestKeeps ==
    ASSUME IInv, NEW w \in Workers, Request(w)
    PROVE  IInv'
<1>1. CASE \E id \in NMIIds : Subscribe(w, id)
  <2>1. PICK id \in NMIIds : Subscribe(w, id)
    BY <1>1
  <2> DEFINE t == [op |-> "subscribe", loaded |-> TRUE, row |-> 0, copy |-> NoRow,
                   id |-> id, date |-> NoTime]
  <2>2. t \in Task /\ Sound(t)
    BY MembershipAssumption, NoRowTyped DEF Sound, Task, Op, Ids, Time, NoTime
  <2>3. task' = [task EXCEPT ![w] = t] /\ UNCHANGED <<subs, windows, now>>
    BY <2>1 DEF Subscribe, Perform
  <2>4. calls' \in 0..MaxCalls
    BY <2>1, CallTyped DEF Subscribe
  <2> HIDE DEF t
  <2> QED
    BY <2>2, <2>3, <2>4, PerformKeeps
<1>2. CASE \E i \in Rows : ExtendSubscription(w, i)
  BY <1>2, CallTyped, LoadKeeps DEF ExtendSubscription, Op, Ids, Time
<1>3. CASE Purchase(w)
  <2>1. PICK start \in AppendStarts(windows, now) :
           Perform(w, "purchase", TRUE, 0, NoRow, NoId, start)
    BY <1>3 DEF Purchase
  <2>2. start \in Nat
    BY AppendStartsTyped, MembershipAssumption DEF IInv, TypeOK
  <2> DEFINE t == [op |-> "purchase", loaded |-> TRUE, row |-> 0, copy |-> NoRow,
                   id |-> NoId, date |-> start]
  <2>3. t \in Task /\ Sound(t)
    BY <2>2, MembershipAssumption, NoRowTyped DEF Sound, Task, Op, Ids, Time
  <2>4. task' = [task EXCEPT ![w] = t] /\ UNCHANGED <<subs, windows, now>>
    BY <1>3, <2>1 DEF Purchase, Perform
  <2>5. calls' \in 0..MaxCalls
    BY <1>3, CallTyped DEF Purchase
  <2> HIDE DEF t
  <2> QED
    BY <2>3, <2>4, <2>5, PerformKeeps
<1> QED
  BY <1>1, <1>2, <1>3 DEF Request

LEMMA CommitCreateKeeps ==
    ASSUME IInv, NEW w \in Workers, CommitCreate(w)
    PROVE  IInv'
<1>1. PICK i \in Rows : \E W \in Granted(windows, i) :
         Commit(w, i, Created(task[w].copy, task[w].id), W)
  BY DEF CommitCreate
<1>2. PICK W \in Granted(windows, i) :
         Commit(w, i, Created(task[w].copy, task[w].id), W)
  BY <1>1
<1>3. /\ task[w].copy \in Row /\ Scheduled(task[w].copy)
      /\ task[w].id \in Ids \cup {NoId} /\ now \in Nat /\ NoTime \in Time
      /\ windows \subseteq WindowType
  BY MembershipAssumption DEF IInv, TypeOK, Sound, Task, Time
<1>4. /\ Created(task[w].copy, task[w].id) \in Row
      /\ Scheduled(Created(task[w].copy, task[w].id))
  BY <1>3, RowUpdates
<1>5. W \subseteq WindowType /\ i \in 0..MaxRows
  BY <1>3, GrantedTyped, MembershipAssumption DEF Rows
<1> QED
  BY <1>2, <1>4, <1>5, CommitKeeps

LEMMA CommitSubscribeKeeps ==
    ASSUME IInv, NEW w \in Workers, CommitSubscribe(w)
    PROVE  IInv'
<1> DEFINE r == [NoRow EXCEPT !.status = "pending", !.id = task[w].id]
<1>1. PICK i \in Rows : Commit(w, i, r, windows)
  BY DEF CommitSubscribe
<1>2. r \in Row /\ Scheduled(r)
  <2>1. task[w].id \in Ids \cup {NoId} /\ NoTime \in Time
    BY DEF IInv, TypeOK, Task, Time
  <2> QED
    BY <2>1 DEF NoRow, Row, Scheduled, Status
<1>3. windows \subseteq WindowType /\ i \in 0..MaxRows
  BY MembershipAssumption DEF IInv, TypeOK, Rows
<1> HIDE DEF r
<1> QED
  BY <1>1, <1>2, <1>3, CommitKeeps

LEMMA CommitPurchaseKeeps ==
    ASSUME IInv, NEW w \in Workers, CommitPurchase(w)
    PROVE  IInv'
<1> DEFINE start == task[w].date
           x == Window(start, start + OneOffDays, OneOff)
<1>1. start \in Nat
  BY DEF CommitPurchase, Loaded, IInv, Sound
<1>2. x \in WindowType
  BY <1>1, MembershipAssumption DEF WindowType, Window, OneOff
<1>3. windows' \subseteq WindowType
  BY <1>2 DEF CommitPurchase, IInv, TypeOK
<1>4. task' \in [Workers -> Task] /\ \A v \in Workers : Sound(task'[v])
  BY IdleTyped DEF CommitPurchase, Done, IInv, TypeOK
<1> QED
  BY <1>3, <1>4 DEF CommitPurchase, IInv, TypeOK, Scheduled, Sound

LEMMA BeginKeeps ==
    ASSUME IInv, NEW w \in Workers, BeginCreate(w) \/ BeginRenew(w) \/ BeginEnd(w)
    PROVE  IInv'
<1>1. /\ task[w] \in Task /\ task[w].op \in Op /\ task[w].id \in Ids \cup {NoId}
      /\ NoTime \in Time /\ calls \in 0..MaxCalls
  BY DEF IInv, TypeOK, Task, Time
<1>2. CASE BeginCreate(w)
  BY <1>1, <1>2, LoadForCreateKeeps, DoneKeeps DEF BeginCreate
<1>3. CASE BeginRenew(w)
  BY <1>1, <1>3, LoadKeeps, DoneKeeps DEF BeginRenew, Op
<1>4. CASE BeginEnd(w)
  <2>1. task[w].row \in Rows
    BY <1>4 DEF BeginEnd, IInv, Sound
  <2> QED
    BY <1>1, <1>4, <2>1, LoadKeeps DEF BeginEnd
<1> QED
  BY <1>2, <1>3, <1>4

\* The other commits write an updated copy back.
LEMMA CommitKeepsUpdated ==
    ASSUME IInv, NEW w \in Workers,
           \/ CommitRenew(w) \/ CommitFail(w) \/ CommitCancelNow(w)
           \/ CommitCancelLater(w) \/ CommitExpire(w) \/ CommitUpgrade(w)
           \/ CommitDateChange(w) \/ CommitReactivation(w) \/ CommitRefund(w)
           \/ CommitChargeback(w) \/ CommitExtend(w)
    PROVE  IInv'
<1> DEFINE r == task[w].copy
<1>1. /\ r \in Row /\ Scheduled(r) /\ now \in Nat
      /\ task[w].id \in Ids \cup {NoId} /\ task[w].date \in Time
  BY MembershipAssumption DEF IInv, TypeOK, Sound, Task
<1> HIDE DEF r
<1>2. CASE CommitRenew(w)
  BY <1>1, <1>2, RowUpdates, SaveKeeps DEF CommitRenew, r
<1>3. CASE CommitFail(w)
  BY <1>1, <1>3, RowUpdates, SaveKeeps DEF CommitFail, r
<1>4. CASE CommitCancelNow(w)
  BY <1>1, <1>4, RowUpdates, SaveKeeps DEF CommitCancelNow, r
<1>5. CASE CommitCancelLater(w)
  BY <1>1, <1>5, RowUpdates, SaveKeeps DEF CommitCancelLater, r
<1>6. CASE CommitExpire(w)
  BY <1>1, <1>6, RowUpdates, SaveKeeps DEF CommitExpire, r
<1>7. CASE CommitUpgrade(w)
  BY <1>1, <1>7, RowUpdates, SaveKeeps DEF CommitUpgrade, r
<1>8. CASE CommitDateChange(w)
  BY <1>1, <1>8, RowUpdates, SaveKeeps DEF CommitDateChange, r
<1>9. CASE CommitReactivation(w)
  BY <1>1, <1>9, RowUpdates, SaveKeeps DEF CommitReactivation, r
<1>10. CASE CommitRefund(w)
  BY <1>1, <1>10, RowUpdates, SaveKeeps DEF CommitRefund, r
<1>11. CASE CommitChargeback(w)
  BY <1>1, <1>11, RowUpdates, SaveKeeps DEF CommitChargeback, r
<1>12. CASE CommitExtend(w)
  BY <1>1, <1>12, RowUpdates, SaveKeeps DEF CommitExtend, r
<1> QED
  BY <1>2, <1>3, <1>4, <1>5, <1>6, <1>7, <1>8, <1>9, <1>10, <1>11, <1>12

LEMMA NextIInv == IInv /\ [Next]_vars => IInv'
<1> SUFFICES ASSUME IInv, [Next]_vars PROVE IInv'
  OBVIOUS
<1>1. ASSUME NEW w \in Workers, CCBillWebhook(w) \/ NMIWebhook(w) \/ Request(w)
      PROVE  IInv'
  BY <1>1, CCBillWebhookKeeps, NMIWebhookKeeps, RequestKeeps
<1>2. ASSUME NEW w \in Workers, Work(w)
      PROVE  IInv'
  BY <1>2, BeginKeeps, CommitCreateKeeps, CommitSubscribeKeeps, CommitPurchaseKeeps,
     CommitKeepsUpdated DEF Work
<1>3. CASE Tick
  BY <1>3, MembershipAssumption DEF Tick, IInv, TypeOK, Scheduled, Sound
<1>4. CASE UNCHANGED vars
  BY <1>4 DEF vars, IInv, TypeOK, Scheduled, Sound
<1> QED
  BY <1>1, <1>2, <1>3, <1>4 DEF Next

\* Rows, copies of rows and windows have their types in every reachable state,
\* whatever the handlers write over each other.
THEOREM TypeCorrect == Spec => []TypeOK
<1>1. IInv => TypeOK
  BY DEF IInv
<1> QED
  BY <1>1, InitIInv, NextIInv, PTL DEF Spec

\* Every past due subscription has its next attempt scheduled and failures
\* left, also when handlers overwrite each other's updates with stale copies.
THEOREM DunningGoesOn == Spec => []PastDueIsScheduled
<1>1. IInv => PastDueIsScheduled
  BY DEF IInv, Scheduled, PastDueIsScheduled
<1> QED
  BY <1>1, InitIInv, NextIInv, PTL DEF Spec

-----------------------------------------------------------------------------
(* Access                                                                  *)

LEMMA SameWindows ==
    ASSUME windows' = windows
    PROVE  EndsByCancelling /\ OpensBySale
  BY DEF EndsByCancelling, OpensBySale

\* Neither the first steps of a handler nor the plain updates touch a window.
LEMMA StartsKeepWindows ==
    ASSUME NEW w \in Workers,
           \/ CCBillWebhook(w) \/ NMIWebhook(w) \/ Request(w)
           \/ BeginCreate(w) \/ BeginRenew(w) \/ BeginEnd(w)
    PROVE  windows' = windows
<1> USE DEF OnRow, Load, LookUp, LoadForCreate
<1>1. CASE CCBillWebhook(w)
  BY <1>1 DEF CCBillWebhook, NewSaleSuccess, RenewalSuccess, RenewalFailure, UpgradeSuccess,
              BillingDateChange, UserReactivation, Refund, Chargeback, Cancellation, Expiration
<1>2. CASE NMIWebhook(w)
  BY <1>2 DEF NMIWebhook, AddSubscription, SaleSuccess, SaleFailure, DeleteSubscription
<1>3. CASE BeginCreate(w) \/ BeginRenew(w) \/ BeginEnd(w)
  BY <1>3 DEF BeginCreate, BeginRenew, BeginEnd
<1>4. CASE Request(w)
  BY <1>4 DEF Request, Subscribe, ExtendSubscription, Purchase
<1> QED
  BY <1>1, <1>2, <1>3, <1>4

LEMMA SaveKeepsWindows ==
    ASSUME NEW w, NEW op, NEW r, Save(w, op, r)
    PROVE  windows' = windows
  BY DEF Save, Commit

LEMMA SaveAndEndAccess ==
    ASSUME IInv, NEW w \in Workers, NEW op, NEW r, r.status = "cancelled",
           SaveAndEnd(w, op, r)
    PROVE  EndsByCancelling /\ OpensBySale
<1> DEFINE row == task[w].row
<1>1. CASE windows' = windows
  BY <1>1, SameWindows
<1>2. CASE /\ windows' = EndActiveBySubscription(windows, row)
           /\ subs' = [subs EXCEPT ![row] = r]
  <2>1. ASSUME NEW i \in Rows, OpenWindowOf(windows', i)
        PROVE  OpenWindowOf(windows, i)
    BY <1>2, <2>1 DEF OpenWindowOf, EndActiveBySubscription
  <2>2. ASSUME NEW i \in Rows, OpenWindowOf(windows, i), ~ OpenWindowOf(windows', i)
        PROVE  i = row
    BY <1>2, <2>2 DEF OpenWindowOf, EndActiveBySubscription
  <2>3. row \in Rows => subs'[row] = r
    BY <1>2 DEF IInv, TypeOK
  <2> QED
    BY <2>1, <2>2, <2>3 DEF EndsByCancelling, OpensBySale
<1> QED
  BY <1>1, <1>2 DEF SaveAndEnd, Commit

LEMMA CommitCreateAccess ==
    ASSUME IInv, NEW w \in Workers, CommitCreate(w)
    PROVE  EndsByCancelling /\ OpensBySale
<1> DEFINE r == Created(task[w].copy, task[w].id)
<1>1. PICK i \in Rows : \E W \in Granted(windows, i) : Commit(w, i, r, W)
  BY DEF CommitCreate
<1>2. PICK W \in Granted(windows, i) : Commit(w, i, r, W)
  BY <1>1
<1>3. CASE windows' = windows
  BY <1>3, SameWindows
<1>4. CASE windows' = W /\ subs' = [subs EXCEPT ![i] = r]
  <2>1. W = windows \/ \E t : W = windows \cup {Window(t, NoTime, i)}
    BY <1>2 DEF Granted
  <2>2. \A j \in Rows : OpenWindowOf(windows, j) => OpenWindowOf(windows', j)
    BY <1>4, <2>1 DEF OpenWindowOf
  <2>3. \A j \in Rows :
           ~ OpenWindowOf(windows, j) /\ OpenWindowOf(windows', j) => j = i
    BY <1>4, <2>1 DEF OpenWindowOf, Window
  <2>4. subs'[i] = r /\ r.status = "active" /\ r.periodEnd = now + Cycle
    <3>1. task[w].copy \in Row
      BY DEF IInv, TypeOK, Task
    <3>2. r.status = "active" /\ r.periodEnd = now + Cycle
      BY <3>1 DEF Created, Row
    <3> QED
      BY <1>4, <3>2 DEF IInv, TypeOK
  <2> QED
    BY <2>2, <2>3, <2>4 DEF EndsByCancelling, OpensBySale
<1> QED
  BY <1>2, <1>3, <1>4 DEF Commit

LEMMA CommitPurchaseAccess ==
    ASSUME NEW w \in Workers, CommitPurchase(w)
    PROVE  EndsByCancelling /\ OpensBySale
<1> DEFINE x == Window(task[w].date, task[w].date + OneOffDays, OneOff)
<1>1. x.source \notin Rows
  BY MembershipAssumption DEF Window, Rows, OneOff
<1> HIDE DEF x
<1>2. windows' = windows \/ windows' = windows \cup {x}
  BY DEF CommitPurchase, x
<1>3. \A i \in Rows : OpenWindowOf(windows', i) <=> OpenWindowOf(windows, i)
  BY <1>1, <1>2 DEF OpenWindowOf
<1> QED
  BY <1>3 DEF EndsByCancelling, OpensBySale

LEMMA WorkAccess ==
    ASSUME IInv, NEW w \in Workers, Work(w)
    PROVE  EndsByCancelling /\ OpensBySale
<1> DEFINE r == task[w].copy
<1>1. r \in Row
  BY DEF IInv, TypeOK, Task
<1>2. CASE BeginCreate(w) \/ BeginRenew(w) \/ BeginEnd(w)
  BY <1>2, StartsKeepWindows, SameWindows
<1>3. CASE CommitCreate(w)
  BY <1>3, CommitCreateAccess
<1>4. CASE CommitSubscribe(w)
  BY <1>4, SameWindows DEF CommitSubscribe, Commit
<1>5. CASE \/ CommitRenew(w) \/ CommitUpgrade(w) \/ CommitDateChange(w)
           \/ CommitReactivation(w) \/ CommitExtend(w)
  BY <1>5, SaveKeepsWindows, SameWindows
     DEF CommitRenew, CommitUpgrade, CommitDateChange, CommitReactivation, CommitExtend
<1>6. CASE CommitFail(w)
  BY <1>6, SaveKeepsWindows, SameWindows, SaveAndEndAccess DEF CommitFail
<1>7. /\ CancelledNow(r).status = "cancelled"
      /\ CancelledLater(r).status = "cancelled"
      /\ Expired(r).status = "cancelled"
      /\ ChargedBack(r).status = "cancelled"
      /\ Refunded(r).status = "cancelled"
  BY <1>1 DEF CancelledNow, CancelledLater, Expired, ChargedBack, Refunded, PeriodsReset, Row
<1>8. CASE CommitCancelNow(w)
  BY <1>7, <1>8, SaveAndEndAccess DEF CommitCancelNow
<1>9. CASE CommitCancelLater(w)
  BY <1>7, <1>9, SaveKeepsWindows, SameWindows, SaveAndEndAccess DEF CommitCancelLater
<1>10. CASE CommitExpire(w)
  BY <1>7, <1>10, SaveAndEndAccess DEF CommitExpire
<1>11. CASE CommitRefund(w)
  BY <1>7, <1>11, SaveKeepsWindows, SameWindows, SaveAndEndAccess DEF CommitRefund
<1>12. CASE CommitChargeback(w)
  BY <1>7, <1>12, SaveAndEndAccess DEF CommitChargeback
<1>13. CASE CommitPurchase(w)
  BY <1>13, CommitPurchaseAccess
<1> QED
  BY <1>2, <1>3, <1>4, <1>5, <1>6, <1>8, <1>9, <1>10, <1>11, <1>12, <1>13 DEF Work

LEMMA NextAccess == IInv /\ [Next]_vars => EndsByCancelling /\ OpensBySale
<1> SUFFICES ASSUME IInv, [Next]_vars PROVE EndsByCancelling /\ OpensBySale
  OBVIOUS
<1>1. ASSUME NEW w \in Workers, CCBillWebhook(w) \/ NMIWebhook(w) \/ Request(w)
      PROVE  EndsByCancelling /\ OpensBySale
  BY <1>1, StartsKeepWindows, SameWindows
<1>2. CASE Tick \/ UNCHANGED vars
  BY <1>2, SameWindows DEF Tick, vars
<1> QED
  BY <1>1, <1>2, WorkAccess DEF Next

\* No step of any handler takes access away from a subscription that it does
\* not leave cancelled.
THEOREM AccessIsKept == Spec => AccessEndsOnlyByCancelling
  BY InitIInv, NextIInv, NextAccess, PTL DEF Spec, AccessEndsOnlyByCancelling

\* No step of any handler opens access without a new period for it.
THEOREM AccessIsPaid == Spec => AccessOpensOnlyBySale
  BY InitIInv, NextIInv, NextAccess, PTL DEF Spec, AccessOpensOnlyBySale

-----------------------------------------------------------------------------
(* Windows of rows that wait, and of rows that have ended                  *)

Waits(r) == r.status \in {"absent", "pending"}

\* The row is over, or has never had a period.
Over(r) == r.ended \/ r.periodEnd = NoTime

\* These write a row back without activating or cancelling it.
StatusKept == {"refundPart", "changeDate", "extend"}

\* Only rows that have been activated are written back with their status, only
\* NMI ids are subscribed, and a new date is a date.
Settled(t) ==
    /\ t.op \in StatusKept => ~ Waits(t.copy)
    /\ t.op = "subscribe" => t.id \in NMIIds
    /\ t.op = "changeDate" => t.date \in Nat

\* A pending row has an NMI id, so no CCBill webhook finds it.
PendingInv ==
    /\ \A i \in Rows : subs[i].status = "pending" => subs[i].id \in NMIIds
    /\ \A w \in Workers : Settled(task[w])
    /\ PendingHasNoWindow

Fresh(t) == t.loaded /\ t.row \in Rows => t.copy = subs[t.row]

\* With one handler at a time every copy is the row; then a row that is over, or
\* that never had a period, has no open window.
SerialInv ==
    ~ overlapped =>
        /\ \A v, w \in Workers : task[v] # Idle /\ task[w] # Idle => v = w
        /\ \A w \in Workers : Fresh(task[w])
        /\ \A i \in Rows : Over(subs[i]) => ~ OpenWindowOf(windows, i)

\* What a step that begins or goes on with a handler does.
Begins(w, t) ==
    /\ task' = [task EXCEPT ![w] = t]
    /\ UNCHANGED <<subs, windows>>
    /\ Settled(t) /\ Fresh(t)

LEMMA IdleBegins ==
    ASSUME NEW w, Done(w), UNCHANGED <<subs, windows>>
    PROVE  Begins(w, Idle)
  BY DEF Begins, Done, Settled, Fresh, Idle, StatusKept

LEMMA LoadBegins ==
    ASSUME NEW w, NEW op, NEW i \in Rows, NEW id, NEW date, Load(w, op, i, id, date),
           op \in StatusKept => ~ Waits(subs[i]), op # "subscribe",
           op = "changeDate" => date \in Nat
    PROVE  \E t : Begins(w, t)
<1> DEFINE t == [op |-> op, loaded |-> TRUE, row |-> i, copy |-> subs[i], id |-> id,
                 date |-> date]
<1>1. Settled(t) /\ Fresh(t)
  BY DEF Settled, Fresh
<1>2. task' = [task EXCEPT ![w] = t] /\ UNCHANGED <<subs, windows>>
  BY DEF Load, Perform
<1> HIDE DEF t
<1> QED
  BY <1>1, <1>2 DEF Begins

LEMMA LookUpBegins ==
    ASSUME NEW w, NEW op, NEW i, NEW id, LookUp(w, op, i, id),
           op \notin StatusKept, op # "subscribe"
    PROVE  \E t : Begins(w, t)
<1> DEFINE t == [op |-> op, loaded |-> FALSE, row |-> i, copy |-> NoRow, id |-> id,
                 date |-> NoTime]
<1>1. Settled(t) /\ Fresh(t)
  BY DEF Settled, Fresh, StatusKept
<1>2. task' = [task EXCEPT ![w] = t] /\ UNCHANGED <<subs, windows>>
  BY DEF LookUp, Perform
<1> HIDE DEF t
<1> QED
  BY <1>1, <1>2 DEF Begins

LEMMA LoadForCreateBegins ==
    ASSUME NEW w, NEW id, LoadForCreate(w, id)
    PROVE  \E t : Begins(w, t)
<1>1. CASE Perform(w, "create", TRUE, 0, NoRow, id, NoTime)
  <2> DEFINE t == [op |-> "create", loaded |-> TRUE, row |-> 0, copy |-> NoRow, id |-> id,
                   date |-> NoTime]
  <2>1. Settled(t) /\ Fresh(t)
    BY MembershipAssumption DEF Settled, Fresh, StatusKept, Rows
  <2>2. task' = [task EXCEPT ![w] = t] /\ UNCHANGED <<subs, windows>>
    BY <1>1 DEF LoadForCreate, Perform
  <2> HIDE DEF t
  <2> QED
    BY <2>1, <2>2 DEF Begins
<1>2. CASE \E i \in Rows : Perform(w, "create", TRUE, i, subs[i], id, NoTime)
  <2>1. PICK i \in Rows : Perform(w, "create", TRUE, i, subs[i], id, NoTime)
    BY <1>2
  <2>2. Load(w, "create", i, id, NoTime)
    BY <2>1 DEF Load, LoadForCreate
  <2> QED
    BY <2>2, LoadBegins DEF StatusKept
<1> QED
  BY <1>1, <1>2 DEF LoadForCreate

\* A CCBill id finds no row that waits.
LEMMA OnRowBegins ==
    ASSUME PendingInv, NEW w, NEW op, NEW id \in CCBillIds, NEW newId, NEW date,
           OnRow(w, op, id, newId, date), op # "subscribe",
           op = "changeDate" => date \in Nat
    PROVE  \E t : Begins(w, t)
<1>1. PICK i \in Rows : Matches(i, id) /\ Load(w, op, i, newId, date)
  BY DEF OnRow
<1>2. ~ Waits(subs[i])
  BY <1>1, MembershipAssumption DEF PendingInv, Matches, Exists, Waits
<1> QED
  BY <1>1, <1>2, LoadBegins

LEMMA CCBillWebhookBegins ==
    ASSUME IInv, PendingInv, NEW w \in Workers, CCBillWebhook(w)
    PROVE  \E t : Begins(w, t)
<1>1. PICK id \in CCBillIds :
        \/ NewSaleSuccess(w, id)
        \/ RenewalSuccess(w, id)
        \/ RenewalFailure(w, id)
        \/ \E newId \in CCBillIds : UpgradeSuccess(w, id, newId)
        \/ \E date \in now..(now + Cycle) : BillingDateChange(w, id, date)
        \/ \E date \in {NoTime, now + Cycle} : UserReactivation(w, id, date)
        \/ Refund(w, id)
        \/ Chargeback(w, id)
        \/ Cancellation(w, id)
        \/ Expiration(w, id)
  BY DEF CCBillWebhook
<1>2. CASE NewSaleSuccess(w, id)
  BY <1>2, LoadForCreateBegins DEF NewSaleSuccess
<1>3. CASE RenewalSuccess(w, id) \/ RenewalFailure(w, id) \/ Refund(w, id) \/ Chargeback(w, id)
  BY <1>3, OnRowBegins DEF RenewalSuccess, RenewalFailure, Refund, Chargeback
<1>4. CASE \E newId \in CCBillIds : UpgradeSuccess(w, id, newId)
  BY <1>4, OnRowBegins DEF UpgradeSuccess
<1>5. CASE \E date \in now..(now + Cycle) : BillingDateChange(w, id, date)
  <2>1. PICK date \in now..(now + Cycle) : BillingDateChange(w, id, date)
    BY <1>5
  <2>2. date \in Nat
    BY MembershipAssumption DEF IInv, TypeOK
  <2> QED
    BY <2>1, <2>2, OnRowBegins DEF BillingDateChange
<1>6. CASE \E date \in {NoTime, now + Cycle} : UserReactivation(w, id, date)
  BY <1>6, OnRowBegins DEF UserReactivation
<1>7. CASE Cancellation(w, id) \/ Expiration(w, id)
  BY <1>7, LookUpBegins DEF Cancellation, Expiration, StatusKept
<1> QED
  BY <1>1, <1>2, <1>3, <1>4, <1>5, <1>6, <1>7

LEMMA NMIWebhookBegins ==
    ASSUME NEW w \in Workers, NMIWebhook(w)
    PROVE  \E t : Begins(w, t)
<1>1. PICK id \in NMIIds :
        \/ AddSubscription(w, id)
        \/ SaleSuccess(w, id)
        \/ SaleFailure(w, id)
        \/ DeleteSubscription(w, id)
  BY DEF NMIWebhook
<1>2. CASE AddSubscription(w, id) \/ SaleSuccess(w, id) \/ DeleteSubscription(w, id)
  BY <1>2, LookUpBegins DEF AddSubscription, SaleSuccess, DeleteSubscription, StatusKept
<1>3. CASE SaleFailure(w, id)
  BY <1>3, LoadBegins DEF SaleFailure, OnRow, StatusKept
<1> QED
  BY <1>1, <1>2, <1>3

LEMMA RequestBegins ==
    ASSUME NEW w \in Workers, Request(w)
    PROVE  \E t : Begins(w, t)
<1>1. CASE \E id \in NMIIds : Subscribe(w, id)
  <2>1. PICK id \in NMIIds : Subscribe(w, id)
    BY <1>1
  <2> DEFINE t == [op |-> "subscribe", loaded |-> TRUE, row |-> 0, copy |-> NoRow,
                   id |-> id, date |-> NoTime]
  <2>2. Settled(t) /\ Fresh(t)
    BY MembershipAssumption DEF Settled, Fresh, StatusKept, Rows
  <2>3. task' = [task EXCEPT ![w] = t] /\ UNCHANGED <<subs, windows>>
    BY <2>1 DEF Subscribe, Perform
  <2> HIDE DEF t
  <2> QED
    BY <2>2, <2>3 DEF Begins
<1>2. CASE \E i \in Rows : ExtendSubscription(w, i)
  BY <1>2, LoadBegins DEF ExtendSubscription, Waits
<1>3. CASE Purchase(w)
  <2>1. PICK start \in AppendStarts(windows, now) :
           Perform(w, "purchase", TRUE, 0, NoRow, NoId, start)
    BY <1>3 DEF Purchase
  <2> DEFINE t == [op |-> "purchase", loaded |-> TRUE, row |-> 0, copy |-> NoRow,
                   id |-> NoId, date |-> start]
  <2>2. Settled(t) /\ Fresh(t)
    BY MembershipAssumption DEF Settled, Fresh, StatusKept, Rows
  <2>3. task' = [task EXCEPT ![w] = t] /\ UNCHANGED <<subs, windows>>
    BY <1>3, <2>1 DEF Purchase, Perform
  <2> HIDE DEF t
  <2> QED
    BY <2>2, <2>3 DEF Begins
<1> QED
  BY <1>1, <1>2, <1>3 DEF Request

LEMMA BeginBegins ==
    ASSUME IInv, NEW w \in Workers, BeginCreate(w) \/ BeginRenew(w) \/ BeginEnd(w)
    PROVE  \E t : Begins(w, t)
<1>1. CASE BeginCreate(w)
  BY <1>1, LoadForCreateBegins, IdleBegins DEF BeginCreate
<1>2. CASE BeginRenew(w)
  BY <1>2, LoadBegins, IdleBegins DEF BeginRenew, StatusKept
<1>3. CASE BeginEnd(w)
  <2>1. task[w].row \in Rows
    BY <1>3 DEF BeginEnd, IInv, Sound
  <2> QED
    BY <1>3, <2>1, LoadBegins DEF BeginEnd, StatusKept
<1> QED
  BY <1>1, <1>2, <1>3

\* What the commits of a loaded copy write: a row that waits no longer, whose
\* window is ended unless the copy was over as well.
Writes(w, r, W) ==
    /\ task[w].loaded
    /\ Commit(w, task[w].row, r, W)
    /\ ~ Waits(r)
    /\ \/ W = EndActiveBySubscription(windows, task[w].row)
       \/ W = windows /\ (Over(r) => Over(task[w].copy))

LEMMA SaveWrites ==
    ASSUME NEW w, NEW op, NEW r, Save(w, op, r), ~ Waits(r),
           Over(r) => Over(task[w].copy)
    PROVE  \E s, W : Writes(w, s, W)
  BY DEF Save, Loaded, Writes

LEMMA SaveAndEndWrites ==
    ASSUME NEW w, NEW op, NEW r, SaveAndEnd(w, op, r), ~ Waits(r)
    PROVE  \E s, W : Writes(w, s, W)
  BY DEF SaveAndEnd, Loaded, Writes

LEMMA UpdateWrites ==
    ASSUME IInv, PendingInv, NEW w \in Workers,
           \/ CommitRenew(w) \/ CommitFail(w) \/ CommitCancelNow(w)
           \/ CommitCancelLater(w) \/ CommitExpire(w) \/ CommitUpgrade(w)
           \/ CommitDateChange(w) \/ CommitReactivation(w) \/ CommitRefund(w)
           \/ CommitChargeback(w) \/ CommitExtend(w)
    PROVE  \E s, W : Writes(w, s, W)
<1> DEFINE r == task[w].copy
<1>1. /\ r \in Row /\ now \in Nat /\ task[w].date \in Time /\ Settled(task[w])
      /\ Cycle \in Nat \ {0} /\ ExtensionDays \in Nat \ {0}
  BY MembershipAssumption DEF IInv, TypeOK, PendingInv, Task
<1>2. ~ Waits(Renewed(r)) /\ ~ Over(Renewed(r))
  BY <1>1 DEF Waits, Over, Renewed, NextPeriod, Row, Time, NoTime
<1>3. /\ ~ Waits(CancelledNow(r)) /\ ~ Waits(CancelledLater(r)) /\ ~ Waits(Expired(r))
      /\ ~ Waits(Refunded(r)) /\ ~ Waits(ChargedBack(r))
  BY <1>1 DEF Waits, CancelledNow, CancelledLater, Expired, Refunded, ChargedBack,
              PeriodsReset, Row
<1>4. CASE CommitRenew(w)
  BY <1>2, <1>4, SaveWrites DEF CommitRenew
<1>5. CASE CommitFail(w)
  <2>1. /\ ~ Waits(Failed(r))
        /\ Failed(r).status # "cancelled" => (Over(Failed(r)) => Over(r))
    BY <1>1 DEF Waits, Over, Failed, Row
  <2> QED
    BY <1>5, <2>1, SaveWrites, SaveAndEndWrites DEF CommitFail
<1>6. CASE CommitCancelNow(w)
  BY <1>3, <1>6, SaveAndEndWrites DEF CommitCancelNow
<1>7. CASE CommitCancelLater(w)
  <2>1. Over(CancelledLater(r)) => Over(r)
    BY <1>1 DEF Over, CancelledLater, Row
  <2> QED
    BY <1>3, <1>7, <2>1, SaveWrites, SaveAndEndWrites DEF CommitCancelLater
<1>8. CASE CommitExpire(w)
  BY <1>3, <1>8, SaveAndEndWrites DEF CommitExpire
<1>9. CASE CommitUpgrade(w)
  <2>1. ~ Waits(Upgraded(r, task[w].id)) /\ ~ Over(Upgraded(r, task[w].id))
    BY <1>1, <1>2 DEF Waits, Over, Upgraded, Renewed, Row
  <2> QED
    BY <1>9, <2>1, SaveWrites DEF CommitUpgrade
<1>10. CASE CommitDateChange(w)
  <2> DEFINE s == [r EXCEPT !.periodEnd = task[w].date]
  <2>1. ~ Waits(r) /\ task[w].date \in Nat
    BY <1>1, <1>10 DEF CommitDateChange, Save, Loaded, Settled, StatusKept
  <2>2. ~ Waits(s) /\ (Over(s) => Over(r))
    BY <1>1, <2>1 DEF Waits, Over, Row, NoTime
  <2> QED
    BY <1>10, <2>2, SaveWrites DEF CommitDateChange
<1>11. CASE CommitReactivation(w)
  <2> DEFINE s == Reactivated(r, task[w].date)
  <2>1. ~ Waits(s) /\ (Over(s) => Over(r))
    BY <1>1 DEF Waits, Over, Reactivated, Row
  <2> QED
    BY <1>11, <2>1, SaveWrites DEF CommitReactivation
<1>12. CASE CommitRefund(w)
  <2>1. CASE Save(w, "refundPart", r)
    <3>1. ~ Waits(r)
      BY <1>1, <2>1 DEF Save, Loaded, Settled, StatusKept
    <3> QED
      BY <2>1, <3>1, SaveWrites
  <2> QED
    BY <1>3, <1>12, <2>1, SaveAndEndWrites DEF CommitRefund
<1>13. CASE CommitChargeback(w)
  BY <1>3, <1>13, SaveAndEndWrites DEF CommitChargeback
<1>14. CASE CommitExtend(w)
  <2>1. ~ Waits(r)
    BY <1>1, <1>14 DEF CommitExtend, Save, Loaded, Settled, StatusKept
  <2>2. ~ Waits(Extended(r)) /\ (Over(Extended(r)) => Over(r))
    BY <1>1, <2>1 DEF Waits, Over, Extended, Row, Time, NoTime
  <2> QED
    BY <1>14, <2>2, SaveWrites DEF CommitExtend
<1> QED
  BY <1>4, <1>5, <1>6, <1>7, <1>8, <1>9, <1>10, <1>11, <1>12, <1>13, <1>14

-----------------------------------------------------------------------------
(* Windows of rows that wait                                               *)

LEMMA BeginsKeepsPending ==
    ASSUME IInv, PendingInv, NEW w \in Workers, NEW t, Begins(w, t)
    PROVE  PendingInv'
  BY DEF IInv, TypeOK, PendingInv, Begins, Settled, PendingHasNoWindow

\* A commit keeps what is said of the rows if it does so for the one it writes.
LEMMA CommitKeepsPending ==
    ASSUME IInv, PendingInv, NEW w \in Workers, NEW i \in 0..MaxRows, NEW r, NEW W,
           Commit(w, i, r, W),
           r.status = "pending" => r.id \in NMIIds,
           Waits(r) => ~ OpenWindowOf(W, i),
           \A j \in Rows : j # i /\ OpenWindowOf(W, j) => OpenWindowOf(windows, j)
    PROVE  PendingInv'
<1>1. task' = [task EXCEPT ![w] = Idle] /\ Settled(Idle)
  BY DEF Commit, Done, Settled, Idle, StatusKept
<1>2. \A v \in Workers : Settled(task[v])'
  BY <1>1 DEF IInv, TypeOK, PendingInv, Settled
<1>3. CASE UNCHANGED <<subs, windows>>
  BY <1>2, <1>3 DEF PendingInv, PendingHasNoWindow
<1>4. CASE subs' = [subs EXCEPT ![i] = r] /\ windows' = W
  <2>1. ASSUME NEW j \in Rows
        PROVE  /\ subs'[j].status = "pending" => subs'[j].id \in NMIIds
               /\ Waits(subs'[j]) => ~ OpenWindowOf(windows', j)
    <3>1. CASE j = i
      BY <1>4, <3>1 DEF IInv, TypeOK
    <3>2. CASE j # i
      BY <1>4, <3>2 DEF IInv, TypeOK, PendingInv, PendingHasNoWindow, Waits
    <3> QED
      BY <3>1, <3>2
  <2> QED
    BY <1>2, <2>1 DEF PendingInv, PendingHasNoWindow, Waits
<1> QED
  BY <1>3, <1>4 DEF Commit

LEMMA WritesKeepsPending ==
    ASSUME IInv, PendingInv, NEW w \in Workers, NEW r, NEW W, Writes(w, r, W)
    PROVE  PendingInv'
<1>1. task[w].row \in 0..MaxRows
  BY DEF IInv, TypeOK, Task
<1>2. \A j : OpenWindowOf(W, j) => OpenWindowOf(windows, j)
  BY DEF Writes, OpenWindowOf, EndActiveBySubscription
<1> QED
  BY <1>1, <1>2, CommitKeepsPending DEF Writes, Waits

LEMMA CommitCreateKeepsPending ==
    ASSUME IInv, PendingInv, NEW w \in Workers, CommitCreate(w)
    PROVE  PendingInv'
<1> DEFINE r == Created(task[w].copy, task[w].id)
<1>1. PICK i \in Rows : \E W \in Granted(windows, i) : Commit(w, i, r, W)
  BY DEF CommitCreate
<1>2. PICK W \in Granted(windows, i) : Commit(w, i, r, W)
  BY <1>1
<1>3. r.status = "active"
  BY DEF IInv, TypeOK, Task, Row, Created
<1>4. \A j \in Rows : j # i /\ OpenWindowOf(W, j) => OpenWindowOf(windows, j)
  BY <1>2 DEF Granted, OpenWindowOf, Window
<1>5. i \in 0..MaxRows
  BY MembershipAssumption DEF Rows
<1> HIDE DEF r
<1> QED
  BY <1>2, <1>3, <1>4, <1>5, CommitKeepsPending DEF Waits

LEMMA CommitSubscribeKeepsPending ==
    ASSUME IInv, PendingInv, NEW w \in Workers, CommitSubscribe(w)
    PROVE  PendingInv'
<1> DEFINE r == [NoRow EXCEPT !.status = "pending", !.id = task[w].id]
<1>1. PICK i \in Rows : IsNext(i) /\ Commit(w, i, r, windows)
  BY DEF CommitSubscribe
<1>2. r.id \in NMIIds
  BY DEF CommitSubscribe, Loaded, PendingInv, Settled, NoRow
<1>3. ~ OpenWindowOf(windows, i)
  BY <1>1 DEF IsNext, Exists, PendingInv, PendingHasNoWindow
<1>4. i \in 0..MaxRows
  BY MembershipAssumption DEF Rows
<1> HIDE DEF r
<1> QED
  BY <1>1, <1>2, <1>3, <1>4, CommitKeepsPending

\* The window of a purchase is no subscription's.
LEMMA PurchaseIsOneOff ==
    ASSUME NEW w, CommitPurchase(w), NEW i \in Rows
    PROVE  OpenWindowOf(windows', i) => OpenWindowOf(windows, i)
<1> DEFINE x == Window(task[w].date, task[w].date + OneOffDays, OneOff)
<1>1. x.source # i
  BY MembershipAssumption DEF Window, Rows, OneOff
<1> HIDE DEF x
<1>2. windows' = windows \/ windows' = windows \cup {x}
  BY DEF CommitPurchase, x
<1> QED
  BY <1>1, <1>2 DEF OpenWindowOf

LEMMA CommitPurchaseKeepsPending ==
    ASSUME IInv, PendingInv, NEW w \in Workers, CommitPurchase(w)
    PROVE  PendingInv'
<1>1. subs' = subs /\ task' = [task EXCEPT ![w] = Idle] /\ Settled(Idle)
  BY DEF CommitPurchase, Done, Settled, Idle, StatusKept
<1>2. \A v \in Workers : Settled(task[v])'
  BY <1>1 DEF IInv, TypeOK, PendingInv, Settled
<1> QED
  BY <1>1, <1>2, PurchaseIsOneOff DEF PendingInv, PendingHasNoWindow

LEMMA InitPending == Init => PendingInv
  BY DEF Init, PendingInv, PendingHasNoWindow, NoRow, Settled, Idle, StatusKept, OpenWindowOf

LEMMA NextPending == IInv /\ PendingInv /\ [Next]_vars => PendingInv'
<1> SUFFICES ASSUME IInv, PendingInv, [Next]_vars PROVE PendingInv'
  OBVIOUS
<1>1. ASSUME NEW w \in Workers, CCBillWebhook(w) \/ NMIWebhook(w) \/ Request(w)
      PROVE  PendingInv'
  BY <1>1, CCBillWebhookBegins, NMIWebhookBegins, RequestBegins, BeginsKeepsPending
<1>2. ASSUME NEW w \in Workers, Work(w)
      PROVE  PendingInv'
  BY <1>2, BeginBegins, BeginsKeepsPending, UpdateWrites, WritesKeepsPending,
     CommitCreateKeepsPending, CommitSubscribeKeepsPending, CommitPurchaseKeepsPending
     DEF Work
<1>3. CASE Tick \/ UNCHANGED vars
  BY <1>3 DEF Tick, vars, PendingInv, PendingHasNoWindow, Settled
<1> QED
  BY <1>1, <1>2, <1>3 DEF Next

\* A subscription that waits for its first payment has no window, whichever
\* handlers overlap: no stale copy turns an activated row into a waiting one.
THEOREM PendingGrantsNothing == Spec => []PendingHasNoWindow
<1>1. PendingInv => PendingHasNoWindow
  BY DEF PendingInv
<1> QED
  BY <1>1, InitIInv, NextIInv, InitPending, NextPending, PTL DEF Spec

-----------------------------------------------------------------------------
(* Windows of rows that have ended, one handler at a time                  *)

\* While the history variable stays FALSE, only the worker of this step is at
\* work before it, and at most one after it.
LEMMA NotOverlapped ==
    ASSUME MCNext, ~ overlapped'
    PROVE  /\ ~ overlapped
           /\ \A v, w \in Workers : task'[v] # Idle /\ task'[w] # Idle => v = w
  BY DEF MCNext, AtWork

LEMMA BeginsKeepsSerial ==
    ASSUME IInv, SerialInv, MCNext, NEW w \in Workers, NEW t, Begins(w, t)
    PROVE  SerialInv'
<1> SUFFICES ASSUME ~ overlapped' PROVE
        /\ \A u, v \in Workers : task'[u] # Idle /\ task'[v] # Idle => u = v
        /\ \A v \in Workers : Fresh(task[v])'
        /\ \A i \in Rows : Over(subs'[i]) => ~ OpenWindowOf(windows', i)
  BY DEF SerialInv, Over, OpenWindowOf, Open
<1>1. \A u, v \in Workers : task'[u] # Idle /\ task'[v] # Idle => u = v
  BY NotOverlapped
<1>2. \A v \in Workers : Fresh(task[v])'
  BY NotOverlapped DEF SerialInv, Begins, Fresh, IInv, TypeOK
<1>3. \A i \in Rows : Over(subs'[i]) => ~ OpenWindowOf(windows', i)
  BY NotOverlapped DEF SerialInv, Begins
<1> QED
  BY <1>1, <1>2, <1>3

\* After a commit nobody is at work; what is said of the rows is kept if it is
\* for the one that is written.
LEMMA CommitKeepsSerial ==
    ASSUME IInv, SerialInv, MCNext, NEW w \in Workers, task[w] # Idle,
           NEW i \in 0..MaxRows, NEW r, NEW W, Commit(w, i, r, W),
           ~ overlapped /\ i \in Rows /\ Over(r) => ~ OpenWindowOf(W, i),
           \A j \in Rows : j # i /\ OpenWindowOf(W, j) => OpenWindowOf(windows, j)
    PROVE  SerialInv'
<1> SUFFICES ASSUME ~ overlapped' PROVE
        /\ \A u, v \in Workers : task'[u] # Idle /\ task'[v] # Idle => u = v
        /\ \A v \in Workers : Fresh(task[v])'
        /\ \A j \in Rows : Over(subs'[j]) => ~ OpenWindowOf(windows', j)
  BY DEF SerialInv, Over, OpenWindowOf, Open
<1>1. \A u, v \in Workers : task'[u] # Idle /\ task'[v] # Idle => u = v
  BY NotOverlapped
<1>2. ~ overlapped
  BY NotOverlapped
<1>3. \A v \in Workers : task'[v] = Idle
  BY <1>2 DEF SerialInv, Commit, Done, IInv, TypeOK
<1>4. \A v \in Workers : Fresh(task[v])'
  BY <1>3 DEF Fresh, Idle
<1>5. ASSUME NEW j \in Rows
      PROVE  Over(subs'[j]) => ~ OpenWindowOf(windows', j)
  <2>1. CASE UNCHANGED <<subs, windows>>
    BY <1>2, <2>1 DEF SerialInv
  <2>2. CASE subs' = [subs EXCEPT ![i] = r] /\ windows' = W /\ j = i
    BY <1>2, <2>2 DEF IInv, TypeOK
  <2>3. CASE subs' = [subs EXCEPT ![i] = r] /\ windows' = W /\ j # i
    BY <1>2, <2>3 DEF SerialInv, IInv, TypeOK
  <2> QED
    BY <2>1, <2>2, <2>3 DEF Commit
<1> QED
  BY <1>1, <1>4, <1>5

LEMMA WritesKeepsSerial ==
    ASSUME IInv, SerialInv, MCNext, NEW w \in Workers, NEW r, NEW W, Writes(w, r, W)
    PROVE  SerialInv'
<1> DEFINE i == task[w].row
<1>1. i \in 0..MaxRows /\ task[w] # Idle
  BY DEF IInv, TypeOK, Task, Writes, Idle
<1>2. \A j : OpenWindowOf(W, j) => OpenWindowOf(windows, j)
  BY DEF Writes, OpenWindowOf, EndActiveBySubscription
<1>3. ASSUME ~ overlapped, i \in Rows, Over(r)
      PROVE  ~ OpenWindowOf(W, i)
  <2>1. CASE W = EndActiveBySubscription(windows, i)
    BY <2>1 DEF OpenWindowOf, EndActiveBySubscription
  <2>2. CASE W = windows /\ Over(task[w].copy)
    <3>1. task[w].copy = subs[i]
      BY <1>3 DEF SerialInv, Fresh, Writes
    <3> QED
      BY <1>3, <2>2, <3>1 DEF SerialInv
  <2> QED
    BY <1>3, <2>1, <2>2 DEF Writes
<1>4. Commit(w, i, r, W)
  BY DEF Writes
<1> HIDE DEF i
<1> QED
  BY <1>1, <1>2, <1>3, <1>4, CommitKeepsSerial

LEMMA CommitCreateKeepsSerial ==
    ASSUME IInv, SerialInv, MCNext, NEW w \in Workers, CommitCreate(w)
    PROVE  SerialInv'
<1> DEFINE r == Created(task[w].copy, task[w].id)
<1>1. PICK i \in Rows : \E W \in Granted(windows, i) : Commit(w, i, r, W)
  BY DEF CommitCreate
<1>2. PICK W \in Granted(windows, i) : Commit(w, i, r, W)
  BY <1>1
<1>3. ~ Over(r)
  <2>1. now + Cycle # NoTime
    BY MembershipAssumption DEF IInv, TypeOK, NoTime
  <2> QED
    BY <2>1 DEF IInv, TypeOK, Task, Row, Created, Over
<1>4. \A j \in Rows : j # i /\ OpenWindowOf(W, j) => OpenWindowOf(windows, j)
  BY <1>2 DEF Granted, OpenWindowOf, Window
<1>5. i \in 0..MaxRows /\ task[w] # Idle
  BY MembershipAssumption DEF Rows, CommitCreate, Loaded, Idle
<1> HIDE DEF r
<1> QED
  BY <1>2, <1>3, <1>4, <1>5, CommitKeepsSerial

LEMMA CommitSubscribeKeepsSerial ==
    ASSUME IInv, PendingInv, SerialInv, MCNext, NEW w \in Workers, CommitSubscribe(w)
    PROVE  SerialInv'
<1> DEFINE r == [NoRow EXCEPT !.status = "pending", !.id = task[w].id]
<1>1. PICK i \in Rows : IsNext(i) /\ Commit(w, i, r, windows)
  BY DEF CommitSubscribe
<1>2. ~ OpenWindowOf(windows, i)
  BY <1>1 DEF IsNext, Exists, PendingInv, PendingHasNoWindow
<1>3. i \in 0..MaxRows /\ task[w] # Idle
  BY MembershipAssumption DEF Rows, CommitSubscribe, Loaded, Idle
<1> HIDE DEF r
<1> QED
  BY <1>1, <1>2, <1>3, CommitKeepsSerial

LEMMA CommitPurchaseKeepsSerial ==
    ASSUME IInv, SerialInv, MCNext, NEW w \in Workers, CommitPurchase(w)
    PROVE  SerialInv'
<1>1. subs' = subs /\ task' = [task EXCEPT ![w] = Idle] /\ task[w] # Idle
  BY DEF CommitPurchase, Done, Loaded, Idle
<1>2. ~ overlapped' => \A v \in Workers : task'[v] = Idle
  BY <1>1, NotOverlapped DEF SerialInv, IInv, TypeOK
<1>3. ~ overlapped' => \A v \in Workers : Fresh(task[v])'
  BY <1>2 DEF Fresh, Idle
<1>4. \A i \in Rows : OpenWindowOf(windows', i) => OpenWindowOf(windows, i)
  BY PurchaseIsOneOff
<1> QED
  BY <1>1, <1>2, <1>3, <1>4, NotOverlapped DEF SerialInv

LEMMA InitSerial == MCInit => SerialInv
  BY DEF MCInit, Init, SerialInv, Fresh, Idle, OpenWindowOf

LEMMA NextSerial ==
    IInv /\ PendingInv /\ SerialInv /\ [MCNext]_<<vars, overlapped>> => SerialInv'
<1> SUFFICES ASSUME IInv, PendingInv, SerialInv, [MCNext]_<<vars, overlapped>>
             PROVE  SerialInv'
  OBVIOUS
<1>1. ASSUME MCNext, NEW w \in Workers, CCBillWebhook(w) \/ NMIWebhook(w) \/ Request(w)
      PROVE  SerialInv'
  BY <1>1, CCBillWebhookBegins, NMIWebhookBegins, RequestBegins, BeginsKeepsSerial
<1>2. ASSUME MCNext, NEW w \in Workers, Work(w)
      PROVE  SerialInv'
  BY <1>2, BeginBegins, BeginsKeepsSerial, UpdateWrites, WritesKeepsSerial,
     CommitCreateKeepsSerial, CommitSubscribeKeepsSerial, CommitPurchaseKeepsSerial
     DEF Work
<1>3. CASE MCNext /\ Tick
  BY <1>3, NotOverlapped DEF Tick, SerialInv, Fresh
<1>4. CASE UNCHANGED <<vars, overlapped>>
  BY <1>4 DEF vars, SerialInv, Fresh
<1> QED
  BY <1>1, <1>2, <1>3, <1>4 DEF MCNext, Next

\* As long as handlers run one at a time, a subscription that has ended has no
\* open window, whatever the order of sales, cancellations, refunds and dates.
THEOREM SerialEndGrantsNothing == MCSpec => []SerialEndHasNoWindow
<1>1. MCInit => Init
  BY DEF MCInit
<1>2. [MCNext]_<<vars, overlapped>> => [Next]_vars
  BY DEF MCNext, vars
<1>3. IInv /\ SerialInv => SerialEndHasNoWindow
  BY DEF SerialInv, SerialEndHasNoWindow, EndedHasNoWindow, Over
<1> QED
  BY <1>1, <1>2, <1>3, InitIInv, NextIInv, InitPending, NextPending, InitSerial,
     NextSerial, PTL DEF MCSpec

=============================================================================
