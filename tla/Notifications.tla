---------------------------- MODULE Notifications ----------------------------
(***************************************************************************)
(* One user's notifications and e-mails.  The lifecycle service inserts a  *)
(* notification in the transaction that changes the subscription and mails *)
(* it after the commit.  CCBill's handlers call CreateAndDeliver, which    *)
(* removes what the new notification makes obsolete, inserts it and mails  *)
(* it, each on a connection of its own: some handlers call it after the    *)
(* lifecycle's transaction, some inside a transaction that may still fail. *)
(* Meanwhile the user marks notifications as read.                         *)
(***************************************************************************)
EXTENDS Integers, FiniteSets

CONSTANTS
    Workers,             \* handlers running at the same time
    NoWorker,
    Ops,                 \* the operations of this instance
    MaxDunningFailures,  \* dunning.MaxDunningFailures
    MaxEvents,           \* bound on the operations performed
    MaxFaults            \* bound on failed statements, commits and sends

AfterCommit == {"create", "renew", "cancel", "fail", "purchase"}
TwoStep     == {"ccbillCancel", "ccbillExpire"}
InTx        == {"upgrade", "reactivate", "refund", "chargeback", "saleFailed"}

ASSUME NotificationAssumption ==
    /\ NoWorker \notin Workers
    /\ Ops \subseteq AfterCommit \cup TwoStep \cup InTx \cup {"userCancel"}
    /\ MaxDunningFailures \in Nat \ {0}
    /\ MaxEvents \in Nat
    /\ MaxFaults \in Nat

VARIABLES
    sub,       \* the user's subscription
    lock,      \* the worker whose open transaction has written it, or NoWorker
    address,   \* where the user's e-mail address is kept
    queue,     \* the user's rows of billing.notification_queue
    inserted,  \* rows inserted so far
    emails,    \* e-mails SendGrid has accepted
    task,      \* what each worker is doing
    reading,   \* the notification MarkNotificationRead has loaded, or NoRow
    wrote,     \* for each operation begun, the version it has committed, or 0
    faults     \* failed statements, commits and sends so far

vars == <<sub, lock, address, queue, inserted, emails, task, reading, wrote, faults>>

Events == 1..MaxEvents
Ids    == 1..3 * MaxEvents
NoRow  == 0

\* version: how many times the row has been written.
Sub == [status : {"none", "active", "past_due", "cancelled"}, failures : 0..MaxEvents,
        version : 0..MaxEvents]

NewSub == [status |-> "none", failures |-> 0, version |-> 0]

Kinds == {"premium_started", "premium_renewed", "premium_ended",
          "payment_method_failed", "one_off_purchase_completed"}

\* id: in the order of insertion; op, event: the operation that made the row.
Note == [id : Ids, kind : Kinds, op : Ops, event : Events, seen : BOOLEAN]

\* An e-mail shows the version of the subscription getEmailData has read.
Email == [id : Ids, kind : Kinds, event : Events, version : 0..MaxEvents]

Step == {"idle", "begin", "mail", "list", "clean", "insert", "deliver", "commit"}

Idle == [step |-> "idle", op |-> "none", event |-> 0, mails |-> {}, listed |-> {},
         copy |-> NewSub]

\* mails: notifications left to mail; listed: ids left to remove; copy: what
\* the open transaction will commit.
IsTask(t) ==
    /\ DOMAIN t = DOMAIN Idle
    /\ t.step \in Step
    /\ t.op \in Ops \cup {"none"}
    /\ t.event \in 0..MaxEvents
    /\ t.mails \subseteq Note
    /\ t.listed \subseteq Ids
    /\ t.copy \in Sub

TypeOK ==
    /\ sub \in Sub
    /\ lock \in Workers \cup {NoWorker}
    /\ address \in {"row", "profile", "none"}
    /\ queue \subseteq Note
    /\ inserted \in 0..3 * MaxEvents
    /\ emails \subseteq Email
    /\ DOMAIN task = Workers /\ \A w \in Workers : IsTask(task[w])
    /\ reading \in Ids \cup {NoRow}
    /\ DOMAIN wrote \subseteq Events /\ \A e \in DOMAIN wrote : wrote[e] \in 0..MaxEvents
    /\ faults \in 0..MaxFaults

Init ==
    /\ sub \in {NewSub, [NewSub EXCEPT !.status = "active"]}
    /\ lock = NoWorker
    /\ address \in {"row", "profile", "none"}
    /\ queue = {}
    /\ inserted = 0
    /\ emails = {}
    /\ task = [w \in Workers |-> Idle]
    /\ reading = NoRow
    /\ wrote = [e \in {} |-> 0]
    /\ faults = 0

-----------------------------------------------------------------------------
(* The subscription                                                        *)

\* Whether an operation finds a subscription it applies to.
Applies(s, op) ==
    CASE op = "create" -> s.status # "active"
      [] op \in {"purchase", "saleFailed"} -> TRUE
      [] op = "userCancel" -> s.status = "active"
      [] OTHER -> s.status # "none"

\* A failure ends the membership when it is the last one tolerated.
Failed(s) ==
    [s EXCEPT !.failures = @ + 1,
              !.status = IF s.failures + 1 >= MaxDunningFailures
                         THEN "cancelled" ELSE "past_due"]

\* The row that an operation writes.
Changed(s, op) ==
    CASE op \in {"create", "renew", "upgrade", "reactivate"} -> [s EXCEPT !.status = "active"]
      [] op \in {"cancel", "refund", "chargeback"} \cup TwoStep -> [s EXCEPT !.status = "cancelled"]
      [] op = "fail" -> Failed(s)
      [] OTHER -> s

Writes(op) == op \notin {"purchase", "saleFailed", "userCancel"}

\* Row s is written by operation e.
Write(s, op, e) ==
    IF Writes(op)
    THEN /\ sub' = [s EXCEPT !.version = sub.version + 1]
         /\ wrote' = [wrote EXCEPT ![e] = sub.version + 1]
    ELSE UNCHANGED <<sub, wrote>>

-----------------------------------------------------------------------------
(* Notifications                                                           *)

\* Faulty variant of Notices: every failure is told as a failure.
NoticesIgnoringEnd(op, s) ==
    CASE op = "create" -> {"premium_started"}
      [] op = "renew" -> {"premium_renewed"}
      [] op = "purchase" -> {"premium_started", "one_off_purchase_completed"}
      [] op = "fail" -> {"payment_method_failed"}
      [] OTHER -> {"premium_ended"}

\* What a lifecycle transaction that leaves s, or a purchase, tells the user.
Notices(op, s) ==
    CASE op = "create" -> {"premium_started"}
      [] op = "renew" -> {"premium_renewed"}
      [] op = "purchase" -> {"premium_started", "one_off_purchase_completed"}
      [] op = "fail" /\ s.status # "cancelled" -> {"payment_method_failed"}
      [] OTHER -> {"premium_ended"}

\* What a handler passes to CreateAndDeliver, and a user's cancellation inserts.
Notice(op) ==
    CASE op = "upgrade" -> "premium_renewed"
      [] op = "reactivate" -> "premium_started"
      [] op = "saleFailed" -> "payment_method_failed"
      [] OTHER -> "premium_ended"

Good == {"premium_started", "premium_renewed"}

\* cleanupObsoleteNotifications
Obsolete(kind) == IF kind \in Good THEN {"premium_ended"} ELSE {}

\* Faulty variant of Unseen: rows the user has seen are listed too.
UnseenOrSeen(kinds) == {n.id : n \in {m \in queue : m.kind \in kinds}}

\* The list removeObsoleteNotifications works through.
Unseen(kinds) == {n.id : n \in {m \in queue : m.kind \in kinds /\ ~ m.seen}}

\* The rows of one operation, with the ids that follow.
Rows(kinds, op, e) ==
    {[id |-> inserted + (IF k = "one_off_purchase_completed" THEN 2 ELSE 1), kind |-> k,
      op |-> op, event |-> e, seen |-> FALSE] : k \in kinds}

\* NotificationQueueRepo.Create
Store(rows) ==
    /\ queue' = queue \cup rows
    /\ inserted' = inserted + Cardinality(rows)

\* sendEmailNotification skips without an address and, but for a receipt,
\* without a subscription.
Reachable(n) ==
    /\ address # "none"
    /\ n.kind = "one_off_purchase_completed" \/ sub.status # "none"

\* The subscription as it is committed now.
Sent(n) ==
    emails' = emails \cup {[id |-> n.id, kind |-> n.kind, event |-> n.event,
                            version |-> sub.version]}

-----------------------------------------------------------------------------
(* Handlers                                                                *)

Fault == faults < MaxFaults /\ faults' = faults + 1

Go(w, t) == task' = [task EXCEPT ![w] = t]

To(w, step) == Go(w, [task[w] EXCEPT !.step = step])

Done(w) == Go(w, Idle)

\* The step after the last notification has been mailed.
Resume(t) ==
    CASE t.step = "mail" /\ t.op \in TwoStep -> [t EXCEPT !.step = "list"]
      [] t.step = "deliver" /\ t.op \in InTx -> [t EXCEPT !.step = "commit"]
      [] OTHER -> Idle

\* A handler inside a transaction has written the subscription, but for a
\* refund, which writes it last; a user's cancellation has been answered.
FirstStep(op) ==
    IF op \in InTx THEN "list" ELSE IF op = "userCancel" THEN "insert" ELSE "begin"

Begin(w, op) ==
    LET e == Cardinality(DOMAIN wrote) + 1 IN
    /\ task[w] = Idle
    /\ e \in Events
    /\ Applies(sub, op)
    /\ wrote' = [x \in 1..e |-> IF x = e THEN 0 ELSE wrote[x]]
    /\ IF op \in {"upgrade", "reactivate", "chargeback"}
       THEN lock = NoWorker /\ lock' = w
       ELSE UNCHANGED lock
    /\ Go(w, [Idle EXCEPT !.step = FirstStep(op), !.op = op, !.event = e,
                          !.copy = IF op \in InTx THEN Changed(sub, op) ELSE NewSub])
    /\ UNCHANGED <<sub, address, queue, inserted, emails, reading, faults>>

\* The lifecycle's transaction, or the purchase's: the change and its rows.
Transact(w) ==
    LET t == task[w]
        s == Changed(sub, t.op)
        rows == Rows(Notices(t.op, s), t.op, t.event) IN
    /\ t.step = "begin"
    /\ lock = NoWorker
    /\ Applies(sub, t.op)
    /\ Write(s, t.op, t.event)
    /\ Store(rows)
    /\ Go(w, [t EXCEPT !.step = "mail", !.mails = rows])
    /\ UNCHANGED <<lock, address, emails, reading, faults>>

\* Faulty variant of TransactFails: the rows are inserted outside the
\* transaction.
TransactFailsNotified(w) ==
    /\ task[w].step = "begin"
    /\ \/ ~ Applies(sub, task[w].op) /\ UNCHANGED <<faults, queue, inserted>>
       \/ Fault /\ Store(Rows(Notices(task[w].op, sub), task[w].op, task[w].event))
    /\ Done(w)
    /\ UNCHANGED <<sub, lock, address, emails, reading, wrote>>

\* A failed statement aborts the transaction.  The error of the last one, the
\* insert of the notification, is only logged, and the driver may answer the
\* commit of an aborted transaction without an error: the handler goes on.
TransactFails(w) ==
    /\ task[w].step = "begin"
    /\ \/ ~ Applies(sub, task[w].op) /\ Done(w) /\ UNCHANGED faults
       \/ Fault /\ Done(w)
       \/ Fault /\ Go(w, Resume([task[w] EXCEPT !.step = "mail"]))
    /\ UNCHANGED <<sub, lock, address, queue, inserted, emails, reading, wrote>>

\* dispatchNotifications and deliverExternalNotifications: one e-mail, not
\* tried again.
Mail(w) ==
    /\ task[w].step \in {"mail", "deliver"}
    /\ \E n \in task[w].mails :
          LET t == [task[w] EXCEPT !.mails = @ \ {n}] IN
          /\ Go(w, IF t.mails = {} THEN Resume(t) ELSE t)
          /\ \/ Reachable(n) /\ Sent(n) /\ UNCHANGED faults
             \/ ~ Reachable(n) /\ UNCHANGED <<emails, faults>>
             \/ Reachable(n) /\ Fault /\ UNCHANGED emails
    /\ UNCHANGED <<sub, lock, address, queue, inserted, reading, wrote>>

\* CreateAndDeliver goes on when the list fails.
List(w) ==
    LET ids == Unseen(Obsolete(Notice(task[w].op))) IN
    /\ task[w].step = "list"
    /\ \/ ids # {} /\ Go(w, [task[w] EXCEPT !.step = "clean", !.listed = ids]) /\ UNCHANGED faults
       \/ ids = {} /\ To(w, "insert") /\ UNCHANGED faults
       \/ ids # {} /\ Fault /\ To(w, "insert")
    /\ UNCHANGED <<sub, lock, address, queue, inserted, emails, reading, wrote>>

Clean(w) ==
    /\ task[w].step = "clean"
    /\ \E i \in task[w].listed :
          LET t == [task[w] EXCEPT !.listed = @ \ {i}] IN
          /\ Go(w, IF t.listed = {} THEN [t EXCEPT !.step = "insert"] ELSE t)
          /\ \/ queue' = {n \in queue : n.id # i} /\ UNCHANGED faults
             \/ Fault /\ UNCHANGED queue
    /\ UNCHANGED <<sub, lock, address, inserted, emails, reading, wrote>>

\* A user's cancellation stores a row and mails nothing.
Insert(w) ==
    LET t == task[w]
        rows == Rows({Notice(t.op)}, t.op, t.event) IN
    /\ t.step = "insert"
    /\ \/ /\ Store(rows)
          /\ Go(w, IF t.op = "userCancel" THEN Idle
                   ELSE [t EXCEPT !.step = "deliver", !.mails = rows])
          /\ UNCHANGED faults
       \/ Fault /\ Go(w, Resume([t EXCEPT !.step = "deliver"])) /\ UNCHANGED <<queue, inserted>>
    /\ UNCHANGED <<sub, lock, address, emails, reading, wrote>>

\* The transaction of a handler that notified inside it commits ...
Commit(w) ==
    /\ task[w].step = "commit"
    /\ task[w].op = "refund" => lock = NoWorker
    /\ Write(task[w].copy, task[w].op, task[w].event)
    /\ lock' = IF lock = w THEN NoWorker ELSE lock
    /\ Done(w)
    /\ UNCHANGED <<address, queue, inserted, emails, reading, faults>>

\* ... or does not.
RollBack(w) ==
    /\ task[w].step = "commit"
    /\ Fault
    /\ lock' = IF lock = w THEN NoWorker ELSE lock
    /\ Done(w)
    /\ UNCHANGED <<sub, address, queue, inserted, emails, reading, wrote>>

-----------------------------------------------------------------------------
(* The user                                                                *)

\* MarkNotificationRead: GetByID ...
Read(i) ==
    /\ reading = NoRow
    /\ \E n \in queue : n.id = i /\ ~ n.seen
    /\ reading' = i
    /\ UNCHANGED <<sub, lock, address, queue, inserted, emails, task, wrote, faults>>

\* ... and Update, of no row if it has been removed.
MarkNotificationRead ==
    /\ reading # NoRow
    /\ queue' = {IF n.id = reading THEN [n EXCEPT !.seen = TRUE] ELSE n : n \in queue}
    /\ reading' = NoRow
    /\ UNCHANGED <<sub, lock, address, inserted, emails, task, wrote, faults>>

Next ==
    \/ \E w \in Workers :
          \/ \E op \in Ops : Begin(w, op)
          \/ Transact(w) \/ TransactFails(w)
          \/ Mail(w)
          \/ List(w) \/ Clean(w) \/ Insert(w)
          \/ Commit(w) \/ RollBack(w)
    \/ \E i \in Ids : Read(i)
    \/ MarkNotificationRead

Spec == Init /\ [][Next]_vars

-----------------------------------------------------------------------------
(* Properties                                                              *)

Running(e) == \E w \in Workers : task[w].event = e

\* Every e-mail announces a notification that was stored, and no notification
\* is mailed twice (CreateAndDeliver, dispatchNotifications).
EmailHasRow ==
    /\ \A m \in emails : m.id <= inserted
    /\ \A m, n \in emails : m.id = n.id => m = n

\* An e-mail shows the subscription as the operation it announces has left it,
\* or a later one: getEmailData reads after the commit.
EmailIsCurrent ==
    \A m \in emails : m.event \in DOMAIN wrote => m.version >= wrote[m.event]

\* A notification that the membership started, was renewed or ended stays only
\* if the operation that made it took place (createMembershipCore,
\* RenewMembership, CancelMembership, ExpireMembership, FailMembership).
NotifiedIsTrue ==
    \A n \in queue :
        /\ n.kind \in Good \cup {"premium_ended"}
        /\ n.op \notin {"purchase", "userCancel"}
        /\ ~ Running(n.event)
        => wrote[n.event] > 0

\* A notification the user has read, and that no cleanup had listed by then, is
\* never listed or removed (removeObsoleteNotifications).
Listed(i) == \E w \in Workers : i \in task[w].listed
SeenIsKept ==
    [][\A n \in queue : n.seen /\ ~ Listed(n.id) => n \in queue' /\ ~ Listed(n.id)']_vars

\* Once CreateAndDeliver has stored that the membership started or was renewed,
\* no unread notification of an earlier end is left.
StaleIsCleaned ==
    \A g, b \in queue :
        g.kind \in Good /\ g.op \in InTx /\ b.kind = "premium_ended" /\ ~ b.seen => b.id > g.id

\* When no handler runs, the newest notification about the membership is not
\* contradicted by it; a failed payment after the end leaves it past due.
Membership == {n \in queue : n.kind \in Good \cup {"premium_ended"} /\ n.op # "purchase"}
NewestIsRight ==
    (\A w \in Workers : task[w] = Idle) =>
        \A n \in Membership :
            (\A m \in Membership : m.id <= n.id)
                => sub.status # IF n.kind = "premium_ended" THEN "active" ELSE "cancelled"

-----------------------------------------------------------------------------
(* What comments and docs say, and the code does not do                    *)

\* "When premium starts or renews, remove any pending 'premium ended'
\* notifications"
StartCleans ==
    \A g, b \in queue :
        g.kind \in Good /\ b.kind = "premium_ended" /\ ~ b.seen => b.id > g.id

\* "removes unseen notifications of specified types for a user"
OnlyUnseenRemoved ==
    [][\A n \in queue : n.seen => n \in queue']_vars

\* One notification and one e-mail for the end that CCBill reports.
OneNoticePerEnd ==
    \A m, n \in queue : m.event = n.event /\ m.kind = n.kind => m = n

\* "when omitted we do not persist an email on the subscription and
\* notification emails are skipped"
NoAddressNoEmail == emails # {} => address = "row"
=============================================================================
