------------------------- MODULE NotificationsProofs -------------------------
(***************************************************************************)
(* Proofs about a user's notifications, for any number of workers,         *)
(* operations and faults.                                                  *)
(*                                                                         *)
(* Every property needs that ids tell the rows apart and grow, and that a  *)
(* row's operation has begun (NoticeInv).  That a notification inserted    *)
(* with the change is true then follows step by step (Honest); that the    *)
(* newest one is right when nothing runs needs what is already decided     *)
(* while a handler is between its notification and its write (SerialInv).  *)
(***************************************************************************)
EXTENDS MCNotifications, FiniteSetTheorems, TLAPS

\* What TypeOK says, without the bounds that only the model's counters keep.
SubRow == [status : {"none", "active", "past_due", "cancelled"}, failures : Nat, version : Nat]
Kept   == [id : Nat \ {0}, kind : Kinds, op : Ops, event : Nat, seen : BOOLEAN]
Task   == [step : Step, op : Ops \cup {"none"}, event : Nat, mails : SUBSET Kept,
           listed : SUBSET Nat, copy : SubRow]

Types ==
    /\ sub \in SubRow
    /\ queue \in SUBSET Kept
    /\ inserted \in Nat
    /\ task \in [Workers -> Task]
    /\ faults \in Nat
    /\ \E m \in 0..MaxEvents : wrote \in [1..m -> Nat]

\* Ids tell the rows apart and grow with every insert.
IdsGrow ==
    /\ \A n \in queue : n.id <= inserted
    /\ \A m, n \in queue : m.id = n.id => m = n

\* Rows and handlers are of operations that have begun.
Begun(t) == t.step # "idle" => t.op \in Ops /\ t.event \in DOMAIN wrote

HaveBegun ==
    /\ \A n \in queue : n.event \in DOMAIN wrote
    /\ \A w \in Workers : Begun(task[w])

NoticeInv == Types /\ IdsGrow /\ HaveBegun

\* Handlers that notify with the commit stop once the e-mails are out, and what
\* they have told about the membership they have also written.
MembershipKind(n) == n.kind \in Good \cup {"premium_ended"}

Honest ==
    group = "committed" =>
        /\ \A w \in Workers : /\ task[w].step \in {"idle", "begin", "mail"}
                              /\ task[w].op \in AfterCommit \cup {"none"}
        /\ \A n \in queue :
              MembershipKind(n) /\ n.op \notin {"purchase", "userCancel"} => wrote[n.event] > 0

-----------------------------------------------------------------------------
(* One handler at a time                                                   *)

Alone == \A v, w \in Workers : task[v] # Idle /\ task[w] # Idle => v = w

\* What the newest notification about the membership says fits a status.
Fits(n, status) == status # IF n.kind = "premium_ended" THEN "active" ELSE "cancelled"

NewestFits(status) ==
    \A n \in Membership : (\A m \in Membership : m.id <= n.id) => Fits(n, status)

\* Handlers that notify inside the transaction that writes the membership.
Rewriters == InTx \ {"saleFailed"}

\* An idle handler, and one that does not write after it has notified, owes
\* nothing; one that does has decided what it will write.
Settled(t) == t.op \notin Rewriters

Decided(t) ==
    /\ t.op \in AfterCommit => t.step \in {"begin", "mail"}
    /\ t.op \in TwoStep => /\ t.step \in {"begin", "mail", "list", "insert", "deliver"}
                           /\ t.step # "begin" => sub.status = "cancelled"
    /\ t.op \in InTx => t.step \in {"list", "clean", "insert", "deliver", "commit"}
    /\ t.op = "saleFailed" => t.step # "clean"
    /\ t.op \in Rewriters =>
          /\ t.copy.status = IF t.op \in {"upgrade", "reactivate"} THEN "active" ELSE "cancelled"
          /\ t.step \in {"deliver", "commit"} => NewestFits(t.copy.status)

SerialInv ==
    group = "serial" =>
        /\ faults = 0
        /\ Alone
        /\ \A w \in Workers :
              task[w] # Idle => /\ task[w].op \notin {"none", "userCancel", "purchase"}
                                /\ Decided(task[w])
        /\ (\A w \in Workers : Settled(task[w])) => NewestFits(sub.status)

MCInv == NoticeInv /\ Honest /\ SerialInv

-----------------------------------------------------------------------------
(* Rows and tasks                                                          *)

\* What the handlers pass to Rows: one notification, or a purchase's two.
Told(kinds) ==
    \/ \E k \in Kinds \ {"one_off_purchase_completed"} : kinds = {k}
    \/ kinds = {"premium_started", "one_off_purchase_completed"}

LEMMA NoticesTold ==
    ASSUME NEW op, NEW s
    PROVE  Told(Notices(op, s)) /\ Told({Notice(op)})
  BY DEF Told, Notices, Notice, Kinds

LEMMA RowsAre ==
    ASSUME inserted \in Nat, NEW kinds, Told(kinds), NEW op \in Ops, NEW e \in Nat,
           NEW R, R = Rows(kinds, op, e)
    PROVE  /\ R \in SUBSET Kept
           /\ \A n \in R : /\ n.op = op /\ n.event = e /\ n.kind \in kinds
                           /\ inserted < n.id /\ n.id <= inserted + Cardinality(R)
           /\ \A m, n \in R : m.id = n.id => m = n
           /\ Cardinality(R) \in Nat
<1> DEFINE Made(k) == [id |-> inserted + (IF k = "one_off_purchase_completed" THEN 2 ELSE 1),
                       kind |-> k, op |-> op, event |-> e, seen |-> FALSE]
<1>1. R = {Made(k) : k \in kinds}
  BY DEF Rows
<1>2. ASSUME NEW k \in Kinds
      PROVE  /\ Made(k) \in Kept
             /\ Made(k).id = inserted + (IF k = "one_off_purchase_completed" THEN 2 ELSE 1)
             /\ Made(k).kind = k /\ Made(k).op = op /\ Made(k).event = e
  BY DEF Kept
<1> HIDE DEF Made
<1>3. CASE \E k \in Kinds \ {"one_off_purchase_completed"} : kinds = {k}
  <2>1. PICK k \in Kinds \ {"one_off_purchase_completed"} : kinds = {k}
    BY <1>3
  <2>2. R = {Made(k)}
    BY <1>1, <2>1
  <2>3. Cardinality(R) = 1
    BY <2>2, FS_Singleton
  <2> QED
    BY <1>2, <2>1, <2>2, <2>3
<1>4. CASE kinds = {"premium_started", "one_off_purchase_completed"}
  <2> DEFINE a == Made("premium_started")
             b == Made("one_off_purchase_completed")
  <2>1. R = {a, b}
    BY <1>1, <1>4
  <2>2. /\ a \in Kept /\ a.id = inserted + 1 /\ a.kind = "premium_started" /\ a.op = op
        /\ a.event = e
        /\ b \in Kept /\ b.id = inserted + 2 /\ b.kind = "one_off_purchase_completed"
        /\ b.op = op /\ b.event = e
    BY <1>2 DEF Kinds
  <2> HIDE DEF a, b
  <2>3. Cardinality({a}) = 1 /\ IsFiniteSet({a}) /\ b \notin {a}
    BY <2>2, FS_Singleton
  <2>4. Cardinality({a} \cup {b}) = 2
    BY <2>3, FS_AddElement
  <2>5. R = {a} \cup {b}
    BY <2>1
  <2>6. Cardinality(R) = 2
    BY <2>4, <2>5
  <2> QED
    BY <1>4, <2>1, <2>2, <2>6
<1> QED
  BY <1>3, <1>4 DEF Told

\* New rows come after every other.
LEMMA StoreKeeps ==
    ASSUME NoticeInv, NEW kinds, Told(kinds), NEW op \in Ops, NEW e \in DOMAIN wrote, e \in Nat,
           NEW R, R = Rows(kinds, op, e), Store(R)
    PROVE  /\ queue' \in SUBSET Kept
           /\ inserted' \in Nat
           /\ IdsGrow'
           /\ \A n \in queue' : n.event \in DOMAIN wrote
           /\ \A n \in R : n.id > inserted
<1>1. inserted \in Nat /\ queue \in SUBSET Kept
  BY DEF NoticeInv, Types
<1>2. /\ R \in SUBSET Kept
      /\ \A n \in R : /\ n.event = e
                      /\ inserted < n.id /\ n.id <= inserted + Cardinality(R)
      /\ \A m, n \in R : m.id = n.id => m = n
      /\ Cardinality(R) \in Nat
  BY <1>1, RowsAre
<1>3. queue' = queue \cup R /\ inserted' = inserted + Cardinality(R)
  BY DEF Store
<1>4. \A n \in queue : n.id \in Nat /\ n.id <= inserted
  BY <1>1 DEF NoticeInv, IdsGrow, Kept
<1>5. \A n \in R : n.id \in Nat
  BY <1>2 DEF Kept
<1>6. \A n \in queue' : n.id <= inserted'
  BY <1>1, <1>2, <1>3, <1>4, <1>5
<1>7. ASSUME NEW m \in queue', NEW n \in queue', m.id = n.id
      PROVE  m = n
  <2>1. CASE m \in queue /\ n \in queue
    BY <1>7, <2>1 DEF NoticeInv, IdsGrow
  <2>2. CASE m \in R /\ n \in R
    BY <1>2, <1>7, <2>2
  <2>3. CASE (m \in queue /\ n \in R) \/ (m \in R /\ n \in queue)
    BY <1>1, <1>2, <1>4, <1>5, <1>7, <2>3
  <2> QED
    BY <1>3, <2>1, <2>2, <2>3
<1> QED
  BY <1>1, <1>2, <1>3, <1>6, <1>7 DEF IdsGrow, NoticeInv, HaveBegun

LEMMA IdleTask == Idle \in Task /\ Idle.step = "idle" /\ Idle.op = "none"
  BY DEF Idle, Task, Step, SubRow, NewSub

\* One worker goes on.
LEMMA GoIs ==
    ASSUME task \in [Workers -> Task], NEW w \in Workers, NEW t \in Task, Go(w, t)
    PROVE  /\ task' \in [Workers -> Task]
           /\ task'[w] = t
           /\ \A v \in Workers : v # w => task'[v] = task[v]
  BY DEF Go

\* Another step of the same operation.
Same(u, t) == u.op = t.op /\ u.event = t.event

\* Whoever goes on with its operation, or stops, leaves HaveBegun alone.
LEMMA GoKeeps ==
    ASSUME NoticeInv, NEW w \in Workers, NEW t \in Task, Go(w, t),
           t.step # "idle" => task[w].step # "idle" /\ Same(t, task[w])
    PROVE  /\ task' \in [Workers -> Task]
           /\ \A v \in Workers : Begun(task'[v])
  BY GoIs DEF NoticeInv, Types, HaveBegun, Begun, Same

\* A step of a handler's program, with the field it sets: the rest stays.
Like(u, t) == Same(u, t) /\ u.copy = t.copy

LEMMA StepSet ==
    ASSUME NEW t \in Task, NEW step \in Step, NEW u, u = [t EXCEPT !.step = step]
    PROVE  u \in Task /\ Like(u, t) /\ u.step = step /\ u.listed = t.listed
  BY DEF Task, Like, Same

\* A task with its e-mails still to send.
LeftWith(u, t, rows) == u = [t EXCEPT !.mails = rows]

LEMMA MailsSet ==
    ASSUME NEW t \in Task, NEW rows \in SUBSET Kept, NEW u, LeftWith(u, t, rows)
    PROVE  u \in Task /\ Like(u, t) /\ u.step = t.step /\ u.listed = t.listed
  BY DEF Task, Like, Same, LeftWith

LEMMA ListedSet ==
    ASSUME NEW t \in Task, NEW ids \in SUBSET Nat, NEW u, u = [t EXCEPT !.listed = ids]
    PROVE  u \in Task /\ Like(u, t) /\ u.step = t.step /\ u.listed = ids
  BY DEF Task, Like, Same

\* What follows the last e-mail: another step of the same handler, or nothing.
LEMMA ResumeIs ==
    ASSUME NEW t \in Task
    PROVE  /\ Resume(t) \in Task
           /\ \/ Resume(t) = Idle
              \/ /\ Same(Resume(t), t)
                 /\ Resume(t).copy = t.copy /\ Resume(t).listed = t.listed
                 /\ \/ t.step = "mail" /\ t.op \in TwoStep /\ Resume(t).step = "list"
                    \/ t.step = "deliver" /\ t.op \in InTx /\ Resume(t).step = "commit"
           /\ t.step = "deliver" /\ t.op \in InTx => Resume(t).step = "commit"
<1>1. \A step \in {"list", "commit"} :
         /\ [t EXCEPT !.step = step] \in Task
         /\ [t EXCEPT !.step = step].step = step
         /\ [t EXCEPT !.step = step].event = t.event
         /\ [t EXCEPT !.step = step].op = t.op
         /\ [t EXCEPT !.step = step].copy = t.copy
         /\ [t EXCEPT !.step = step].listed = t.listed
  BY DEF Task, Step
<1> QED
  BY <1>1, IdleTask DEF Resume, Same

\* A row as an operation leaves it.
LEMMA ChangedIs ==
    ASSUME NEW s \in SubRow, NEW op
    PROVE  /\ Changed(s, op) \in SubRow
           /\ op \in {"create", "renew", "upgrade", "reactivate"}
                => Changed(s, op).status = "active"
           /\ op \in {"cancel", "refund", "chargeback"} \cup TwoStep
                => Changed(s, op).status = "cancelled"
           /\ op = "fail" => Changed(s, op).status \in {"cancelled", "past_due"}
           /\ op \in {"purchase", "saleFailed", "userCancel"} => Changed(s, op) = s
<1>1. \A x \in {"active", "cancelled"} :
         [s EXCEPT !.status = x] \in SubRow /\ [s EXCEPT !.status = x].status = x
  BY DEF SubRow
<1>2. Failed(s) \in SubRow /\ Failed(s).status \in {"cancelled", "past_due"}
  <2>1. s.failures + 1 \in Nat
    BY DEF SubRow
  <2>2. \A x \in {"cancelled", "past_due"} :
           LET r == [s EXCEPT !.failures = s.failures + 1, !.status = x]
           IN  r \in SubRow /\ r.status = x
    BY <2>1 DEF SubRow
  <2>3. \E x \in {"cancelled", "past_due"} :
           Failed(s) = [s EXCEPT !.failures = s.failures + 1, !.status = x]
    BY DEF Failed
  <2> QED
    BY <2>2, <2>3
<1>3. CASE op \in {"create", "renew", "upgrade", "reactivate"}
  <2>1. Changed(s, op) = [s EXCEPT !.status = "active"]
    BY <1>3 DEF Changed, TwoStep
  <2> QED
    BY <1>1, <1>3, <2>1 DEF TwoStep
<1>4. CASE op \in {"cancel", "refund", "chargeback"} \cup TwoStep
  <2>1. Changed(s, op) = [s EXCEPT !.status = "cancelled"]
    BY <1>4 DEF Changed, TwoStep
  <2> QED
    BY <1>1, <1>4, <2>1 DEF TwoStep
<1>5. CASE op = "fail"
  <2>1. Changed(s, op) = Failed(s)
    BY <1>5 DEF Changed, TwoStep
  <2> QED
    BY <1>2, <1>5, <2>1 DEF TwoStep
<1>6. CASE op \notin {"create", "renew", "upgrade", "reactivate", "cancel", "refund",
                    "chargeback", "fail"} \cup TwoStep
  <2>1. Changed(s, op) = s
    BY <1>6 DEF Changed, TwoStep
  <2> QED
    BY <1>6, <2>1 DEF TwoStep
<1> QED
  BY <1>3, <1>4, <1>5, <1>6

LEMMA WriteIs ==
    ASSUME Types, NEW s \in SubRow, NEW op, NEW e \in DOMAIN wrote, Write(s, op, e)
    PROVE  /\ sub' \in SubRow
           /\ sub'.status = IF Writes(op) THEN s.status ELSE sub.status
           /\ \E m \in 0..MaxEvents : wrote' \in [1..m -> Nat]
           /\ DOMAIN wrote' = DOMAIN wrote
           /\ Writes(op) => wrote'[e] > 0
           /\ \A x \in DOMAIN wrote : x # e => wrote'[x] = wrote[x]
<1>1. PICK m \in 0..MaxEvents : wrote \in [1..m -> Nat]
  BY DEF Types
<1>2. CASE Writes(op)
  <2>1. sub.version + 1 \in Nat /\ sub.version + 1 > 0
    BY DEF Types, SubRow
  <2>2. sub' = [s EXCEPT !.version = sub.version + 1]
        /\ wrote' = [wrote EXCEPT ![e] = sub.version + 1]
    BY <1>2 DEF Write
  <2>3. sub' \in SubRow /\ sub'.status = s.status
    BY <2>1, <2>2 DEF SubRow
  <2>4. wrote' \in [1..m -> Nat] /\ wrote'[e] > 0
        /\ \A x \in DOMAIN wrote : x # e => wrote'[x] = wrote[x]
    BY <1>1, <2>1, <2>2
  <2> QED
    BY <1>1, <1>2, <2>3, <2>4
<1>3. CASE ~ Writes(op)
  BY <1>1, <1>3 DEF Write, Types, SubRow
<1> QED
  BY <1>2, <1>3

-----------------------------------------------------------------------------
(* Steps of the rows                                                       *)

LEMMA BeginKeeps ==
    ASSUME NoticeInv, NEW w \in Workers, NEW op \in Ops, Begin(w, op)
    PROVE  /\ NoticeInv'
           /\ \A x \in DOMAIN wrote : x \in DOMAIN wrote' /\ wrote'[x] = wrote[x]
           /\ task'[w].step = FirstStep(op) /\ task'[w].op = op /\ task'[w].event \in DOMAIN wrote'
           /\ task'[w].listed = {}
           /\ task'[w].copy = IF op \in InTx THEN Changed(sub, op) ELSE NewSub
           /\ \A v \in Workers : v # w => task'[v] = task[v]
<1>1. PICK m \in 0..MaxEvents : wrote \in [1..m -> Nat]
  BY DEF NoticeInv, Types
<1>2. m \in Nat /\ Cardinality(DOMAIN wrote) = m
  <2>1. m \in Nat
    BY <1>1, NotificationAssumption
  <2>2. DOMAIN wrote = 1..m /\ Cardinality(1..m) = m
    BY <1>1, <2>1, FS_Interval
  <2> QED
    BY <2>1, <2>2
<1> DEFINE e == m + 1
           t == [Idle EXCEPT !.step = FirstStep(op), !.op = op, !.event = e,
                             !.copy = IF op \in InTx THEN Changed(sub, op) ELSE NewSub]
<1>3. /\ e \in 1..MaxEvents
      /\ wrote' = [x \in 1..e |-> IF x = e THEN 0 ELSE wrote[x]]
      /\ Go(w, t)
      /\ UNCHANGED <<sub, queue, inserted, faults>>
  BY <1>2 DEF Begin, Events
<1>4. wrote' \in [1..e -> Nat] /\ \A x \in 1..m : x \in 1..e /\ wrote'[x] = wrote[x]
  BY <1>1, <1>2, <1>3
<1>5. /\ t \in Task /\ t.step = FirstStep(op) /\ t.op = op /\ t.event = e /\ t.listed = {}
      /\ t.copy = IF op \in InTx THEN Changed(sub, op) ELSE NewSub
  <2>1. Changed(sub, op) \in SubRow /\ NewSub \in SubRow
    BY ChangedIs DEF NoticeInv, Types, NewSub, SubRow
  <2>2. FirstStep(op) \in Step /\ e \in Nat
    BY <1>2 DEF FirstStep, Step
  <2> QED
    BY <2>1, <2>2 DEF Idle, Task
<1> HIDE DEF t
<1>6. /\ task' \in [Workers -> Task] /\ task'[w] = t
      /\ \A v \in Workers : v # w => task'[v] = task[v]
  BY <1>3, <1>5, GoIs DEF NoticeInv, Types
<1>7. Types'
  <2>1. e \in 0..MaxEvents
    BY <1>1, <1>3
  <2> QED
    BY <1>3, <1>4, <1>6, <2>1 DEF NoticeInv, Types
<1>8. HaveBegun' /\ IdsGrow'
  <2>1. IdsGrow'
    BY <1>3 DEF NoticeInv, IdsGrow
  <2>2. \A x \in DOMAIN wrote : x \in DOMAIN wrote'
    BY <1>1, <1>4
  <2>3. t.op \in Ops /\ t.event \in DOMAIN wrote'
    BY <1>2, <1>4, <1>5
  <2>4. \A v \in Workers : Begun(task[v])'
    BY <1>6, <2>2, <2>3 DEF NoticeInv, HaveBegun, Begun
  <2>5. \A n \in queue' : n.event \in DOMAIN wrote'
    BY <1>3, <2>2 DEF NoticeInv, HaveBegun
  <2> QED
    BY <2>1, <2>4, <2>5 DEF HaveBegun
<1> QED
  BY <1>1, <1>2, <1>4, <1>5, <1>6, <1>7, <1>8 DEF NoticeInv

\* A handler goes on, and neither rows nor versions change.
LEMMA QuietKeeps ==
    ASSUME NoticeInv, NEW w \in Workers, NEW t \in Task, Go(w, t), faults' \in Nat,
           t.step # "idle" => task[w].step # "idle" /\ Same(t, task[w]),
           UNCHANGED <<sub, queue, inserted, wrote>>
    PROVE  NoticeInv'
<1>1. task' \in [Workers -> Task]
      /\ \A v \in Workers : Begun(task'[v])
  BY GoKeeps
<1> QED
  BY <1>1 DEF NoticeInv, Types, IdsGrow, HaveBegun, Begun

LEMMA FaultIs == ASSUME faults \in Nat, Fault PROVE faults' \in Nat /\ faults' # 0
  BY DEF Fault

\* A handler that does something has begun its operation.
LEMMA AtWork ==
    ASSUME NoticeInv, NEW w \in Workers, task[w].step # "idle"
    PROVE  /\ task[w] \in Task /\ task[w].op \in Ops
           /\ task[w].event \in DOMAIN wrote /\ task[w].event \in Nat
<1>1. task[w] \in Task /\ task[w].op \in Ops /\ task[w].event \in DOMAIN wrote
  BY DEF NoticeInv, Types, HaveBegun, Begun, Same
<1> QED
  BY <1>1 DEF Task

LEMMA TransactKeeps ==
    ASSUME NoticeInv, NEW w \in Workers, Transact(w)
    PROVE  NoticeInv'
<1> DEFINE t == task[w]
           s == Changed(sub, t.op)
           R == Rows(Notices(t.op, s), t.op, t.event)
           u == [t EXCEPT !.step = "mail", !.mails = R]
<1>1. /\ t.step = "begin" /\ Write(s, t.op, t.event) /\ Store(R) /\ Go(w, u)
      /\ UNCHANGED faults
  BY DEF Transact
<1>2. t \in Task /\ t.op \in Ops /\ t.event \in DOMAIN wrote /\ t.event \in Nat
  BY <1>1, AtWork
<1>3. /\ sub' \in SubRow /\ DOMAIN wrote' = DOMAIN wrote
      /\ \E m \in 0..MaxEvents : wrote' \in [1..m -> Nat]
  <2>1. s \in SubRow
    BY ChangedIs DEF NoticeInv, Types
  <2> HIDE DEF s
  <2> QED
    BY <1>1, <1>2, <2>1, WriteIs DEF NoticeInv
<1>4. Told(Notices(t.op, s))
  BY NoticesTold
<1>5. R \in SUBSET Kept
  <2> HIDE DEF s, t
  <2> QED
    BY <1>2, <1>4, RowsAre DEF NoticeInv, Types, t
<1>6. queue' \in SUBSET Kept /\ inserted' \in Nat /\ IdsGrow'
      /\ \A n \in queue' : n.event \in DOMAIN wrote
  <2>1. t.op \in Ops
    BY <1>1, AtWork
  <2> HIDE DEF s, t
  <2> QED
    BY <1>1, <1>2, <1>4, <2>1, StoreKeeps DEF NoticeInv, Types
<1>7. u \in Task /\ Same(u, t)
  <2> HIDE DEF t, R
  <2> QED
    BY <1>2, <1>5 DEF Task, Step, Same
<1>8. task' \in [Workers -> Task]
      /\ \A v \in Workers : Begun(task'[v])
  <2> HIDE DEF u
  <2> QED
    BY <1>1, <1>7, GoKeeps
<1> HIDE DEF t, R, u, s
<1> QED
  BY <1>1, <1>3, <1>6, <1>8 DEF NoticeInv, Types, HaveBegun, Begun, Same

LEMMA TransactFailsKeeps ==
    ASSUME NoticeInv, NEW w \in Workers, TransactFails(w)
    PROVE  NoticeInv'
<1>1. task[w].step = "begin" /\ task[w] \in Task
  BY AtWork DEF TransactFails
<1> DEFINE u == [task[w] EXCEPT !.step = "mail"]
<1>2. u \in Task /\ Same(u, task[w])
  BY <1>1, StepSet DEF Step, Like, Same
<1>3. /\ Resume(u) \in Task
      /\ Resume(u).step # "idle" => Same(Resume(u), task[w])
  <2> HIDE DEF u
  <2> QED
    BY <1>2, ResumeIs, IdleTask DEF Same
<1>4. faults' \in Nat /\ \E t \in {Idle, Resume(u)} : Go(w, t)
  <2> HIDE DEF u
  <2>1. Go(w, Resume(u)) \/ Go(w, Idle)
    BY DEF TransactFails, Done, u
  <2>2. faults' \in Nat
    BY DEF TransactFails, Fault, NoticeInv, Types
  <2> QED
    BY <2>1, <2>2
<1>5. UNCHANGED <<sub, queue, inserted, wrote>>
  BY DEF TransactFails
<1> HIDE DEF u
<1> QED
  BY <1>1, <1>3, <1>4, <1>5, QuietKeeps, IdleTask

LEMMA MailKeeps ==
    ASSUME NoticeInv, NEW w \in Workers, Mail(w)
    PROVE  NoticeInv'
<1>1. task[w].step \in {"mail", "deliver"} /\ task[w] \in Task
  <2>1. task[w].step \in {"mail", "deliver"}
    BY DEF Mail
  <2> QED
    BY <2>1, AtWork
<1>2. PICK n \in task[w].mails :
         LET t == [task[w] EXCEPT !.mails = @ \ {n}] IN
         Go(w, IF t.mails = {} THEN Resume(t) ELSE t)
  BY DEF Mail
<1> DEFINE t == [task[w] EXCEPT !.mails = task[w].mails \ {n}]
<1>3. t \in Task /\ Same(t, task[w])
  <2>1. PICK rows \in SUBSET Kept : rows = task[w].mails \ {n}
    BY <1>1 DEF Task
  <2>2. LeftWith(t, task[w], rows)
    BY <2>1 DEF LeftWith
  <2> HIDE DEF t
  <2>3. t \in Task /\ Like(t, task[w])
    BY <1>1, <2>2, MailsSet
  <2> QED
    BY <2>3 DEF Like
<1>4. \E u \in {t, Resume(t)} : Go(w, u)
  BY <1>2
<1> HIDE DEF t
<1>5. Resume(t) \in Task /\ (Resume(t).step # "idle" => Same(Resume(t), task[w]))
  BY <1>3, ResumeIs, IdleTask DEF Same
<1>6. faults' \in Nat /\ UNCHANGED <<sub, queue, inserted, wrote>>
  BY DEF Mail, Fault, NoticeInv, Types
<1> QED
  BY <1>1, <1>3, <1>4, <1>5, <1>6, QuietKeeps

LEMMA ListKeeps ==
    ASSUME NoticeInv, NEW w \in Workers, List(w)
    PROVE  NoticeInv'
<1> DEFINE ids == Unseen(Obsolete(Notice(task[w].op)))
<1>1. task[w].step = "list" /\ task[w] \in Task
  BY AtWork DEF List
<1>2. ids \in SUBSET Nat
  BY DEF Unseen, NoticeInv, Types, Kept
<1>3. \E u \in {[task[w] EXCEPT !.step = "clean", !.listed = ids], [task[w] EXCEPT !.step = "insert"]} :
         Go(w, u)
  BY DEF List, To
<1> HIDE DEF ids
<1>4. \A u \in {[task[w] EXCEPT !.step = "clean", !.listed = ids], [task[w] EXCEPT !.step = "insert"]} :
         u \in Task /\ Same(u, task[w])
  <2>1. "clean" \in Step /\ "insert" \in Step
    BY DEF Step
  <2>2. \A u : u = [task[w] EXCEPT !.step = "clean", !.listed = ids]
           => u \in Task /\ Like(u, task[w])
    BY <1>1, <1>2, <2>1 DEF Task, Like, Same
  <2>3. \A u : u = [task[w] EXCEPT !.step = "insert"] => u \in Task /\ Like(u, task[w])
    BY <1>1, <2>1, StepSet
  <2> QED
    BY <2>2, <2>3 DEF Like, Same
<1>5. faults' \in Nat /\ UNCHANGED <<sub, queue, inserted, wrote>>
  BY DEF List, Fault, NoticeInv, Types
<1> QED
  BY <1>1, <1>3, <1>4, <1>5, QuietKeeps

LEMMA CleanKeeps ==
    ASSUME NoticeInv, NEW w \in Workers, Clean(w)
    PROVE  NoticeInv'
<1>1. task[w].step = "clean" /\ task[w] \in Task
  BY AtWork DEF Clean
<1>2. PICK i \in task[w].listed :
         /\ LET t == [task[w] EXCEPT !.listed = @ \ {i}] IN
            Go(w, IF t.listed = {} THEN [t EXCEPT !.step = "insert"] ELSE t)
         /\ \/ queue' = {n \in queue : n.id # i} /\ UNCHANGED faults
            \/ Fault /\ UNCHANGED queue
  BY DEF Clean
<1> DEFINE t == [task[w] EXCEPT !.listed = task[w].listed \ {i}]
           u == [t EXCEPT !.step = "insert"]
<1>3. t \in Task /\ Same(t, task[w])
  BY <1>1 DEF Task, Same
<1>4. u \in Task /\ Same(u, task[w])
  <2> HIDE DEF t
  <2> QED
    BY <1>3 DEF Task, Step, Same
<1>5. \E x \in {t, u} : Go(w, x)
  BY <1>2
<1> HIDE DEF t, u
<1>6. task' \in [Workers -> Task]
      /\ \A v \in Workers : Begun(task'[v])
  BY <1>1, <1>3, <1>4, <1>5, GoKeeps
<1>7. faults' \in Nat /\ queue' \subseteq queue /\ UNCHANGED <<sub, inserted, wrote>>
  BY <1>2 DEF Clean, Fault, NoticeInv, Types
<1> QED
  BY <1>6, <1>7 DEF NoticeInv, Types, IdsGrow, HaveBegun, Begun

LEMMA InsertKeeps ==
    ASSUME NoticeInv, NEW w \in Workers, Insert(w)
    PROVE  NoticeInv'
<1> DEFINE t == task[w]
           R == Rows({Notice(t.op)}, t.op, t.event)
           u == [t EXCEPT !.step = "deliver", !.mails = R]
           v == [t EXCEPT !.step = "deliver"]
<1>1. /\ t.step = "insert" /\ UNCHANGED <<sub, wrote>>
      /\ \/ Store(R) /\ UNCHANGED faults /\ \E x \in {u, Idle} : Go(w, x)
         \/ Fault /\ UNCHANGED <<queue, inserted>> /\ Go(w, Resume(v))
  BY DEF Insert
<1>2. t \in Task /\ t.op \in Ops /\ t.event \in DOMAIN wrote /\ t.event \in Nat
  BY <1>1, AtWork
<1>3. Told({Notice(t.op)})
  BY NoticesTold
<1>4. R \in SUBSET Kept
  <2> HIDE DEF t
  <2> QED
    BY <1>2, <1>3, RowsAre DEF NoticeInv, Types
<1>5. /\ u \in Task /\ Same(u, t)
      /\ v \in Task /\ Same(v, t)
  <2> HIDE DEF t, R
  <2> QED
    BY <1>2, <1>4 DEF Task, Step, Same
<1>6. Resume(v) \in Task /\ (Resume(v).step # "idle" => Same(Resume(v), t))
  <2> HIDE DEF v
  <2> QED
    BY <1>5, ResumeIs, IdleTask DEF Same
<1>7. CASE Store(R) /\ UNCHANGED faults /\ \E x \in {u, Idle} : Go(w, x)
  <2>1. queue' \in SUBSET Kept /\ inserted' \in Nat /\ IdsGrow'
        /\ \A n \in queue' : n.event \in DOMAIN wrote
    <3> HIDE DEF t
    <3> QED
      BY <1>2, <1>3, <1>7, StoreKeeps
  <2>2. task' \in [Workers -> Task]
        /\ \A x \in Workers : Begun(task'[x])
    <3>1. PICK x \in {u, Idle} : Go(w, x)
      BY <1>7
    <3>2. x \in Task /\ (x.step # "idle" => t.step # "idle" /\ Same(x, t))
      <4> HIDE DEF u
      <4> QED
        BY <1>1, <1>5, <3>1, IdleTask
    <3> QED
      BY <3>1, <3>2, GoKeeps
  <2> HIDE DEF t, R, u, v
  <2> QED
    BY <1>1, <1>7, <2>1, <2>2 DEF NoticeInv, Types, HaveBegun, Begun, Same
<1>8. CASE Fault /\ UNCHANGED <<queue, inserted>> /\ Go(w, Resume(v))
  <2>1. faults' \in Nat
    BY <1>8 DEF Fault, NoticeInv, Types
  <2> HIDE DEF v
  <2> QED
    BY <1>1, <1>6, <1>8, <2>1, QuietKeeps
<1> QED
  BY <1>1, <1>7, <1>8

LEMMA CommitKeeps ==
    ASSUME NoticeInv, NEW w \in Workers, Commit(w)
    PROVE  NoticeInv'
<1>1. task[w].step = "commit" /\ Write(task[w].copy, task[w].op, task[w].event) /\ Go(w, Idle)
      /\ UNCHANGED <<queue, inserted, faults>>
  BY DEF Commit, Done
<1>2. task[w] \in Task /\ task[w].event \in DOMAIN wrote /\ task[w].copy \in SubRow
  <2>1. task[w] \in Task /\ task[w].event \in DOMAIN wrote
    BY <1>1, AtWork
  <2> QED
    BY <2>1 DEF Task
<1>3. /\ sub' \in SubRow /\ DOMAIN wrote' = DOMAIN wrote
      /\ \E m \in 0..MaxEvents : wrote' \in [1..m -> Nat]
  BY <1>1, <1>2, WriteIs DEF NoticeInv
<1>4. task' \in [Workers -> Task]
      /\ \A v \in Workers : Begun(task'[v])
  BY <1>1, GoKeeps, IdleTask
<1> QED
  BY <1>1, <1>3, <1>4 DEF NoticeInv, Types, IdsGrow, HaveBegun, Begun

LEMMA RollBackKeeps ==
    ASSUME NoticeInv, NEW w \in Workers, RollBack(w)
    PROVE  NoticeInv'
  BY QuietKeeps, IdleTask DEF RollBack, Done, Fault, NoticeInv, Types

\* The user reads a notification: its kind, id and operation stay.
LEMMA ReadIs ==
    ASSUME queue \in SUBSET Kept, MarkNotificationRead
    PROVE  /\ queue' \in SUBSET Kept
           /\ \A n \in queue' : \E m \in queue :
                 /\ n.id = m.id /\ n.kind = m.kind /\ n.op = m.op /\ n.event = m.event
                 /\ n = IF m.id = reading THEN [m EXCEPT !.seen = TRUE] ELSE m
           /\ \A m \in queue : \E n \in queue' :
                 /\ n.id = m.id /\ n.kind = m.kind /\ n.op = m.op /\ n.event = m.event
                 /\ m.seen => n = m
<1> DEFINE After(m) == IF m.id = reading THEN [m EXCEPT !.seen = TRUE] ELSE m
<1>1. ASSUME NEW m \in queue
      PROVE  /\ After(m) \in Kept
             /\ After(m).id = m.id /\ After(m).kind = m.kind /\ After(m).op = m.op
             /\ After(m).event = m.event
             /\ m.seen => After(m) = m
  BY DEF Kept
<1>2. queue' = {After(m) : m \in queue}
  BY DEF MarkNotificationRead
<1>3. \A m \in queue : After(m) = IF m.id = reading THEN [m EXCEPT !.seen = TRUE] ELSE m
  OBVIOUS
<1> HIDE DEF After
<1> QED
  BY <1>1, <1>2, <1>3

LEMMA UserKeeps ==
    ASSUME NoticeInv, MarkNotificationRead \/ \E i \in Ids : Read(i)
    PROVE  NoticeInv'
<1>1. CASE MarkNotificationRead
  <2>1. UNCHANGED <<sub, inserted, task, wrote, faults>>
    BY <1>1 DEF MarkNotificationRead
  <2>2. /\ queue' \in SUBSET Kept
        /\ \A n \in queue' : \E m \in queue :
              /\ n.id = m.id /\ n.event = m.event
              /\ n = IF m.id = reading THEN [m EXCEPT !.seen = TRUE] ELSE m
    BY <1>1, ReadIs DEF NoticeInv, Types
  <2>3. IdsGrow'
    <3>1. \A n \in queue' : n.id <= inserted'
      BY <2>1, <2>2 DEF NoticeInv, IdsGrow
    <3>2. ASSUME NEW x \in queue', NEW y \in queue', x.id = y.id
          PROVE  x = y
      <4>1. PICK m \in queue : x.id = m.id
              /\ x = IF m.id = reading THEN [m EXCEPT !.seen = TRUE] ELSE m
        BY <2>2
      <4>2. PICK n \in queue : y.id = n.id
              /\ y = IF n.id = reading THEN [n EXCEPT !.seen = TRUE] ELSE n
        BY <2>2
      <4>3. m = n
        BY <3>2, <4>1, <4>2 DEF NoticeInv, IdsGrow
      <4> QED
        BY <4>1, <4>2, <4>3
    <3> QED
      BY <3>1, <3>2 DEF IdsGrow
  <2>4. HaveBegun'
    BY <2>1, <2>2 DEF NoticeInv, HaveBegun, Begun
  <2> QED
    BY <2>1, <2>2, <2>3, <2>4 DEF NoticeInv, Types
<1>2. CASE \E i \in Ids : Read(i)
  BY <1>2 DEF Read, NoticeInv, Types, IdsGrow, HaveBegun, Begun
<1> QED
  BY <1>1, <1>2

LEMMA NextKeeps ==
    ASSUME NoticeInv, [Next]_vars
    PROVE  NoticeInv'
<1>1. CASE Next
  <2>1. CASE \E w \in Workers : \E op \in Ops : Begin(w, op)
    BY <2>1, BeginKeeps
  <2>2. CASE \E w \in Workers :
                \/ Transact(w) \/ TransactFails(w) \/ Mail(w) \/ List(w) \/ Clean(w)
                \/ Insert(w) \/ Commit(w) \/ RollBack(w)
    BY <2>2, TransactKeeps, TransactFailsKeeps, MailKeeps, ListKeeps, CleanKeeps, InsertKeeps,
       CommitKeeps, RollBackKeeps
  <2>3. CASE MarkNotificationRead \/ \E i \in Ids : Read(i)
    BY <2>3, UserKeeps
  <2> QED
    BY <1>1, <2>1, <2>2, <2>3 DEF Next
<1>2. CASE UNCHANGED vars
  BY <1>2 DEF vars, NoticeInv, Types, IdsGrow, HaveBegun, Begun
<1> QED
  BY <1>1, <1>2

LEMMA Begins == Init => NoticeInv
<1> SUFFICES ASSUME Init PROVE NoticeInv
  OBVIOUS
<1>1. sub \in SubRow
  BY DEF Init, NewSub, SubRow
<1>2. wrote \in [1..0 -> Nat] /\ 0 \in 0..MaxEvents
  BY NotificationAssumption DEF Init
<1>3. task \in [Workers -> Task] /\ \A w \in Workers : task[w].step = "idle"
  BY IdleTask DEF Init
<1> QED
  BY <1>1, <1>2, <1>3 DEF Init, NoticeInv, Types, IdsGrow, HaveBegun, Begun

-----------------------------------------------------------------------------
(* What the user has read stays                                            *)

LEMMA GoListsNoMore ==
    ASSUME NoticeInv, NEW w \in Workers, NEW t, Go(w, t),
           NEW i, ~ Listed(i), i \notin t.listed
    PROVE  ~ Listed(i)'
  BY DEF Go, Listed, NoticeInv, Types

\* The list of a cleanup leaves out what the user has read: no other row has its id.
LEMMA SeenStays ==
    ASSUME NoticeInv, Next, NEW n \in queue, n.seen, ~ Listed(n.id)
    PROVE  n \in queue' /\ ~ Listed(n.id)'
<1>1. ASSUME NEW w \in Workers, NEW op \in Ops, Begin(w, op)
      PROVE  n \in queue' /\ ~ Listed(n.id)'
  <2>1. UNCHANGED queue
    BY <1>1 DEF Begin
  <2>2. task'[w].listed = {} /\ \A v \in Workers : v # w => task'[v] = task[v]
    BY <1>1, BeginKeeps
  <2> QED
    BY <2>1, <2>2 DEF Listed
<1>2. ASSUME NEW w \in Workers, Transact(w)
      PROVE  n \in queue' /\ ~ Listed(n.id)'
  <2>1. task[w] \in Task
    BY DEF NoticeInv, Types
  <2>2. \E rows : Go(w, [task[w] EXCEPT !.step = "mail", !.mails = rows])
    BY <1>2 DEF Transact
  <2>3. PICK rows : Go(w, [task[w] EXCEPT !.step = "mail", !.mails = rows])
    BY <2>2
  <2>4. [task[w] EXCEPT !.step = "mail", !.mails = rows].listed = task[w].listed
    BY <2>1 DEF Task
  <2>5. n.id \notin task[w].listed
    BY DEF Listed
  <2>6. n \in queue'
    BY <1>2 DEF Transact, Store
  <2> QED
    BY <2>3, <2>4, <2>5, <2>6, GoListsNoMore
<1>3. ASSUME NEW w \in Workers, TransactFails(w)
      PROVE  n \in queue' /\ ~ Listed(n.id)'
  <2> DEFINE u == [task[w] EXCEPT !.step = "mail"]
  <2>1. u \in Task /\ u.listed = task[w].listed
    BY StepSet DEF NoticeInv, Types, Step
  <2>2. UNCHANGED queue /\ \E t \in {Idle, Resume(u)} : Go(w, t)
    BY <1>3 DEF TransactFails, Done
  <2> HIDE DEF u
  <2>3. Resume(u).listed = u.listed \/ Resume(u) = Idle
    BY <2>1, ResumeIs
  <2>4. n.id \notin task[w].listed /\ n.id \notin Idle.listed
    BY DEF Listed, Idle
  <2> QED
    BY <2>1, <2>2, <2>3, <2>4, GoListsNoMore
<1>4. ASSUME NEW w \in Workers, Mail(w)
      PROVE  n \in queue' /\ ~ Listed(n.id)'
  <2>1. PICK m \in task[w].mails :
           LET t == [task[w] EXCEPT !.mails = @ \ {m}] IN
           Go(w, IF t.mails = {} THEN Resume(t) ELSE t)
    BY <1>4 DEF Mail
  <2> DEFINE t == [task[w] EXCEPT !.mails = task[w].mails \ {m}]
  <2>2. t \in Task /\ t.listed = task[w].listed
    <3>1. task[w] \in Task
      BY DEF NoticeInv, Types
    <3>2. PICK rows \in SUBSET Kept : rows = task[w].mails \ {m}
      BY <3>1 DEF Task
    <3>3. LeftWith(t, task[w], rows)
      BY <3>2 DEF LeftWith
    <3> HIDE DEF t
    <3> QED
      BY <3>1, <3>2, <3>3, MailsSet
  <2>3. \E u \in {t, Resume(t)} : Go(w, u)
    BY <2>1
  <2> HIDE DEF t
  <2>4. Resume(t).listed = t.listed \/ Resume(t) = Idle
    BY <2>2, ResumeIs
  <2>5. n.id \notin task[w].listed /\ n.id \notin Idle.listed
    BY DEF Listed, Idle
  <2>6. UNCHANGED queue
    BY <1>4 DEF Mail
  <2> QED
    BY <2>2, <2>3, <2>4, <2>5, <2>6, GoListsNoMore
<1>5. ASSUME NEW w \in Workers, List(w)
      PROVE  n \in queue' /\ ~ Listed(n.id)'
  <2> DEFINE ids == Unseen(Obsolete(Notice(task[w].op)))
  <2>1. n.id \notin ids
    BY DEF Unseen, NoticeInv, IdsGrow
  <2>2. \E u \in {[task[w] EXCEPT !.step = "clean", !.listed = ids], [task[w] EXCEPT !.step = "insert"]} :
           Go(w, u)
    BY <1>5 DEF List, To
  <2> HIDE DEF ids
  <2>3. \A u \in {[task[w] EXCEPT !.step = "clean", !.listed = ids], [task[w] EXCEPT !.step = "insert"]} :
           u.listed \in {ids, task[w].listed}
    <3>1. task[w] \in Task
      BY DEF NoticeInv, Types
    <3>2. [task[w] EXCEPT !.step = "clean", !.listed = ids].listed = ids
      BY <3>1 DEF Task
    <3>3. [task[w] EXCEPT !.step = "insert"].listed = task[w].listed
      BY <3>1 DEF Task
    <3> QED
      BY <3>2, <3>3
  <2>4. n.id \notin task[w].listed
    BY DEF Listed
  <2>5. UNCHANGED queue
    BY <1>5 DEF List
  <2>6. PICK u : Go(w, u) /\ u.listed \in {ids, task[w].listed}
    BY <2>2, <2>3
  <2>7. n.id \notin u.listed
    BY <2>1, <2>4, <2>6
  <2> QED
    BY <2>5, <2>6, <2>7, GoListsNoMore
<1>6. ASSUME NEW w \in Workers, Clean(w)
      PROVE  n \in queue' /\ ~ Listed(n.id)'
  <2>1. PICK i \in task[w].listed :
           /\ LET t == [task[w] EXCEPT !.listed = @ \ {i}] IN
              Go(w, IF t.listed = {} THEN [t EXCEPT !.step = "insert"] ELSE t)
           /\ queue' = {m \in queue : m.id # i} \/ UNCHANGED queue
    BY <1>6 DEF Clean
  <2> DEFINE t == [task[w] EXCEPT !.listed = task[w].listed \ {i}]
             u == [t EXCEPT !.step = "insert"]
  <2>2. t \in Task /\ t.listed = task[w].listed \ {i}
    BY DEF NoticeInv, Types, Task
  <2>3. u.listed = t.listed
    <3> HIDE DEF t
    <3> QED
      BY <2>2 DEF Task
  <2>4. \E x \in {t, u} : Go(w, x)
    BY <2>1
  <2>5. n.id \notin task[w].listed
    BY DEF Listed
  <2> HIDE DEF t, u
  <2>6. n \in queue'
    BY <2>1, <2>5
  <2> QED
    BY <2>2, <2>3, <2>4, <2>5, <2>6, GoListsNoMore
<1>7. ASSUME NEW w \in Workers, Insert(w)
      PROVE  n \in queue' /\ ~ Listed(n.id)'
  <2> DEFINE v == [task[w] EXCEPT !.step = "deliver"]
  <2>1. task[w] \in Task
    BY DEF NoticeInv, Types
  <2>2. \/ Go(w, Idle)
        \/ \E rows : Go(w, [task[w] EXCEPT !.step = "deliver", !.mails = rows])
        \/ Go(w, Resume(v))
    BY <1>7 DEF Insert
  <2>3. v \in Task /\ v.listed = task[w].listed
    BY <2>1, StepSet DEF Step
  <2> HIDE DEF v
  <2>4. \/ Go(w, Idle)
        \/ \E rows : Go(w, [task[w] EXCEPT !.step = "deliver", !.mails = rows])
        \/ Go(w, Resume(v))
    BY <2>2
  <2>5. Resume(v).listed = v.listed \/ Resume(v) = Idle
    BY <2>3, ResumeIs
  <2>6. n.id \notin task[w].listed /\ n.id \notin Idle.listed
    BY DEF Listed, Idle
  <2>7. \A rows : [task[w] EXCEPT !.step = "deliver", !.mails = rows].listed = task[w].listed
    BY <2>1 DEF Task
  <2>8. n \in queue'
    BY <1>7 DEF Insert, Store
  <2> QED
    BY <2>3, <2>4, <2>5, <2>6, <2>7, <2>8, GoListsNoMore
<1>8. ASSUME NEW w \in Workers, Commit(w) \/ RollBack(w)
      PROVE  n \in queue' /\ ~ Listed(n.id)'
  <2>1. UNCHANGED queue /\ Go(w, Idle)
    BY <1>8 DEF Commit, RollBack, Done
  <2>2. n.id \notin Idle.listed
    BY DEF Idle
  <2> QED
    BY <2>1, <2>2, GoListsNoMore
<1>9. CASE MarkNotificationRead
  <2>1. n \in queue'
    BY <1>9, ReadIs DEF NoticeInv, Types
  <2>2. UNCHANGED task
    BY <1>9 DEF MarkNotificationRead
  <2> QED
    BY <2>1, <2>2 DEF Listed
<1>10. CASE \E i \in Ids : Read(i)
  BY <1>10 DEF Read, Listed
<1> QED
  BY <1>1, <1>2, <1>3, <1>4, <1>5, <1>6, <1>7, <1>8, <1>9, <1>10 DEF Next

\* A notification the user has read stays, unless a cleanup had listed it before:
\* the mark and the deletion are one row's updates, and only unread ones are listed.
THEOREM ReadIsKept == Spec => SeenIsKept
<1>1. NoticeInv /\ [Next]_vars =>
        [\A n \in queue : n.seen /\ ~ Listed(n.id) => n \in queue' /\ ~ Listed(n.id)']_vars
  BY SeenStays
<1>2. NoticeInv /\ [Next]_vars => NoticeInv'
  BY NextKeeps, NotificationAssumption
<1> QED
  BY <1>1, <1>2, Begins, PTL DEF Spec, SeenIsKept

-----------------------------------------------------------------------------
(* What is inserted with the change is true                                *)

\* A row of a lifecycle operation says something of the membership only if the
\* operation writes it.
LEMMA LifecycleWrites ==
    \A op \in AfterCommit : op # "purchase" => Writes(op)
  BY DEF AfterCommit, Writes

LEMMA HonestKeeps ==
    ASSUME NoticeInv, NoticeInv', Honest, MCNext, group = "committed"
    PROVE  Honest'
<1>1. Groups[group] = AfterCommit /\ group' = group /\ Next
      /\ \A w \in Workers : task'[w].op \in AfterCommit \cup {"none"}
  BY DEF Groups, MCNext
<1> DEFINE Calm == \A w \in Workers : task'[w].step \in {"idle", "begin", "mail"}
           TrueRows == \A n \in queue' :
                          MembershipKind(n) /\ n.op \notin {"purchase", "userCancel"}
                            => wrote'[n.event] > 0
<1>2. /\ \A w \in Workers : /\ task[w].step \in {"idle", "begin", "mail"}
                            /\ task[w].op \in AfterCommit \cup {"none"}
      /\ \A n \in queue : MembershipKind(n) /\ n.op \notin {"purchase", "userCancel"}
            => wrote[n.event] > 0
      /\ task \in [Workers -> Task]
  BY DEF Honest, NoticeInv, Types
<1>3. \A t \in Task : t.op \in AfterCommit \cup {"none"} /\ t.step = "mail" => Resume(t) = Idle
  BY DEF Resume, AfterCommit, TwoStep
<1>4. ASSUME NEW w \in Workers, NEW op \in Ops, Begin(w, op)
      PROVE  Calm /\ TrueRows
  <2>1. /\ \A x \in DOMAIN wrote : wrote'[x] = wrote[x]
        /\ task'[w].step = FirstStep(op) /\ task'[w].op = op
        /\ \A v \in Workers : v # w => task'[v] = task[v]
    BY <1>4, BeginKeeps
  <2>2. op \in AfterCommit \cup {"none"}
    BY <1>1, <2>1
  <2>3. FirstStep(op) = "begin"
    BY <2>2 DEF FirstStep, AfterCommit, InTx
  <2>4. queue' = queue /\ \A n \in queue : n.event \in DOMAIN wrote
    BY <1>4 DEF Begin, NoticeInv, HaveBegun
  <2> QED
    BY <1>2, <2>1, <2>3, <2>4
<1>5. ASSUME NEW w \in Workers, Transact(w)
      PROVE  Calm /\ TrueRows
  <2> DEFINE t == task[w]
             s == Changed(sub, t.op)
             R == Rows(Notices(t.op, s), t.op, t.event)
             u == [t EXCEPT !.step = "mail", !.mails = R]
  <2>1. t.step = "begin" /\ Write(s, t.op, t.event) /\ queue' = queue \cup R /\ Go(w, u)
    BY <1>5 DEF Transact, Store
  <2>2. t \in Task /\ t.event \in DOMAIN wrote /\ t.event \in Nat /\ t.op \in Ops
        /\ t.op \in AfterCommit
    <3>1. t \in Task /\ t.event \in DOMAIN wrote /\ t.event \in Nat /\ t.op \in Ops
      BY <2>1, AtWork
    <3>2. t.op \in AfterCommit \cup {"none"} /\ "none" \notin Ops
      BY <1>2, NotificationAssumption DEF AfterCommit, TwoStep, InTx
    <3> QED
      BY <3>1, <3>2
  <2>3. \A n \in R : n.op = t.op /\ n.event = t.event
    BY DEF Rows
  <2>4. /\ Writes(t.op) => wrote'[t.event] > 0
        /\ \A x \in DOMAIN wrote : x # t.event => wrote'[x] = wrote[x]
        /\ ~ Writes(t.op) => wrote' = wrote
    <3>1. s \in SubRow
      BY ChangedIs DEF NoticeInv, Types
    <3>2. ~ Writes(t.op) => wrote' = wrote
      BY <2>1 DEF Write
    <3> HIDE DEF s, t
    <3> QED
      BY <2>1, <2>2, <3>1, <3>2, WriteIs DEF NoticeInv
  <2>5. u.step = "mail"
    <3> HIDE DEF t, R
    <3> QED
      BY <2>2 DEF Task
  <2>6. \A n \in queue : n.event \in DOMAIN wrote
    BY DEF NoticeInv, HaveBegun
  <2>7. TrueRows
    <3>1. ASSUME NEW n \in queue', MembershipKind(n), n.op \notin {"purchase", "userCancel"}
          PROVE  wrote'[n.event] > 0
      <4>1. CASE n \in R
        <5>1. Writes(t.op)
          <6>1. n.op = t.op /\ n.op # "purchase"
            BY <2>3, <3>1, <4>1
          <6> HIDE DEF t
          <6> QED
            BY <2>2, <6>1, LifecycleWrites
        <5> QED
          BY <2>3, <2>4, <4>1, <5>1
      <4>2. CASE n \in queue
        <5>1. wrote[n.event] > 0
          BY <1>2, <3>1, <4>2
        <5>2. CASE Writes(t.op) /\ n.event = t.event
          BY <2>4, <5>2
        <5>3. CASE ~ Writes(t.op)
          BY <2>4, <5>1, <5>3
        <5>4. CASE n.event # t.event
          BY <2>4, <2>6, <4>2, <5>1, <5>4
        <5> QED
          BY <5>2, <5>3, <5>4
      <4> QED
        BY <2>1, <4>1, <4>2
    <3> QED
      BY <3>1
  <2> HIDE DEF u
  <2>8. Calm
    BY <1>2, <2>1, <2>5 DEF Go
  <2> QED
    BY <2>7, <2>8
<1>6. ASSUME NEW w \in Workers, TransactFails(w) \/ Mail(w)
      PROVE  Calm /\ TrueRows
  <2>1. UNCHANGED <<queue, wrote>>
    BY <1>6 DEF TransactFails, Mail
  <2>2. PICK t \in Task : Go(w, t) /\ t.step \in {"idle", "begin", "mail"}
    <3>1. CASE TransactFails(w)
      <4> DEFINE u == [task[w] EXCEPT !.step = "mail"]
      <4>1. u \in Task /\ u.step = "mail" /\ u.op \in AfterCommit \cup {"none"}
        BY <1>2, StepSet DEF Step, Like, Same
      <4>2. \E x \in {Idle, Resume(u)} : Go(w, x)
        BY <3>1 DEF TransactFails, Done
      <4> HIDE DEF u
      <4>3. Resume(u) = Idle
        BY <1>3, <4>1
      <4> QED
        BY <4>2, <4>3, IdleTask
    <3>2. CASE Mail(w)
      <4>1. PICK m \in task[w].mails :
               LET u == [task[w] EXCEPT !.mails = @ \ {m}] IN
               Go(w, IF u.mails = {} THEN Resume(u) ELSE u)
        BY <3>2 DEF Mail
      <4> DEFINE u == [task[w] EXCEPT !.mails = task[w].mails \ {m}]
      <4>2. u \in Task /\ u.step = task[w].step /\ u.op = task[w].op
        <5>1. task[w] \in Task /\ task[w].mails \ {m} \in SUBSET Kept
          BY <1>2 DEF Task
        <5> QED
          BY <5>1 DEF Task
      <4>3. task[w].step = "mail"
        BY <1>2, <3>2 DEF Mail
      <4>4. \E x \in {u, Resume(u)} : Go(w, x)
        BY <4>1
      <4> HIDE DEF u
      <4>5. Resume(u) = Idle
        BY <1>2, <1>3, <4>2, <4>3
      <4> QED
        BY <4>2, <4>3, <4>4, <4>5, IdleTask
    <3> QED
      BY <1>6, <3>1, <3>2
  <2>3. Calm
    BY <1>2, <2>2 DEF Go
  <2> QED
    BY <1>2, <2>1, <2>3
<1>7. ASSUME NEW w \in Workers,
             List(w) \/ Clean(w) \/ Insert(w) \/ Commit(w) \/ RollBack(w)
      PROVE  FALSE
  BY <1>2, <1>7 DEF List, Clean, Insert, Commit, RollBack
<1>8. ASSUME MarkNotificationRead
      PROVE  Calm /\ TrueRows
  <2>1. UNCHANGED <<task, wrote>>
    BY <1>8 DEF MarkNotificationRead
  <2>2. \A n \in queue' : \E m \in queue : n.kind = m.kind /\ n.op = m.op /\ n.event = m.event
    BY <1>8, ReadIs DEF NoticeInv, Types
  <2> QED
    BY <1>2, <2>1, <2>2 DEF MembershipKind
<1>9. ASSUME NEW i \in Ids, Read(i)
      PROVE  Calm /\ TrueRows
  BY <1>2, <1>9 DEF Read
<1>10. Calm /\ TrueRows
  BY <1>1, <1>4, <1>5, <1>6, <1>7, <1>8, <1>9 DEF Next
<1> QED
  BY <1>1, <1>10 DEF Honest

-----------------------------------------------------------------------------
(* One handler at a time                                                   *)

LEMMA AtMostOne ==
    ASSUME NEW S, IsFiniteSet(S), Cardinality(S) <= 1, NEW a \in S, NEW b \in S
    PROVE  a = b
<1> SUFFICES ASSUME a # b PROVE FALSE
  OBVIOUS
<1> DEFINE R == S \ {a}
<1>1. IsFiniteSet(R) /\ Cardinality(R) = Cardinality(S) - 1
  BY FS_RemoveElement
<1>2. b \in R
  OBVIOUS
<1> HIDE DEF R
<1>3. Cardinality(R) \in Nat /\ (Cardinality(R) = 0 <=> R = {}) /\ Cardinality(S) \in Nat
  BY <1>1, FS_CardinalityType, FS_EmptySet
<1> QED
  BY <1>1, <1>2, <1>3

LEMMA SerialIs ==
    ASSUME group = "serial", MCNext
    PROVE  /\ Next /\ group' = group /\ faults' = 0
           /\ Alone'
           /\ \A w \in Workers : task'[w].op \notin {"userCancel", "purchase"}
<1>1. /\ Next /\ group' = group /\ faults' = 0
      /\ Cardinality({w \in Workers : task'[w] # Idle}) <= 1
      /\ \A w \in Workers : task'[w].op \in (Ops \ {"userCancel", "purchase"}) \cup {"none"}
  BY DEF MCNext, Groups
<1>2. Alone'
  <2> DEFINE S == {w \in Workers : task'[w] # Idle}
  <2>1. IsFiniteSet(S)
    BY MCNotificationsAssumption, FS_Subset
  <2>2. \A a, b \in S : a = b
    <3>1. Cardinality(S) <= 1
      BY <1>1
    <3> HIDE DEF S
    <3> QED
      BY <2>1, <3>1, AtMostOne
  <2> QED
    BY <2>2 DEF Alone
<1> QED
  BY <1>1, <1>2

\* What the newest notification says depends on the rows' ids, kinds and operations.
LEMMA ReadingFits ==
    ASSUME NoticeInv, MarkNotificationRead, NEW status, NewestFits(status)
    PROVE  NewestFits(status)'
<1>1. /\ \A n \in queue' : \E m \in queue : n.id = m.id /\ n.kind = m.kind /\ n.op = m.op
      /\ \A m \in queue : \E n \in queue' : n.id = m.id /\ n.kind = m.kind /\ n.op = m.op
  BY ReadIs DEF NoticeInv, Types
<1>2. ASSUME NEW n \in Membership', \A m \in Membership' : m.id <= n.id
      PROVE  Fits(n, status)
  <2>1. PICK x \in queue : n.id = x.id /\ n.kind = x.kind /\ n.op = x.op
    BY <1>1, <1>2 DEF Membership
  <2>2. x \in Membership
    BY <1>2, <2>1 DEF Membership
  <2>3. ASSUME NEW m \in Membership
        PROVE  m.id <= x.id
    <3>1. PICK y \in queue' : y.id = m.id /\ y.kind = m.kind /\ y.op = m.op
      BY <1>1, <2>3 DEF Membership
    <3>2. y \in Membership'
      BY <2>3, <3>1 DEF Membership
    <3> QED
      BY <1>2, <2>1, <3>1, <3>2
  <2>4. Fits(x, status)
    BY <2>2, <2>3 DEF NewestFits
  <2> QED
    BY <2>1, <2>4 DEF Fits
<1> QED
  BY <1>2 DEF NewestFits, Fits

\* A row that comes after all others decides, if it is about the membership.
LEMMA NewRowFits ==
    ASSUME NoticeInv, NEW kind \in Kinds, kind # "one_off_purchase_completed",
           NEW op \in Ops, op # "purchase", NEW e \in DOMAIN wrote, e \in Nat,
           Store(Rows({kind}, op, e)), NEW status,
           \/ kind \in Good /\ status # "cancelled"
           \/ kind = "premium_ended" /\ status # "active"
           \/ kind \notin Good \cup {"premium_ended"} /\ NewestFits(status)
    PROVE  NewestFits(status)'
<1> DEFINE R == Rows({kind}, op, e)
<1>1. Told({kind})
  BY DEF Told
<1>2. /\ R \in SUBSET Kept
      /\ \A n \in R : n.op = op /\ n.kind = kind /\ inserted < n.id
      /\ \A n \in queue : n.id <= inserted
      /\ queue \in SUBSET Kept /\ inserted \in Nat
  <2>1. inserted \in Nat /\ queue \in SUBSET Kept /\ \A n \in queue : n.id <= inserted
    BY DEF NoticeInv, Types, IdsGrow
  <2>2. /\ R \in SUBSET Kept
        /\ \A n \in R : n.op = op /\ n.kind \in {kind} /\ inserted < n.id
    <3> DEFINE K == {kind}
    <3>1. Told(K)
      BY <1>1
    <3>2. \A n \in K : n = kind
      OBVIOUS
    <3> HIDE DEF K
    <3>3. LET Q == Rows(K, op, e) IN
          Q \in SUBSET Kept /\ \A n \in Q : n.op = op /\ n.kind \in K /\ inserted < n.id
      BY <2>1, <3>1, RowsAre
    <3> QED
      BY <3>2, <3>3 DEF K
  <2> QED
    BY <2>1, <2>2
<1>3. queue' = queue \cup R
  BY DEF Store
<1>4. \E n : n \in R
  BY DEF Rows
<1> HIDE DEF R
<1>5. PICK r \in R : TRUE
  BY <1>4
<1>6. \A n \in R : n.id \in Nat
  BY <1>2 DEF Kept
<1>7. \A n \in queue : n.id \in Nat
  BY <1>2 DEF Kept
<1>8. CASE kind \in Good \cup {"premium_ended"}
  <2>1. r \in Membership'
    BY <1>2, <1>3, <1>5, <1>8 DEF Membership
  <2>2. ASSUME NEW n \in Membership', \A m \in Membership' : m.id <= n.id
        PROVE  n \in R
    <3>1. r.id <= n.id /\ n \in queue'
      BY <2>1, <2>2 DEF Membership
    <3> QED
      BY <1>2, <1>3, <1>5, <1>6, <1>7, <3>1
  <2>3. \A n \in R : Fits(n, status)
    BY <1>2, <1>8 DEF Fits, Good
  <2> QED
    BY <2>2, <2>3 DEF NewestFits, Fits
<1>9. CASE kind \notin Good \cup {"premium_ended"}
  <2>1. Membership' = Membership
    BY <1>2, <1>3, <1>9 DEF Membership
  <2> QED
    BY <1>9, <2>1 DEF NewestFits, Fits
<1> QED
  BY <1>8, <1>9

\* What a handler inserts with its change, and what it inserts on its own, fits
\* the status it writes.
LEMMA NoticeFits ==
    ASSUME sub \in SubRow, NEW op \in (AfterCommit \cup TwoStep) \ {"purchase"}
    PROVE  /\ Writes(op)
           /\ \E kind \in Kinds \ {"one_off_purchase_completed"} :
                 /\ Notices(op, Changed(sub, op)) = {kind}
                 /\ \/ kind \in Good /\ Changed(sub, op).status # "cancelled"
                    \/ kind = "premium_ended" /\ Changed(sub, op).status # "active"
                    \/ /\ kind \notin Good \cup {"premium_ended"}
                       /\ Changed(sub, op).status = "past_due"
           /\ op \in TwoStep => Changed(sub, op).status = "cancelled"
<1> DEFINE s == Changed(sub, op)
<1>1. /\ op \in {"create", "renew"} => s.status = "active"
      /\ op = "cancel" \/ op \in TwoStep => s.status = "cancelled"
      /\ op = "fail" => s.status \in {"cancelled", "past_due"}
  BY ChangedIs
<1>2. op \in {"create", "renew", "cancel", "fail"} \cup TwoStep
  BY DEF AfterCommit
<1> HIDE DEF s
<1>3. CASE op = "create"
  BY <1>1, <1>3 DEF Notices, Kinds, Good, Writes, TwoStep, s
<1>4. CASE op = "renew"
  BY <1>1, <1>4 DEF Notices, Kinds, Good, Writes, TwoStep, s
<1>5. CASE op = "cancel" \/ op \in TwoStep
  BY <1>1, <1>5 DEF Notices, Kinds, Good, Writes, TwoStep, s
<1>6. CASE op = "fail" /\ s.status = "cancelled"
  BY <1>6 DEF Notices, Kinds, Good, Writes, TwoStep, s
<1>7. CASE op = "fail" /\ s.status = "past_due"
  BY <1>7 DEF Notices, Kinds, Good, Writes, TwoStep, s
<1> QED
  BY <1>1, <1>2, <1>3, <1>4, <1>5, <1>6, <1>7

\* One worker goes on, the others are idle.
LEMMA OneMoves ==
    ASSUME NoticeInv, SerialInv, group = "serial", MCNext,
           NEW w \in Workers, NEW t, Go(w, t),
           \A v \in Workers : v # w => task[v] = Idle,
           t # Idle => t.op # "none" /\ Decided(t)',
           Settled(t) => NewestFits(sub.status)'
    PROVE  SerialInv'
<1>1. /\ faults' = 0 /\ Alone' /\ group' = "serial"
      /\ \A v \in Workers : task'[v].op \notin {"userCancel", "purchase"}
  BY SerialIs
<1>2. task'[w] = t /\ \A v \in Workers : v # w => task'[v] = Idle
  BY DEF Go, NoticeInv, Types
<1>3. ASSUME NEW v \in Workers, task'[v] # Idle
      PROVE  Decided(task[v])'
  BY <1>2, <1>3 DEF Decided, NewestFits
<1>4. (\A v \in Workers : Settled(task'[v])) => NewestFits(sub.status)'
  BY <1>2
<1> QED
  BY <1>1, <1>2, <1>3, <1>4 DEF SerialInv, Settled

LEMMA OthersIdle ==
    ASSUME SerialInv, group = "serial", NEW w \in Workers, task[w].step # "idle"
    PROVE  /\ \A v \in Workers : v # w => task[v] = Idle
           /\ Decided(task[w]) /\ task[w].op \notin {"none", "userCancel", "purchase"}
           /\ Settled(task[w]) => NewestFits(sub.status)
<1>1. task[w] # Idle
  BY DEF Idle
<1>2. \A v \in Workers : v # w => task[v] = Idle
  BY <1>1 DEF SerialInv, Alone
<1>3. Settled(Idle)
  BY DEF Settled, Idle, Rewriters, InTx
<1> QED
  BY <1>1, <1>2, <1>3 DEF SerialInv

LEMMA SerialBegin ==
    ASSUME NoticeInv, SerialInv, group = "serial", MCNext,
           NEW w \in Workers, NEW op \in Ops, Begin(w, op)
    PROVE  SerialInv'
<1>1. /\ task'[w].step = FirstStep(op) /\ task'[w].op = op
      /\ task'[w].copy = IF op \in InTx THEN Changed(sub, op) ELSE NewSub
      /\ \A v \in Workers : v # w => task'[v] = task[v]
  BY BeginKeeps
<1>2. PICK t : Go(w, t)
  BY DEF Begin
<1>3. task'[w] = t
  BY <1>2 DEF Go, NoticeInv, Types
<1>4. Alone' /\ op \notin {"userCancel", "purchase"}
  BY <1>1, SerialIs
<1>5. op # "none"
  BY NotificationAssumption DEF AfterCommit, TwoStep, InTx
<1>6. \A v \in Workers : task[v] = Idle
  <2>1. task'[w] # Idle
    BY <1>1, <1>5 DEF Idle
  <2>2. task[w] = Idle
    BY DEF Begin
  <2> QED
    BY <1>1, <1>4, <2>1, <2>2 DEF Alone
<1>7. NewestFits(sub.status)
  <2>1. \A v \in Workers : Settled(task[v])
    BY <1>6 DEF Settled, Idle, Rewriters, InTx
  <2> QED
    BY <2>1 DEF SerialInv
<1>8. UNCHANGED <<sub, queue>>
  BY DEF Begin
<1>9. Decided(t)'
  <2>1. t.op = op /\ t.step = IF op \in InTx THEN "list" ELSE "begin"
    BY <1>1, <1>3, <1>4 DEF FirstStep
  <2>2. op \in Rewriters =>
          t.copy.status = IF op \in {"upgrade", "reactivate"} THEN "active" ELSE "cancelled"
    <3>1. sub \in SubRow
      BY DEF NoticeInv, Types
    <3>2. op \in Rewriters => t.copy = Changed(sub, op)
      BY <1>1, <1>3 DEF Rewriters
    <3> QED
      BY <3>1, <3>2, ChangedIs DEF Rewriters, InTx
  <2> QED
    BY <2>1, <2>2 DEF Decided, AfterCommit, TwoStep, InTx, Rewriters
<1>10. NewestFits(sub.status)'
  BY <1>7, <1>8 DEF NewestFits, Membership, Fits
<1> QED
  BY <1>1, <1>2, <1>3, <1>5, <1>6, <1>9, <1>10, OneMoves

LEMMA SerialTransact ==
    ASSUME NoticeInv, SerialInv, group = "serial", MCNext, NEW w \in Workers, Transact(w)
    PROVE  SerialInv'
<1>1. task[w].step = "begin"
  BY DEF Transact
<1>2. /\ \A v \in Workers : v # w => task[v] = Idle
      /\ Decided(task[w]) /\ task[w].op \notin {"none", "userCancel", "purchase"}
  BY <1>1, OthersIdle
<1>3. task[w] \in Task /\ task[w].op \in Ops /\ task[w].event \in DOMAIN wrote /\ task[w].event \in Nat
  BY <1>1, AtWork
<1>4. PICK op : op = task[w].op
  OBVIOUS
<1>5. op \in (AfterCommit \cup TwoStep) \ {"purchase"}
  BY <1>1, <1>2, <1>3, <1>4, NotificationAssumption DEF Decided
<1> DEFINE s == Changed(sub, op)
<1>6. PICK kind \in Kinds \ {"one_off_purchase_completed"} :
         /\ Notices(op, s) = {kind}
         /\ \/ kind \in Good /\ s.status # "cancelled"
            \/ kind = "premium_ended" /\ s.status # "active"
            \/ kind \notin Good \cup {"premium_ended"} /\ s.status = "past_due"
  BY <1>5, NoticeFits DEF NoticeInv, Types
<1>7. Writes(op) /\ (op \in TwoStep => s.status = "cancelled") /\ s \in SubRow
  BY <1>5, NoticeFits, ChangedIs DEF NoticeInv, Types
<1>8. /\ Write(s, op, task[w].event)
      /\ Store(Rows({kind}, op, task[w].event))
      /\ Go(w, [task[w] EXCEPT !.step = "mail", !.mails = Rows({kind}, op, task[w].event)])
  BY <1>4, <1>6 DEF Transact
<1> HIDE DEF s
<1>9. sub'.status = s.status
  BY <1>3, <1>7, <1>8, WriteIs DEF NoticeInv
<1>10. PICK status : status = s.status
  OBVIOUS
<1>11. NewestFits(status)'
  <2>1. status = "past_due" => NewestFits(status)
    BY DEF NewestFits, Fits
  <2> QED
    BY <1>3, <1>4, <1>5, <1>6, <1>8, <1>10, <2>1, NewRowFits
<1>12. PICK t : t = [task[w] EXCEPT !.step = "mail", !.mails = Rows({kind}, op, task[w].event)]
  OBVIOUS
<1>13. t.op = op /\ t.step = "mail"
  BY <1>3, <1>4, <1>12 DEF Task
<1>14. Decided(t)' /\ t.op # "none"
  <2>1. op \in TwoStep => sub'.status = "cancelled"
    BY <1>7, <1>9
  <2> QED
    BY <1>2, <1>4, <1>5, <1>13, <2>1 DEF Decided, AfterCommit, TwoStep, InTx, Rewriters
<1>15. NewestFits(sub.status)'
  BY <1>9, <1>10, <1>11
<1> QED
  BY <1>2, <1>8, <1>12, <1>14, <1>15, OneMoves

\* A handler goes on, and neither the subscription nor a row changes.
LEMMA SerialQuiet ==
    ASSUME NoticeInv, SerialInv, group = "serial", MCNext,
           NEW w \in Workers, task[w].step # "idle", NEW t, Go(w, t),
           UNCHANGED <<sub, queue>>,
           \/ t = Idle /\ Settled(task[w])
           \/ Like(t, task[w]) /\ Decided(t)
    PROVE  SerialInv'
<1>1. /\ \A v \in Workers : v # w => task[v] = Idle
      /\ task[w].op # "none"
      /\ Settled(task[w]) => NewestFits(sub.status)
  BY OthersIdle
<1>2. NewestFits(sub.status) => NewestFits(sub.status)'
  BY DEF NewestFits, Membership, Fits
<1>3. t # Idle => t.op # "none" /\ Decided(t)'
  BY <1>1 DEF Like, Same, Decided, NewestFits, Membership, Fits
<1>4. Settled(t) => Settled(task[w])
  BY DEF Like, Same, Settled
<1> QED
  BY <1>1, <1>2, <1>3, <1>4, OneMoves

LEMMA NoFaults == ASSUME NoticeInv, group = "serial", MCNext PROVE ~ Fault
<1>1. faults' = 0 /\ faults \in Nat
  BY SerialIs DEF NoticeInv, Types
<1> QED
  BY <1>1 DEF Fault

LEMMA SerialTransactFails ==
    ASSUME NoticeInv, SerialInv, group = "serial", MCNext, NEW w \in Workers, TransactFails(w)
    PROVE  SerialInv'
<1>1. task[w].step = "begin" /\ Go(w, Idle) /\ UNCHANGED <<sub, queue>>
  BY NoFaults DEF TransactFails, Done
<1>2. Decided(task[w])
  BY <1>1, OthersIdle
<1>3. Settled(task[w])
  BY <1>1, <1>2 DEF Decided, Settled, Rewriters
<1> QED
  BY <1>1, <1>3, SerialQuiet

LEMMA SerialMail ==
    ASSUME NoticeInv, SerialInv, group = "serial", MCNext, NEW w \in Workers, Mail(w)
    PROVE  SerialInv'
<1>1. task[w].step \in {"mail", "deliver"} /\ UNCHANGED <<sub, queue>>
  BY DEF Mail
<1>2. Decided(task[w]) /\ task[w].op \notin {"none", "userCancel", "purchase"}
  BY <1>1, OthersIdle
<1>3. task[w] \in Task /\ task[w].op \in Ops
  BY <1>1, AtWork
<1>4. PICK m \in task[w].mails :
         LET t == [task[w] EXCEPT !.mails = @ \ {m}] IN
         Go(w, IF t.mails = {} THEN Resume(t) ELSE t)
  BY DEF Mail
<1>5. PICK t : t = [task[w] EXCEPT !.mails = task[w].mails \ {m}]
  OBVIOUS
<1>6. t \in Task /\ Like(t, task[w]) /\ t.step = task[w].step
  <2>1. PICK rows \in SUBSET Kept : rows = task[w].mails \ {m}
    BY <1>3 DEF Task
  <2>2. LeftWith(t, task[w], rows)
    BY <1>5, <2>1 DEF LeftWith
  <2> QED
    BY <1>3, <2>2, MailsSet
<1>7. CASE Go(w, t)
  <2>1. Decided(t)
    BY <1>2, <1>6 DEF Decided, Like, Same
  <2> QED
    BY <1>1, <1>6, <1>7, <2>1, SerialQuiet
<1>8. CASE Go(w, Resume(t))
  <2>1. PICK u : u = Resume(t)
    OBVIOUS
  <2>2. CASE u = Idle
    <3>1. ~ (t.step = "deliver" /\ t.op \in InTx)
      BY <1>6, <2>1, <2>2, ResumeIs, IdleTask
    <3>2. Settled(task[w])
      BY <1>1, <1>2, <1>6, <3>1 DEF Decided, Settled, Rewriters, Like, Same
    <3> QED
      BY <1>1, <1>8, <2>1, <2>2, <3>2, SerialQuiet
  <2>3. CASE u # Idle
    <3>1. /\ Same(u, t) /\ u.copy = t.copy
          /\ \/ t.step = "mail" /\ t.op \in TwoStep /\ u.step = "list"
             \/ t.step = "deliver" /\ t.op \in InTx /\ u.step = "commit"
      BY <1>6, <2>1, <2>3, ResumeIs
    <3>2. Like(u, task[w])
      BY <1>6, <3>1 DEF Like, Same
    <3>3. Decided(u)
      <4>1. CASE t.step = "mail" /\ t.op \in TwoStep /\ u.step = "list"
        BY <1>2, <1>6, <3>1, <3>2, <4>1
           DEF Decided, Like, Same, TwoStep, AfterCommit, InTx, Rewriters
      <4>2. CASE t.step = "deliver" /\ t.op \in InTx /\ u.step = "commit"
        BY <1>2, <1>6, <3>1, <3>2, <4>2
           DEF Decided, Like, Same, TwoStep, AfterCommit, InTx, Rewriters
      <4> QED
        BY <3>1, <4>1, <4>2
    <3> QED
      BY <1>1, <1>8, <2>1, <3>2, <3>3, SerialQuiet
  <2> QED
    BY <2>2, <2>3
<1> QED
  BY <1>4, <1>5, <1>7, <1>8

\* Only an upgrade and a reactivation make other notifications obsolete.
LEMMA SerialList ==
    ASSUME NoticeInv, SerialInv, group = "serial", MCNext, NEW w \in Workers, List(w)
    PROVE  SerialInv'
<1> DEFINE ids == Unseen(Obsolete(Notice(task[w].op)))
<1>1. /\ task[w].step = "list" /\ UNCHANGED <<sub, queue>>
      /\ \/ ids # {} /\ Go(w, [task[w] EXCEPT !.step = "clean", !.listed = ids])
         \/ Go(w, [task[w] EXCEPT !.step = "insert"])
  BY NoFaults DEF List, To
<1>2. Decided(task[w]) /\ task[w].op \notin {"none", "userCancel", "purchase"}
  BY <1>1, OthersIdle
<1>3. task[w] \in Task /\ task[w].op \in Ops /\ ids \in SUBSET Nat
  <2>1. ids \in SUBSET Nat
    BY DEF Unseen, NoticeInv, Types, Kept
  <2> QED
    BY <1>1, <2>1, AtWork
<1>4. ids # {} => task[w].op \in {"upgrade", "reactivate"}
  BY DEF Unseen, Obsolete, Notice, Good
<1> HIDE DEF ids
<1>5. CASE ids # {} /\ Go(w, [task[w] EXCEPT !.step = "clean", !.listed = ids])
  <2>1. PICK t : t = [task[w] EXCEPT !.step = "clean", !.listed = ids]
    OBVIOUS
  <2>2. Like(t, task[w]) /\ t.step = "clean"
    BY <1>3, <2>1 DEF Task, Like, Same
  <2>3. Decided(t)
    BY <1>1, <1>2, <1>4, <1>5, <2>2
       DEF Decided, Like, Same, TwoStep, AfterCommit, InTx, Rewriters
  <2> QED
    BY <1>1, <1>5, <2>1, <2>2, <2>3, SerialQuiet
<1>6. CASE Go(w, [task[w] EXCEPT !.step = "insert"])
  <2>1. PICK t : t = [task[w] EXCEPT !.step = "insert"]
    OBVIOUS
  <2>2. Like(t, task[w]) /\ t.step = "insert"
    BY <1>3, <2>1 DEF Task, Like, Same
  <2>3. Decided(t)
    BY <1>1, <1>2, <2>2 DEF Decided, Like, Same, TwoStep, AfterCommit, InTx, Rewriters
  <2> QED
    BY <1>1, <1>6, <2>1, <2>2, <2>3, SerialQuiet
<1> QED
  BY <1>1, <1>5, <1>6

LEMMA SerialClean ==
    ASSUME NoticeInv, SerialInv, group = "serial", MCNext, NEW w \in Workers, Clean(w)
    PROVE  SerialInv'
<1>1. task[w].step = "clean" /\ UNCHANGED sub
  BY DEF Clean
<1>2. /\ \A v \in Workers : v # w => task[v] = Idle
      /\ Decided(task[w]) /\ task[w].op \notin {"none", "userCancel", "purchase"}
  BY <1>1, OthersIdle
<1>3. task[w] \in Task /\ task[w].op \in Ops
  BY <1>1, AtWork
<1>4. task[w].op \in Rewriters
  BY <1>1, <1>2, <1>3, NotificationAssumption DEF Decided, Rewriters
<1>5. PICK i \in task[w].listed :
         LET t == [task[w] EXCEPT !.listed = @ \ {i}] IN
         Go(w, IF t.listed = {} THEN [t EXCEPT !.step = "insert"] ELSE t)
  BY DEF Clean
<1>6. PICK t : t = [task[w] EXCEPT !.listed = task[w].listed \ {i}]
  OBVIOUS
<1>7. t \in Task /\ Like(t, task[w]) /\ t.step = "clean"
  BY <1>1, <1>3, <1>6 DEF Task, Like, Same
<1>8. PICK u : u = [t EXCEPT !.step = "insert"]
  OBVIOUS
<1>9. Like(u, task[w]) /\ u.step = "insert"
  BY <1>7, <1>8 DEF Task, Like, Same
<1>10. \E x \in {t, u} : Go(w, x)
  BY <1>5, <1>6, <1>8
<1>11. PICK x \in {t, u} : Go(w, x)
  BY <1>10
<1>12. x.step \in {"clean", "insert"} /\ Like(x, task[w])
  BY <1>7, <1>9
<1>13. Decided(x)' /\ x.op # "none" /\ ~ Settled(x)
  BY <1>1, <1>2, <1>4, <1>12
     DEF Decided, Like, Same, TwoStep, AfterCommit, InTx, Rewriters, Settled
<1> QED
  BY <1>2, <1>11, <1>13, OneMoves

LEMMA SerialInsert ==
    ASSUME NoticeInv, SerialInv, group = "serial", MCNext, NEW w \in Workers, Insert(w)
    PROVE  SerialInv'
<1>1. /\ task[w].step = "insert" /\ UNCHANGED sub
  BY DEF Insert
<1>2. /\ \A v \in Workers : v # w => task[v] = Idle
      /\ Decided(task[w]) /\ task[w].op \notin {"none", "userCancel", "purchase"}
      /\ Settled(task[w]) => NewestFits(sub.status)
  BY <1>1, OthersIdle
<1>3. task[w] \in Task /\ task[w].op \in Ops /\ task[w].event \in DOMAIN wrote /\ task[w].event \in Nat
  BY <1>1, AtWork
<1>4. PICK op : op = task[w].op
  OBVIOUS
<1>5. op \in TwoStep \cup InTx /\ op # "purchase" /\ op \in Ops
  BY <1>1, <1>2, <1>3, <1>4, NotificationAssumption DEF Decided, AfterCommit, TwoStep, InTx
<1>6. PICK kind : kind = Notice(op)
  OBVIOUS
<1>7. /\ Store(Rows({kind}, op, task[w].event))
      /\ Go(w, [task[w] EXCEPT !.step = "deliver", !.mails = Rows({kind}, op, task[w].event)])
  BY <1>2, <1>4, <1>6, NoFaults DEF Insert
<1>8. PICK t : t = [task[w] EXCEPT !.step = "deliver", !.mails = Rows({kind}, op, task[w].event)]
  OBVIOUS
<1>9. Like(t, task[w]) /\ t.step = "deliver"
  BY <1>3, <1>8 DEF Task, Like, Same
<1>10. PICK status : status = IF op \in Rewriters THEN task[w].copy.status ELSE sub.status
  OBVIOUS
<1>11. /\ kind \in Kinds \ {"one_off_purchase_completed"}
       /\ \/ kind \in Good /\ status # "cancelled"
          \/ kind = "premium_ended" /\ status # "active"
          \/ kind \notin Good \cup {"premium_ended"} /\ NewestFits(status)
  <2>1. CASE op \in TwoStep
    <3>1. status = "cancelled"
      BY <1>1, <1>2, <1>4, <1>10, <2>1 DEF Decided, TwoStep, InTx, Rewriters
    <3>2. kind = "premium_ended"
      BY <1>6, <2>1 DEF Notice, TwoStep
    <3> QED
      BY <3>1, <3>2 DEF Kinds
  <2>2. CASE op = "saleFailed"
    <3>1. status = sub.status /\ NewestFits(sub.status)
      BY <1>2, <1>4, <1>10, <2>2 DEF Settled, Rewriters
    <3>2. kind = "payment_method_failed"
      BY <1>6, <2>2 DEF Notice
    <3> QED
      BY <3>1, <3>2 DEF Kinds, Good
  <2>3. CASE op \in Rewriters
    <3>1. status = IF op \in {"upgrade", "reactivate"} THEN "active" ELSE "cancelled"
      BY <1>2, <1>4, <1>10, <2>3 DEF Decided
    <3>2. kind = IF op = "upgrade" THEN "premium_renewed"
                 ELSE IF op = "reactivate" THEN "premium_started" ELSE "premium_ended"
      BY <1>6, <2>3 DEF Notice, Rewriters
    <3> QED
      BY <2>3, <3>1, <3>2 DEF Kinds, Good
  <2> QED
    BY <1>5, <2>1, <2>2, <2>3 DEF Rewriters
<1>12. NewestFits(status)'
  BY <1>3, <1>4, <1>5, <1>7, <1>11, NewRowFits
<1>13. Decided(t)' /\ t.op # "none"
  <2>1. op \in Rewriters => t.copy.status = status
    BY <1>4, <1>9, <1>10 DEF Like, Same
  <2>2. t.op = op /\ sub' = sub
    BY <1>1, <1>4, <1>9 DEF Like, Same
  <2>3. op \in Rewriters => NewestFits(t.copy.status)'
    BY <1>12, <2>1
  <2> QED
    BY <1>1, <1>2, <1>4, <1>5, <1>9, <2>2, <2>3
       DEF Decided, Like, Same, TwoStep, AfterCommit, InTx, Rewriters
<1>14. Settled(t) => NewestFits(sub.status)'
  <2>1. Settled(t) => sub'.status = status
    BY <1>1, <1>4, <1>9, <1>10 DEF Settled, Like, Same
  <2> QED
    BY <1>12, <2>1
<1> QED
  BY <1>2, <1>7, <1>8, <1>13, <1>14, OneMoves

LEMMA SerialCommit ==
    ASSUME NoticeInv, SerialInv, group = "serial", MCNext, NEW w \in Workers, Commit(w)
    PROVE  SerialInv'
<1>1. /\ task[w].step = "commit" /\ Write(task[w].copy, task[w].op, task[w].event)
      /\ Go(w, Idle) /\ UNCHANGED queue
  BY DEF Commit, Done
<1>2. /\ \A v \in Workers : v # w => task[v] = Idle
      /\ Decided(task[w]) /\ task[w].op \notin {"none", "userCancel", "purchase"}
      /\ Settled(task[w]) => NewestFits(sub.status)
  BY <1>1, OthersIdle
<1>3. /\ task[w] \in Task /\ task[w].op \in Ops /\ task[w].event \in DOMAIN wrote
      /\ task[w].copy \in SubRow
  <2>1. task[w] \in Task /\ task[w].op \in Ops /\ task[w].event \in DOMAIN wrote
    BY <1>1, AtWork
  <2> QED
    BY <2>1 DEF Task
<1>4. task[w].op \in InTx
  BY <1>1, <1>2, <1>3, NotificationAssumption DEF Decided
<1>5. sub'.status = IF Writes(task[w].op) THEN task[w].copy.status ELSE sub.status
  BY <1>1, <1>3, WriteIs DEF NoticeInv
<1>6. PICK status : status = sub'.status
  OBVIOUS
<1>7. NewestFits(status)
  <2>1. CASE task[w].op = "saleFailed"
    BY <1>2, <1>5, <1>6, <2>1 DEF Settled, Rewriters, Writes
  <2>2. CASE task[w].op \in Rewriters
    BY <1>1, <1>2, <1>5, <1>6, <2>2 DEF Decided, Rewriters, InTx, Writes
  <2> QED
    BY <1>4, <2>1, <2>2 DEF Rewriters
<1>8. NewestFits(sub.status)'
  BY <1>1, <1>6, <1>7 DEF NewestFits, Membership, Fits
<1> QED
  BY <1>1, <1>2, <1>8, OneMoves

LEMMA SerialRead ==
    ASSUME NoticeInv, SerialInv, group = "serial", MCNext,
           MarkNotificationRead \/ \E i \in Ids : Read(i)
    PROVE  SerialInv'
<1>1. /\ faults' = 0 /\ Alone' /\ group' = "serial"
      /\ UNCHANGED <<task, sub>>
  BY SerialIs DEF MarkNotificationRead, Read
<1>2. ASSUME NEW status, NewestFits(status)
      PROVE  NewestFits(status)'
  <2>1. CASE MarkNotificationRead
    BY <1>2, <2>1, ReadingFits
  <2>2. CASE \E i \in Ids : Read(i)
    BY <1>2, <2>2 DEF Read, NewestFits, Membership, Fits
  <2> QED
    BY <2>1, <2>2
<1>3. ASSUME NEW w \in Workers, Decided(task[w])
      PROVE  Decided(task[w])'
  <2>1. PICK status : status = task[w].copy.status
    OBVIOUS
  <2>2. NewestFits(status) => NewestFits(status)'
    BY <1>2
  <2>3. NewestFits(task[w].copy.status) => NewestFits(task[w].copy.status)'
    BY <1>1, <2>1, <2>2
  <2> QED
    BY <1>1, <1>3, <2>3 DEF Decided
<1>4. NewestFits(sub.status) => NewestFits(sub.status)'
  <2>1. PICK status : status = sub.status
    OBVIOUS
  <2>2. NewestFits(status) => NewestFits(status)'
    BY <1>2
  <2> QED
    BY <1>1, <2>1, <2>2
<1> QED
  BY <1>1, <1>3, <1>4 DEF SerialInv, Settled

LEMMA SerialKeeps ==
    ASSUME NoticeInv, SerialInv, group = "serial", MCNext
    PROVE  SerialInv'
<1>1. \A w \in Workers : ~ RollBack(w)
  BY NoFaults DEF RollBack
<1>2. Next
  BY DEF MCNext
<1> QED
  BY <1>1, <1>2, SerialBegin, SerialTransact, SerialTransactFails, SerialMail, SerialList,
     SerialClean, SerialInsert, SerialCommit, SerialRead DEF Next

LEMMA MCBegins == MCInit => MCInv
<1> SUFFICES ASSUME MCInit PROVE MCInv
  OBVIOUS
<1>1. NoticeInv
  BY Begins DEF MCInit
<1>2. /\ \A w \in Workers : task[w] = Idle
      /\ queue = {} /\ faults = 0
  BY DEF MCInit, Init
<1>3. Idle.step = "idle" /\ Idle.op = "none"
  BY DEF Idle
<1>4. NewestFits(sub.status)
  BY <1>2 DEF NewestFits, Membership
<1> QED
  BY <1>1, <1>2, <1>3, <1>4 DEF MCInv, Honest, SerialInv, Alone

LEMMA MCKeeps ==
    ASSUME MCInv, [MCNext]_<<vars, group>>
    PROVE  MCInv'
<1>1. NoticeInv'
  BY NextKeeps DEF MCInv, MCNext, vars
<1>2. CASE MCNext
  <2>1. Honest'
    <3>1. group = "committed" => Honest'
      BY <1>1, <1>2, HonestKeeps DEF MCInv
    <3> QED
      BY <1>2, <3>1 DEF Honest, MCNext
  <2>2. SerialInv'
    <3>1. group = "serial" => SerialInv'
      BY <1>2, SerialKeeps DEF MCInv
    <3> QED
      BY <1>2, <3>1 DEF SerialInv, MCNext
  <2> QED
    BY <1>1, <2>1, <2>2 DEF MCInv
<1>3. CASE UNCHANGED <<vars, group>>
  BY <1>1, <1>3
     DEF MCInv, Honest, SerialInv, Alone, Settled, Decided, NewestFits, Membership, Fits, vars
<1> QED
  BY <1>2, <1>3

\* A notification of a start, a renewal or an end that was inserted in the
\* transaction of the change is true, for any number of handlers, whatever
\* statement, commit or e-mail fails.
THEOREM CommittedNoticesAreTrue == MCSpec => []CommittedNoticeIsTrue
<1>1. MCInv => CommittedNoticeIsTrue
  BY DEF MCInv, Honest, CommittedNoticeIsTrue, NotifiedIsTrue, MembershipKind
<1> QED
  BY <1>1, MCBegins, MCKeeps, PTL DEF MCSpec

\* As long as one handler runs at a time and no statement fails, the newest
\* notification about the membership is not contradicted by the subscription when
\* the handlers are done, whatever the user reads meanwhile.
THEOREM SerialNewestFits == MCSpec => []SerialNewestIsRight
<1>1. MCInv => SerialNewestIsRight
  <2> SUFFICES ASSUME MCInv, group = "serial", \A w \in Workers : task[w] = Idle
               PROVE  NewestFits(sub.status)
    BY DEF SerialNewestIsRight, NewestIsRight, NewestFits, Fits
  <2>1. \A w \in Workers : Settled(task[w])
    BY DEF Settled, Idle, Rewriters, InTx
  <2> QED
    BY <2>1 DEF MCInv, SerialInv
<1> QED
  BY <1>1, MCBegins, MCKeeps, PTL DEF MCSpec

=============================================================================
