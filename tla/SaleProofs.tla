----------------------------- MODULE SaleProofs -----------------------------
(***************************************************************************)
(* Proofs about the deliveries of a signup's events, for any number of     *)
(* events, deliveries, workers and faults.                                 *)
(*                                                                         *)
(* The idempotency record alone does not make a payment credited once: two *)
(* deliveries may both find it pending.  What holds in every interleaving  *)
(* rests on where a handler is when it acts (DeliveryInv); what holds when *)
(* deliveries are worked on one at a time also rests on the record not     *)
(* changing behind the handler's back (SerialInv).                         *)
(***************************************************************************)
EXTENDS MCSaleDelivery, FiniteSetTheorems, TLAPS

Signup == Adds \cup Sales

\* The membership transaction has not committed yet, or its handler is done.
Before == {"lookUp", "create", "renew", "created", "renewed", "fail"}
After  == {"checkPayment", "pay", "complete"}

Busy(t, e) == t.phase # "idle" /\ t.event = e

UnderWay(e) == Cardinality({w \in Workers : Busy(task[w], e)})

\* A task that looks for the payment has had its effect, and one of the signup
\* that is through has left the row active, unless a membership transaction of its
\* event is gone unnoticed.
Sound(t) ==
    t.phase # "idle" =>
        /\ t.event \in Events
        /\ t.event \in Renewals => t.phase \in {"renew", "renewed", "complete", "fail"}
        /\ t.phase \in {"checkPayment", "pay"} =>
               effects[t.event] > 0 \/ t.event \in aborted
        /\ t.phase \in After /\ t.event \in Signup =>
               row["nmi"].status = "active" \/ t.event \in aborted

\* Every delivery waits, is worked on by one worker, or is over.
NoneMultiplied == \A e \in Events : waiting[e] + UnderWay(e) <= delivered[e]

DeliveryInv ==
    /\ TypeOK
    /\ \A w \in Workers : Sound(task[w])
    /\ NoneMultiplied
    /\ PaidIsCredited
    /\ SuccessIsActive

\* No two workers are under way.
Alone == \A v, w \in Workers : task[v] # Idle /\ task[w] # Idle => v = w

\* The record has not come to say success behind the handler's back, and the row
\* is the one the membership transaction has loaded.
Current(t) ==
    /\ t.phase \in Before /\ t.event \in NMIEvents => record[t.event] # "success"
    /\ t.phase = "renewed" => t.copy = row[Account(t.event)]

\* Whatever an event has gained, its record says so or its handler is about to.
Accounted(e) ==
    /\ gained[e] <= 1
    /\ gained[e] > 0 => \/ record[e] = "success"
                        \/ \E w \in Workers : task[w].event = e /\ task[w].phase \in After

SerialInv ==
    ~ overlapped /\ faults = 0 =>
        /\ Alone
        /\ \A w \in Workers : Current(task[w])
        /\ \A e \in NMIEvents : Accounted(e)

One(b) == IF b THEN 1 ELSE 0

-----------------------------------------------------------------------------
(* Counting                                                                *)

LEMMA SubsetCounted ==
    ASSUME NEW S \in SUBSET Workers
    PROVE  IsFiniteSet(S) /\ Cardinality(S) \in Nat
  BY SaleDeliveryAssumption, FS_Subset, FS_CardinalityType

\* One worker's membership decides by how much a count changes.
LEMMA CountChanges ==
    ASSUME NEW S \in SUBSET Workers, NEW T \in SUBSET Workers, NEW w \in Workers,
           \A v \in Workers : v # w => (v \in S <=> v \in T)
    PROVE  Cardinality(T) = Cardinality(S) - One(w \in S) + One(w \in T)
<1> DEFINE R == S \ {w}
<1>1. /\ IsFiniteSet(S) /\ IsFiniteSet(R)
      /\ Cardinality(S) \in Nat /\ Cardinality(R) \in Nat
  BY SubsetCounted
<1>2. Cardinality(R) = Cardinality(S) - One(w \in S)
  BY <1>1, FS_RemoveElement DEF One
<1>3. Cardinality(T) = Cardinality(R) + One(w \in T)
  <2>1. CASE w \in T
    <3>1. T = R \cup {w}
      BY <2>1
    <3> QED
      BY <1>1, <2>1, <3>1, FS_AddElement DEF One
  <2>2. CASE w \notin T
    <3>1. T = R
      BY <2>2
    <3> QED
      BY <1>1, <2>2, <3>1 DEF One
  <2> QED
    BY <2>1, <2>2
<1> HIDE DEF R
<1> QED
  BY <1>1, <1>2, <1>3 DEF One

LEMMA UnderWayTyped ==
    ASSUME NEW e
    PROVE  UnderWay(e) \in Nat /\ UnderWay(e)' \in Nat
<1>1. UnderWay(e) \in Nat
  BY SubsetCounted DEF UnderWay
<1>2. UnderWay(e)' \in Nat
  BY SubsetCounted DEF UnderWay, Busy
<1> QED
  BY <1>1, <1>2

LEMMA UnderWayChanges ==
    ASSUME TypeOK, NEW w \in Workers, NEW t, task' = [task EXCEPT ![w] = t], NEW e
    PROVE  UnderWay(e)' = UnderWay(e) - One(Busy(task[w], e)) + One(Busy(t, e))
<1> DEFINE C == {v \in Workers : Busy(task[v], e)}
           D == {v \in Workers : Busy(task'[v], e)}
<1>1. task'[w] = t /\ \A v \in Workers : v # w => task'[v] = task[v]
  BY DEF TypeOK
<1>2. Cardinality(D) = Cardinality(C) - One(w \in C) + One(w \in D)
  <2>1. \A v \in Workers : v # w => (v \in C <=> v \in D)
    BY <1>1
  <2> HIDE DEF C, D
  <2> QED
    BY <2>1, CountChanges DEF C, D
<1>3. One(w \in C) = One(Busy(task[w], e)) /\ One(w \in D) = One(Busy(t, e))
  BY <1>1 DEF One
<1>4. UnderWay(e) = Cardinality(C) /\ UnderWay(e)' = Cardinality(D)
  BY DEF UnderWay, Busy
<1> HIDE DEF C, D
<1> QED
  BY <1>2, <1>3, <1>4

-----------------------------------------------------------------------------
(* Steps                                                                   *)

LEMMA SignupAccount == \A e \in Signup : Account(e) = "nmi" /\ e \in NMIEvents /\ e \in Events
  BY SaleDeliveryAssumption DEF Signup, Account, NMIEvents, Events

LEMMA IdleTask == Idle \in Task /\ Sound(Idle) /\ \A e : ~ Busy(Idle, e)
  BY DEF Idle, Task, Phase, NewRow, Row, Sound, Busy

\* A step of one worker keeps the invariant when the deliveries stay accounted
\* for, effects and the activation stay, and the rows of payments and records
\* keep their promises.
LEMMA StepKeeps ==
    ASSUME DeliveryInv, NEW w \in Workers, NEW t \in Task, task' = [task EXCEPT ![w] = t],
           Sound(t)',
           record' \in [NMIEvents -> {"absent", "pending", "success", "failed"}],
           row' \in [{"nmi", "ccbill"} -> Row], payments' \in [Events -> Nat],
           waiting' \in [Events -> Nat], UNCHANGED delivered,
           effects' \in [Events -> Nat], gained' \in [Events -> Int],
           faults' \in 0..MaxFaults, aborted' \subseteq Events, aborted \subseteq aborted',
           \A e \in Events : effects[e] <= effects'[e],
           row["nmi"].status = "active" => row'["nmi"].status = "active",
           \A e \in Events : waiting'[e] + One(Busy(t, e)) <= waiting[e] + One(Busy(task[w], e)),
           PaidIsCredited', SuccessIsActive'
    PROVE  DeliveryInv'
<1>1. \A v \in Workers : Sound(task[v])'
  <2> TAKE v \in Workers
  <2>1. CASE v = w
    BY <2>1 DEF DeliveryInv, TypeOK, Sound
  <2>2. CASE v # w
    <3>1. task'[v] = task[v] /\ Sound(task[v])
      BY <2>2 DEF DeliveryInv, TypeOK
    <3>2. \A e \in Events : effects[e] > 0 => effects'[e] > 0
      BY DEF DeliveryInv, TypeOK
    <3> QED
      BY <3>1, <3>2 DEF Sound
  <2> QED
    BY <2>1, <2>2
<1>2. ASSUME NEW e \in Events
      PROVE  waiting'[e] + UnderWay(e)' <= delivered'[e] /\ waiting'[e] \in 0..MaxDeliveries
  <2>1. UnderWay(e)' = UnderWay(e) - One(Busy(task[w], e)) + One(Busy(t, e))
    BY UnderWayChanges DEF DeliveryInv
  <2>2. /\ UnderWay(e) \in Nat /\ UnderWay(e)' \in Nat
        /\ One(Busy(task[w], e)) \in {0, 1} /\ One(Busy(t, e)) \in {0, 1}
    BY UnderWayTyped DEF One
  <2>3. /\ waiting[e] \in Nat /\ waiting'[e] \in Nat /\ delivered[e] \in 0..MaxDeliveries
        /\ delivered'[e] = delivered[e] /\ MaxDeliveries \in Nat
        /\ waiting[e] + UnderWay(e) <= delivered[e]
    BY SaleDeliveryAssumption DEF DeliveryInv, TypeOK, NoneMultiplied
  <2>4. waiting'[e] + One(Busy(t, e)) <= waiting[e] + One(Busy(task[w], e))
    OBVIOUS
  <2> QED
    BY <2>1, <2>2, <2>3, <2>4
<1>3. TypeOK'
  BY <1>2 DEF DeliveryInv, TypeOK
<1> QED
  BY <1>1, <1>2, <1>3 DEF DeliveryInv, NoneMultiplied

\* So does one that only moves on, or ends, what a worker does.
LEMMA MoveKeeps ==
    ASSUME DeliveryInv, NEW w \in Workers, NEW t \in Task, task' = [task EXCEPT ![w] = t],
           Sound(t), \A e \in Events : Busy(t, e) => Busy(task[w], e),
           UNCHANGED <<record, row, payments, waiting, delivered, effects, gained, aborted>>,
           faults' \in 0..MaxFaults
    PROVE  DeliveryInv'
<1>1. /\ Sound(t)' /\ PaidIsCredited' /\ SuccessIsActive'
  BY DEF DeliveryInv, Sound, PaidIsCredited, SuccessIsActive
<1>2. \A e \in Events :
         /\ waiting'[e] + One(Busy(t, e)) <= waiting[e] + One(Busy(task[w], e))
         /\ effects[e] <= effects'[e]
  BY DEF One, DeliveryInv, TypeOK
<1>3. /\ record' \in [NMIEvents -> {"absent", "pending", "success", "failed"}]
      /\ row' \in [{"nmi", "ccbill"} -> Row] /\ payments' \in [Events -> Nat]
      /\ waiting' \in [Events -> Nat] /\ aborted' \subseteq Events
      /\ effects' \in [Events -> Nat] /\ gained' \in [Events -> Int]
  BY SaleDeliveryAssumption DEF DeliveryInv, TypeOK
<1> QED
  BY <1>1, <1>2, <1>3, StepKeeps

\* The same for a step to another phase of the same handler.
LEMMA GoKeeps ==
    ASSUME DeliveryInv, NEW w \in Workers, NEW phase \in Phase \ {"idle"}, NEW c \in Row,
           task' = [task EXCEPT ![w] = [phase |-> phase, event |-> task[w].event, copy |-> c]],
           task[w].phase # "idle",
           Sound([phase |-> phase, event |-> task[w].event, copy |-> c]),
           UNCHANGED <<record, row, payments, waiting, delivered, effects, gained, aborted>>,
           faults' \in 0..MaxFaults
    PROVE  DeliveryInv'
<1> DEFINE t == [phase |-> phase, event |-> task[w].event, copy |-> c]
<1>1. t \in Task /\ \A e \in Events : Busy(t, e) => Busy(task[w], e)
  BY DEF DeliveryInv, TypeOK, Task, Busy
<1> HIDE DEF t
<1> QED
  BY <1>1, MoveKeeps DEF t

-----------------------------------------------------------------------------
(* The actions                                                             *)

LEMMA InitHolds == Init => DeliveryInv
<1> SUFFICES ASSUME Init PROVE DeliveryInv
  OBVIOUS
<1>1. TypeOK
  BY SaleDeliveryAssumption, IdleTask DEF Init, TypeOK, NewRow, Row
<1>2. \A w \in Workers : Sound(task[w])
  BY IdleTask DEF Init
<1>3. NoneMultiplied
  <2> SUFFICES ASSUME NEW e \in Events PROVE waiting[e] + UnderWay(e) <= delivered[e]
    BY DEF NoneMultiplied
  <2>1. {w \in Workers : Busy(task[w], e)} = {}
    BY IdleTask DEF Init
  <2>2. UnderWay(e) = 0
    BY <2>1, FS_EmptySet DEF UnderWay
  <2> QED
    BY <2>2 DEF Init
<1>4. PaidIsCredited /\ SuccessIsActive
  BY SignupAccount DEF Init, PaidIsCredited, SuccessIsActive, Signup
<1> QED
  BY <1>1, <1>2, <1>3, <1>4 DEF DeliveryInv

LEMMA WebhookKeeps ==
    ASSUME DeliveryInv, NEW e \in Events, Webhook(e)
    PROVE  DeliveryInv'
<1>1. /\ \A x \in Events : waiting'[x] - waiting[x] = delivered'[x] - delivered[x]
      /\ \A x \in Events : waiting'[x] \in Nat /\ delivered'[x] \in 0..MaxDeliveries
  BY SaleDeliveryAssumption DEF Webhook, DeliveryInv, TypeOK
<1>2. \A x \in Events : UnderWay(x)' = UnderWay(x) /\ UnderWay(x) \in Nat
  BY UnderWayTyped DEF Webhook, UnderWay, Busy
<1>3. NoneMultiplied'
  BY <1>1, <1>2, SaleDeliveryAssumption DEF DeliveryInv, TypeOK, NoneMultiplied
<1>4. \A x \in Events : waiting'[x] \in 0..MaxDeliveries
  BY <1>1, <1>2, <1>3, SaleDeliveryAssumption DEF NoneMultiplied
<1>5. TypeOK'
  BY <1>1, <1>4 DEF Webhook, DeliveryInv, TypeOK
<1>6. (\A w \in Workers : Sound(task[w]))' /\ PaidIsCredited' /\ SuccessIsActive'
  BY DEF Webhook, DeliveryInv, Sound, PaidIsCredited, SuccessIsActive
<1> QED
  BY <1>3, <1>5, <1>6 DEF DeliveryInv

LEMMA DispatchKeeps ==
    ASSUME DeliveryInv, NEW e \in Events, NEW w \in Workers, Dispatch(w, e)
    PROVE  DeliveryInv'
<1> DEFINE t == [phase |-> IF e \in Renewals THEN "renew" ELSE "begin",
                 event |-> e, copy |-> NewRow]
<1>1. task' = [task EXCEPT ![w] = t]
  BY DEF Dispatch
<1>2. t \in Task
  BY DEF Task, Phase, NewRow, Row
<1>3. Sound(t)'
  BY DEF Sound, After
<1>4. /\ PaidIsCredited' /\ SuccessIsActive'
      /\ record' \in [NMIEvents -> {"absent", "pending", "success", "failed"}]
      /\ row' \in [{"nmi", "ccbill"} -> Row] /\ payments' \in [Events -> Nat]
      /\ waiting' \in [Events -> Nat]
      /\ effects' \in [Events -> Nat] /\ gained' \in [Events -> Int]
      /\ faults' \in 0..MaxFaults
      /\ \A x \in Events : effects[x] <= effects'[x]
      /\ row["nmi"].status = "active" => row'["nmi"].status = "active"
      /\ UNCHANGED delivered /\ aborted' \subseteq Events /\ aborted \subseteq aborted'
  BY SaleDeliveryAssumption
     DEF Dispatch, DeliveryInv, TypeOK, PaidIsCredited, SuccessIsActive
<1>5. \A x \in Events :
         waiting'[x] + One(Busy(t, x)) <= waiting[x] + One(Busy(task[w], x))
  <2> TAKE x \in Events
  <2>1. One(Busy(task[w], x)) = 0 /\ (x # e => One(Busy(t, x)) = 0) /\ One(Busy(t, x)) \in {0, 1}
    BY IdleTask DEF Dispatch, One, Busy
  <2>2. waiting[x] \in Nat /\ waiting'[x] = IF x = e THEN waiting[x] - 1 ELSE waiting[x]
    BY SaleDeliveryAssumption DEF Dispatch, DeliveryInv, TypeOK
  <2> HIDE DEF t
  <2> QED
    BY <2>1, <2>2
<1> HIDE DEF t
<1> QED
  BY <1>1, <1>2, <1>3, <1>4, <1>5, StepKeeps

\* The shape every step of a handler has: it leaves the deliveries alone, or gives
\* the one under way back.
LEMMA HandlerKeeps ==
    ASSUME DeliveryInv, NEW w \in Workers, NEW t \in Task, task' = [task EXCEPT ![w] = t],
           Sound(t)',
           record' \in [NMIEvents -> {"absent", "pending", "success", "failed"}],
           row' \in [{"nmi", "ccbill"} -> Row], payments' \in [Events -> Nat],
           UNCHANGED <<waiting, delivered>>,
           effects' \in [Events -> Nat], gained' \in [Events -> Int],
           faults' \in 0..MaxFaults, aborted' \subseteq Events, aborted \subseteq aborted',
           \A e \in Events : effects[e] <= effects'[e],
           row["nmi"].status = "active" => row'["nmi"].status = "active",
           t.phase = "idle" \/ (task[w].phase # "idle" /\ t.event = task[w].event),
           PaidIsCredited', SuccessIsActive'
    PROVE  DeliveryInv'
<1>1. waiting' \in [Events -> Nat] /\ \A e \in Events : waiting[e] \in Nat
  BY SaleDeliveryAssumption DEF DeliveryInv, TypeOK
<1>2. \A e \in Events :
         /\ One(Busy(t, e)) \in {0, 1} /\ One(Busy(task[w], e)) \in {0, 1}
         /\ One(Busy(t, e)) = 1 => One(Busy(task[w], e)) = 1
  BY DEF One, Busy
<1>3. \A e \in Events :
         waiting'[e] + One(Busy(t, e)) <= waiting[e] + One(Busy(task[w], e))
  BY <1>1, <1>2
<1> QED
  BY <1>1, <1>3, StepKeeps

LEMMA BeginKeeps ==
    ASSUME DeliveryInv, NEW w \in Workers, Begin(w)
    PROVE  DeliveryInv'
<1>0. PICK t : t = IF record[task[w].event] = "success" THEN Idle
                   ELSE [phase |-> "lookUp", event |-> task[w].event, copy |-> task[w].copy]
  OBVIOUS
<1>1. task[w] \in Task /\ Sound(task[w]) /\ task[w].phase = "begin"
  BY DEF DeliveryInv, TypeOK, Begin
<1>2. task' = [task EXCEPT ![w] = t]
  BY <1>0, <1>1 DEF Begin, Done, Go, Task, DeliveryInv, TypeOK
<1>3. t \in Task /\ (t.phase = "idle" \/ t.event = task[w].event)
  BY <1>0, <1>1, IdleTask DEF Task, Phase, Idle
<1>4. Sound(t)'
  BY <1>0, <1>1 DEF Sound, After, Idle, Begin
<1>5. /\ record' \in [NMIEvents -> {"absent", "pending", "success", "failed"}]
      /\ \A e \in NMIEvents : record'[e] = "success" => record[e] = "success"
  BY DEF Begin, DeliveryInv, TypeOK
<1>6. PaidIsCredited' /\ SuccessIsActive'
  BY <1>5, SignupAccount DEF Begin, DeliveryInv, PaidIsCredited, SuccessIsActive, Signup
<1>7. /\ row' \in [{"nmi", "ccbill"} -> Row] /\ payments' \in [Events -> Nat]
      /\ effects' \in [Events -> Nat] /\ gained' \in [Events -> Int]
      /\ faults' \in 0..MaxFaults
      /\ \A x \in Events : effects[x] <= effects'[x]
      /\ row["nmi"].status = "active" => row'["nmi"].status = "active"
      /\ UNCHANGED <<waiting, delivered>>
      /\ aborted' \subseteq Events /\ aborted \subseteq aborted'
  BY DEF Begin, DeliveryInv, TypeOK
<1> QED
  BY <1>1, <1>2, <1>3, <1>4, <1>5, <1>6, <1>7, HandlerKeeps

LEMMA CompleteKeeps ==
    ASSUME DeliveryInv, NEW w \in Workers, Complete(w)
    PROVE  DeliveryInv'
<1>1. task[w] \in Task /\ Sound(task[w]) /\ task[w].phase = "complete"
  BY DEF DeliveryInv, TypeOK, Complete
<1>2. /\ record' \in [NMIEvents -> {"absent", "pending", "success", "failed"}]
      /\ \A e \in NMIEvents :
            record'[e] = "success" => record[e] = "success" \/ e = task[w].event
  BY DEF Complete, DeliveryInv, TypeOK
<1>3. PaidIsCredited' /\ SuccessIsActive'
  BY <1>1, <1>2, SignupAccount
     DEF Complete, DeliveryInv, PaidIsCredited, SuccessIsActive, Signup, Sound, After
<1>4. /\ row' \in [{"nmi", "ccbill"} -> Row] /\ payments' \in [Events -> Nat]
      /\ effects' \in [Events -> Nat] /\ gained' \in [Events -> Int]
      /\ faults' \in 0..MaxFaults
      /\ \A x \in Events : effects[x] <= effects'[x]
      /\ row["nmi"].status = "active" => row'["nmi"].status = "active"
      /\ UNCHANGED <<waiting, delivered>>
      /\ aborted' \subseteq Events /\ aborted \subseteq aborted'
  BY SaleDeliveryAssumption DEF Complete, Fault, DeliveryInv, TypeOK
<1>5. task' = [task EXCEPT ![w] = Idle] /\ Idle.phase = "idle" /\ Idle \in Task /\ Sound(Idle)'
  BY IdleTask DEF Complete, Done, Idle, Sound
<1> QED
  BY <1>2, <1>3, <1>4, <1>5, HandlerKeeps

LEMMA FailKeeps ==
    ASSUME DeliveryInv, NEW w \in Workers, Fail(w)
    PROVE  DeliveryInv'
<1>1. task[w] \in Task /\ Sound(task[w]) /\ task[w].phase = "fail" /\ task[w].event \in Events
  BY DEF DeliveryInv, TypeOK, Fail, Sound
<1>2. /\ record' \in [NMIEvents -> {"absent", "pending", "success", "failed"}]
      /\ \A e \in NMIEvents : record'[e] = "success" => record[e] = "success"
  BY DEF Fail, DeliveryInv, TypeOK
<1>3. PaidIsCredited' /\ SuccessIsActive'
  BY <1>2, SignupAccount DEF Fail, DeliveryInv, PaidIsCredited, SuccessIsActive, Signup
<1>4. /\ row' \in [{"nmi", "ccbill"} -> Row] /\ payments' \in [Events -> Nat]
      /\ effects' \in [Events -> Nat] /\ gained' \in [Events -> Int]
      /\ faults' \in 0..MaxFaults
      /\ \A x \in Events : effects[x] <= effects'[x]
      /\ row["nmi"].status = "active" => row'["nmi"].status = "active"
      /\ UNCHANGED delivered /\ aborted' \subseteq Events /\ aborted \subseteq aborted'
  BY SaleDeliveryAssumption DEF Fail, Fault, DeliveryInv, TypeOK
<1>7. waiting' \in [Events -> Nat]
  BY <1>1, SaleDeliveryAssumption DEF Fail, DeliveryInv, TypeOK
<1>5. \A x \in Events :
         waiting'[x] + One(Busy(Idle, x)) <= waiting[x] + One(Busy(task[w], x))
  <2> TAKE x \in Events
  <2>1. /\ One(Busy(Idle, x)) = 0 /\ One(Busy(task[w], x)) \in {0, 1}
        /\ x = task[w].event => One(Busy(task[w], x)) = 1
    BY <1>1, IdleTask DEF One, Busy
  <2>2. /\ waiting[x] \in Nat
        /\ waiting'[x] = IF x = task[w].event THEN waiting[x] + 1 ELSE waiting[x]
    BY <1>1, SaleDeliveryAssumption DEF Fail, DeliveryInv, TypeOK
  <2> QED
    BY <2>1, <2>2
<1>6. task' = [task EXCEPT ![w] = Idle] /\ Idle \in Task /\ Sound(Idle)'
  BY IdleTask DEF Fail, Done, Idle, Sound
<1> QED
  BY <1>2, <1>3, <1>4, <1>5, <1>6, <1>7, StepKeeps

\* Go keeps the event and the row that is loaded.
LEMMA GoIs ==
    ASSUME TypeOK, NEW w \in Workers, NEW phase \in Phase, Go(w, phase)
    PROVE  task' = [task EXCEPT ![w] = [phase |-> phase, event |-> task[w].event,
                                        copy |-> task[w].copy]]
<1>1. PICK t \in Task : t = task[w]
  BY DEF TypeOK
<1>2. [t EXCEPT !.phase = phase] = [phase |-> phase, event |-> t.event, copy |-> t.copy]
  BY DEF Task
<1> QED
  BY <1>1, <1>2 DEF Go

\* A transaction has read the row: its copy, and the next phase.
Loads(w, phase, c) == task' = [task EXCEPT ![w].phase = phase, ![w].copy = c]

LEMMA LoadIs ==
    ASSUME TypeOK, NEW w \in Workers, NEW phase \in Phase, NEW c \in Row,
           Loads(w, phase, c)
    PROVE  task' = [task EXCEPT ![w] = [phase |-> phase, event |-> task[w].event,
                                        copy |-> c]]
<1>1. PICK t \in Task : t = task[w]
  BY DEF TypeOK
<1>2. [t EXCEPT !.phase = phase] = [phase |-> phase, event |-> t.event, copy |-> t.copy]
  BY DEF Task
<1>3. \A a, b : [[phase |-> phase, event |-> a, copy |-> b] EXCEPT !.copy = c]
                  = [phase |-> phase, event |-> a, copy |-> c]
  OBVIOUS
<1>4. PICK x : x = [phase |-> phase, event |-> t.event, copy |-> t.copy]
  OBVIOUS
<1>5. [task EXCEPT ![w] = x][w] = x
  BY DEF TypeOK
<1>6. task' = [[task EXCEPT ![w] = x] EXCEPT ![w] = [x EXCEPT !.copy = c]]
  BY <1>1, <1>2, <1>4, <1>5 DEF Loads
<1>7. [x EXCEPT !.copy = c] = [phase |-> phase, event |-> t.event, copy |-> c]
  BY <1>3, <1>4
<1> QED
  BY <1>1, <1>6, <1>7 DEF TypeOK

LEMMA LookUpKeeps ==
    ASSUME DeliveryInv, NEW w \in Workers, LookUp(w)
    PROVE  DeliveryInv'
<1>1. task[w] \in Task /\ Sound(task[w]) /\ task[w].phase = "lookUp" /\ task[w].copy \in Row
  BY DEF DeliveryInv, TypeOK, LookUp, Task
<1>2. row["nmi"].status \in {"pending", "active"}
  BY DEF DeliveryInv, TypeOK, Row
<1>3. PICK phase \in Phase \ {"idle"} :
         /\ Go(w, phase)
         /\ phase \in {"create", "renew", "complete"}
         /\ phase = "complete" /\ task[w].event \in Signup =>
                row["nmi"].status = "active"
  BY <1>2, SignupAccount, SaleDeliveryAssumption DEF LookUp, Phase, Signup
<1>4. task' = [task EXCEPT ![w] = [phase |-> phase, event |-> task[w].event,
                                   copy |-> task[w].copy]]
  BY <1>3, GoIs DEF DeliveryInv
<1>5. Sound([phase |-> phase, event |-> task[w].event, copy |-> task[w].copy])
  BY <1>1, <1>3 DEF Sound, After
<1> QED
  BY <1>1, <1>4, <1>5, GoKeeps DEF LookUp, DeliveryInv, TypeOK

LEMMA LoadForCreateKeeps ==
    ASSUME DeliveryInv, NEW w \in Workers, LoadForCreate(w)
    PROVE  DeliveryInv'
<1>1. /\ task[w] \in Task /\ Sound(task[w]) /\ task[w].phase = "create" /\ task[w].copy \in Row
      /\ row[Account(task[w].event)] \in Row
  BY DEF DeliveryInv, TypeOK, LoadForCreate, Task, Account
<1>2. PICK phase \in {"fail", "created"}, c \in Row :
         task' = [task EXCEPT ![w] = [phase |-> phase, event |-> task[w].event, copy |-> c]]
  <2>1. CASE Go(w, "fail")
    BY <1>1, <2>1, GoIs DEF Phase, DeliveryInv
  <2>2. CASE task' = [task EXCEPT ![w].phase = "created",
                                  ![w].copy = row[Account(task[w].event)]]
    <3>1. PICK c \in Row : c = row[Account(task[w].event)]
      BY <1>1
    <3>2. TypeOK /\ task' = [task EXCEPT ![w].phase = "created", ![w].copy = c]
      BY <2>2, <3>1 DEF DeliveryInv
    <3>3. PICK phase \in Phase : phase = "created"
      BY DEF Phase
    <3>4. Loads(w, phase, c)
      BY <3>2, <3>3 DEF Loads
    <3>5. task' = [task EXCEPT ![w] = [phase |-> phase, event |-> task[w].event,
                                       copy |-> c]]
      BY <3>2, <3>4, LoadIs
    <3>6. phase \in {"fail", "created"} /\ c \in Row
      BY <3>3
    <3> QED
      BY <3>5, <3>6
  <2> QED
    BY <2>1, <2>2 DEF LoadForCreate
<1>3. Sound([phase |-> phase, event |-> task[w].event, copy |-> c])
  BY <1>1 DEF Sound, After
<1> QED
  BY <1>1, <1>2, <1>3, GoKeeps DEF LoadForCreate, DeliveryInv, TypeOK, Phase

LEMMA LoadForRenewKeeps ==
    ASSUME DeliveryInv, NEW w \in Workers, LoadForRenew(w)
    PROVE  DeliveryInv'
<1>1. /\ task[w] \in Task /\ Sound(task[w]) /\ task[w].phase = "renew"
      /\ row[Account(task[w].event)] \in Row
  BY DEF DeliveryInv, TypeOK, LoadForRenew, Task, Account
<1>2. task' = [task EXCEPT ![w] = [phase |-> "renewed", event |-> task[w].event,
                                   copy |-> row[Account(task[w].event)]]]
  <2>1. PICK c \in Row : c = row[Account(task[w].event)]
    BY <1>1
  <2>2. TypeOK /\ task' = [task EXCEPT ![w].phase = "renewed", ![w].copy = c]
    BY <2>1 DEF DeliveryInv, LoadForRenew
  <2>3. PICK phase \in Phase : phase = "renewed"
    BY DEF Phase
  <2>4. Loads(w, phase, c)
    BY <2>2, <2>3 DEF Loads
  <2>5. task' = [task EXCEPT ![w] = [phase |-> phase, event |-> task[w].event, copy |-> c]]
    BY <2>2, <2>4, LoadIs
  <2> QED
    BY <2>1, <2>3, <2>5
<1>3. Sound([phase |-> "renewed", event |-> task[w].event,
             copy |-> row[Account(task[w].event)]])
  BY <1>1 DEF Sound, After
<1> QED
  BY <1>1, <1>2, <1>3, GoKeeps DEF LoadForRenew, DeliveryInv, TypeOK, Phase

LEMMA CheckPaymentKeeps ==
    ASSUME DeliveryInv, NEW w \in Workers, CheckPayment(w)
    PROVE  DeliveryInv'
<1>1. task[w] \in Task /\ Sound(task[w]) /\ task[w].phase = "checkPayment" /\ task[w].copy \in Row
  BY DEF DeliveryInv, TypeOK, CheckPayment, Task
<1>2. PICK phase \in {"complete", "pay"} : Go(w, phase)
  BY DEF CheckPayment
<1>3. task' = [task EXCEPT ![w] = [phase |-> phase, event |-> task[w].event,
                                   copy |-> task[w].copy]]
  BY <1>2, GoIs DEF DeliveryInv, Phase
<1>4. Sound([phase |-> phase, event |-> task[w].event, copy |-> task[w].copy])
  BY <1>1 DEF Sound, After
<1> QED
  BY <1>1, <1>3, <1>4, GoKeeps DEF CheckPayment, DeliveryInv, TypeOK, Phase

LEMMA StatementFailsKeeps ==
    ASSUME DeliveryInv, NEW w \in Workers, StatementFails(w)
    PROVE  DeliveryInv'
<1>1. /\ task[w] \in Task /\ Sound(task[w]) /\ task[w].phase # "idle"
      /\ task[w].copy \in Row
  BY DEF DeliveryInv, TypeOK, StatementFails, Task
<1>2. task' = [task EXCEPT ![w] = [phase |-> "fail", event |-> task[w].event,
                                   copy |-> task[w].copy]]
  BY GoIs DEF DeliveryInv, Phase, StatementFails
<1>3. Sound([phase |-> "fail", event |-> task[w].event, copy |-> task[w].copy])
  BY <1>1 DEF Sound, After
<1>4. faults' \in 0..MaxFaults
  BY SaleDeliveryAssumption DEF StatementFails, Fault, DeliveryInv, TypeOK
<1> QED
  BY <1>1, <1>2, <1>3, <1>4, GoKeeps DEF StatementFails, Phase

\* The handler goes on without its effect, and the event is among the aborted.
LEMMA NoticeFailsKeeps ==
    ASSUME DeliveryInv, NEW w \in Workers, NoticeFails(w)
    PROVE  DeliveryInv'
<1>1. PICK e \in Events : e = task[w].event
  BY DEF DeliveryInv, Sound, NoticeFails
<1>2. task[w] \in Task /\ Sound(task[w]) /\ task[w].copy \in Row /\ task[w].phase # "idle"
  BY DEF DeliveryInv, TypeOK, Task, NoticeFails
<1>3. PICK t : t = [phase |-> AfterCommit(e), event |-> e, copy |-> task[w].copy]
  OBVIOUS
<1>4. /\ t \in Task /\ AfterCommit(e) \in Phase
      /\ t.event = e /\ t.phase \in {"checkPayment", "complete"}
  BY <1>1, <1>2, <1>3 DEF AfterCommit, Task, Phase
<1>5. task' = [task EXCEPT ![w] = t]
  BY <1>1, <1>3, <1>4, GoIs DEF NoticeFails, DeliveryInv
<1>6. aborted' = aborted \cup {e} /\ aborted' \subseteq Events /\ aborted \subseteq aborted'
  BY <1>1 DEF NoticeFails, DeliveryInv, TypeOK
<1>7. Sound(t)'
  <2>1. e \in Renewals => t.phase = "complete"
    BY <1>3, SaleDeliveryAssumption DEF AfterCommit, NMIEvents
  <2> QED
    BY <1>4, <1>6, <2>1 DEF Sound
<1>8. PaidIsCredited' /\ SuccessIsActive'
  BY <1>6 DEF NoticeFails, DeliveryInv, PaidIsCredited, SuccessIsActive
<1>9. /\ row' \in [{"nmi", "ccbill"} -> Row] /\ payments' \in [Events -> Nat]
      /\ record' \in [NMIEvents -> {"absent", "pending", "success", "failed"}]
      /\ effects' \in [Events -> Nat] /\ gained' \in [Events -> Int]
      /\ faults' \in 0..MaxFaults
      /\ \A x \in Events : effects[x] <= effects'[x]
      /\ row["nmi"].status = "active" => row'["nmi"].status = "active"
      /\ UNCHANGED <<waiting, delivered>>
  BY SaleDeliveryAssumption DEF NoticeFails, Fault, DeliveryInv, TypeOK
<1> QED
  BY <1>1, <1>2, <1>4, <1>5, <1>6, <1>7, <1>8, <1>9, HandlerKeeps

LEMMA CrashKeeps ==
    ASSUME DeliveryInv, NEW w \in Workers, Crash(w)
    PROVE  DeliveryInv'
<1>1. faults' \in 0..MaxFaults
  BY SaleDeliveryAssumption DEF Crash, Fault, DeliveryInv, TypeOK
<1> QED
  BY <1>1, IdleTask, MoveKeeps DEF Crash, Done

\* The row becomes active: a statement of Commit for whatever period it is given.
LEMMA CommitKeeps ==
    ASSUME DeliveryInv, NEW w \in Workers, task[w].phase \in {"created", "renewed"},
           NEW periods \in Nat, Commit(w, periods)
    PROVE  DeliveryInv'
<1>1. PICK e \in Events : e = task[w].event
  BY DEF DeliveryInv, Sound
<1>2. /\ task[w] \in Task /\ Sound(task[w]) /\ task[w].copy \in Row
      /\ Account(e) \in {"nmi", "ccbill"}
  BY DEF DeliveryInv, TypeOK, Task, Account
<1>3. PICK t : t = [phase |-> AfterCommit(e), event |-> e, copy |-> task[w].copy]
  OBVIOUS
<1>4. t \in Task /\ AfterCommit(e) \in Phase /\ t.event = e /\ t.phase \in {"checkPayment", "complete"}
  BY <1>1, <1>2, <1>3 DEF AfterCommit, Task, Phase
<1>5. task' = [task EXCEPT ![w] = t]
  BY <1>1, <1>3, <1>4, GoIs DEF Commit, DeliveryInv
<1>6. row' = [row EXCEPT ![Account(e)] = [status |-> "active", periods |-> periods]]
  BY <1>1 DEF Commit
<1>7. row' \in [{"nmi", "ccbill"} -> Row]
  BY <1>2, <1>6 DEF DeliveryInv, TypeOK, Row
<1>8. /\ row["nmi"].status = "active" => row'["nmi"].status = "active"
      /\ Account(e) = "nmi" => row'["nmi"].status = "active"
  BY <1>2, <1>6 DEF DeliveryInv, TypeOK
<1>9. effects' = [effects EXCEPT ![e] = @ + 1]
  BY <1>1 DEF Commit
<1>10. /\ effects' \in [Events -> Nat] /\ effects'[e] > 0
       /\ \A x \in Events : effects[x] <= effects'[x]
  BY <1>9 DEF DeliveryInv, TypeOK
<1>11. gained' \in [Events -> Int]
  <2>1. row[Account(e)].periods \in Nat
    BY <1>2 DEF DeliveryInv, TypeOK, Row
  <2> QED
    BY <1>1, <2>1 DEF Commit, DeliveryInv, TypeOK
<1>12. Sound(t)'
  <2>1. e \in Renewals => t.phase = "complete"
    BY <1>3, SaleDeliveryAssumption DEF AfterCommit, NMIEvents
  <2> QED
    BY <1>4, <1>8, <1>10, <2>1, SignupAccount DEF Sound
<1>13. PaidIsCredited'
  BY <1>10 DEF Commit, DeliveryInv, TypeOK, PaidIsCredited
<1>14. SuccessIsActive'
  BY <1>8, SignupAccount DEF Commit, DeliveryInv, SuccessIsActive, Signup
<1> QED
  BY <1>1, <1>4, <1>5, <1>7, <1>8, <1>10, <1>11, <1>12, <1>13, <1>14, HandlerKeeps
     DEF Commit, DeliveryInv, TypeOK

LEMMA CommitCreateKeeps ==
    ASSUME DeliveryInv, NEW w \in Workers, CommitCreate(w)
    PROVE  DeliveryInv'
  BY CommitKeeps DEF CommitCreate

LEMMA CommitRenewKeeps ==
    ASSUME DeliveryInv, NEW w \in Workers, CommitRenew(w)
    PROVE  DeliveryInv'
<1>1. task[w].copy.periods + 1 \in Nat
  BY DEF DeliveryInv, TypeOK, Task, Row
<1> QED
  BY <1>1, CommitKeeps DEF CommitRenew

LEMMA PayKeeps ==
    ASSUME DeliveryInv, NEW w \in Workers, Pay(w)
    PROVE  DeliveryInv'
<1>1. /\ task[w] \in Task /\ Sound(task[w]) /\ task[w].phase = "pay" /\ task[w].event \in Events
      /\ effects[task[w].event] > 0 \/ task[w].event \in aborted
  BY DEF DeliveryInv, TypeOK, Pay, Sound
<1>2. PICK t : t = [phase |-> "complete", event |-> task[w].event, copy |-> task[w].copy]
  OBVIOUS
<1>3. t \in Task /\ t.event = task[w].event /\ t.phase = "complete"
  BY <1>1, <1>2 DEF Task, Phase
<1>4. task' = [task EXCEPT ![w] = t]
  BY <1>2, GoIs DEF Pay, DeliveryInv, Phase
<1>5. /\ payments' \in [Events -> Nat]
      /\ \A e \in Events : payments'[e] = payments[e]
                           \/ (e = task[w].event /\ payments'[e] = 1)
      /\ faults' \in 0..MaxFaults
  BY SaleDeliveryAssumption DEF Pay, Fault, DeliveryInv, TypeOK
<1>6. PaidIsCredited'
  BY <1>1, <1>5 DEF Pay, DeliveryInv, PaidIsCredited
<1>7. Sound(t)' /\ SuccessIsActive'
  BY <1>1, <1>3, SaleDeliveryAssumption
     DEF Sound, After, Pay, DeliveryInv, SuccessIsActive, NMIEvents
<1>8. /\ row' \in [{"nmi", "ccbill"} -> Row]
      /\ record' \in [NMIEvents -> {"absent", "pending", "success", "failed"}]
      /\ effects' \in [Events -> Nat] /\ gained' \in [Events -> Int]
      /\ \A x \in Events : effects[x] <= effects'[x]
      /\ row["nmi"].status = "active" => row'["nmi"].status = "active"
      /\ UNCHANGED <<waiting, delivered>>
      /\ aborted' \subseteq Events /\ aborted \subseteq aborted'
  BY DEF Pay, DeliveryInv, TypeOK
<1> QED
  BY <1>1, <1>3, <1>4, <1>5, <1>6, <1>7, <1>8, HandlerKeeps

LEMMA NextKeeps == DeliveryInv /\ [Next]_vars => DeliveryInv'
<1> SUFFICES ASSUME DeliveryInv, [Next]_vars PROVE DeliveryInv'
  OBVIOUS
<1>1. ASSUME NEW e \in Events, Webhook(e) \/ Take(e) PROVE DeliveryInv'
  BY <1>1, WebhookKeeps, DispatchKeeps DEF Take
<1>2. ASSUME NEW w \in Workers, Work(w) PROVE DeliveryInv'
  BY <1>2, BeginKeeps, CompleteKeeps, FailKeeps, LookUpKeeps, LoadForCreateKeeps,
     CommitCreateKeeps, LoadForRenewKeeps, CommitRenewKeeps, CheckPaymentKeeps, PayKeeps
     DEF Work
<1>3. ASSUME NEW w \in Workers, StatementFails(w) \/ NoticeFails(w) \/ Crash(w)
      PROVE  DeliveryInv'
  BY <1>3, StatementFailsKeeps, NoticeFailsKeeps, CrashKeeps
<1>4. CASE UNCHANGED vars
  BY <1>4 DEF vars, DeliveryInv, TypeOK, Sound, NoneMultiplied, UnderWay, Busy,
             PaidIsCredited, SuccessIsActive
<1> QED
  BY <1>1, <1>2, <1>3, <1>4 DEF Next

\* In every behaviour, whatever the number of deliveries, workers and faults.
LEMMA DeliveryHolds == Spec => []DeliveryInv
<1>1. Init => DeliveryInv
  BY InitHolds
<1>2. DeliveryInv /\ [Next]_vars => DeliveryInv'
  BY NextKeeps
<1> QED
  BY <1>1, <1>2, PTL DEF Spec

-----------------------------------------------------------------------------
(* Theorems                                                                *)

\* The variables keep their types; in particular a stored delivery is never
\* multiplied by the retries of ProcessWebhook.
THEOREM SaleTypes == Spec => []TypeOK
<1>1. DeliveryInv => TypeOK
  BY DEF DeliveryInv
<1> QED
  BY <1>1, DeliveryHolds, PTL

\* A transaction has at most one row in billing.payments, in whatever order look-ups,
\* inserts, retries and faults of however many workers come; and only after the
\* membership transaction of its event has committed, or has been lost without an
\* error to the failed insert of its notification: that is the one way to a payment
\* without its period.
THEOREM PaidOnce == Spec => []PaidIsCredited
<1>1. DeliveryInv => PaidIsCredited
  BY DEF DeliveryInv
<1> QED
  BY <1>1, DeliveryHolds, PTL

\* A record of the signup's add or of a recurring sale says success only when the
\* subscription's row is active, or when the activation has been lost in that one way:
\* no other fault, race or repetition answers a delivery as done before it is.
THEOREM DoneIsActive == Spec => []SuccessIsActive
<1>1. DeliveryInv => SuccessIsActive
  BY DEF DeliveryInv
<1> QED
  BY <1>1, DeliveryHolds, PTL

-----------------------------------------------------------------------------
(* One delivery at a time                                                  *)

\* Undisturbed: what SerialInv says of the states it is about.
Undisturbed ==
    /\ TypeOK
    /\ Alone
    /\ \A w \in Workers : Sound(task[w]) /\ Current(task[w])
    /\ \A e \in NMIEvents : Accounted(e)

LEMMA SerialBegins == MCInit => SerialInv
<1> SUFFICES ASSUME MCInit PROVE SerialInv
  OBVIOUS
<1>1. \A w \in Workers : task[w] = Idle
  BY DEF MCInit, Init
<1>2. \A w \in Workers : Current(task[w])
  BY <1>1 DEF Current, Idle, Before
<1>3. \A e \in NMIEvents : Accounted(e)
  BY DEF MCInit, Init, Accounted, Events
<1> QED
  BY <1>1, <1>2, <1>3 DEF SerialInv, Alone

\* A step of the worker under way: it is enough to look at its own task.
LEMMA OneStep ==
    ASSUME Undisturbed, NEW w \in Workers, NEW t, task' = [task EXCEPT ![w] = t],
           \A v \in Workers : v # w => task[v] = Idle,
           Current(t)',
           \A e \in NMIEvents :
               /\ gained'[e] <= 1
               /\ gained'[e] > 0 => record'[e] = "success" \/ (t.event = e /\ t.phase \in After)
    PROVE  (\A v \in Workers : Current(task[v]))' /\ (\A e \in NMIEvents : Accounted(e))'
<1>1. task'[w] = t /\ \A v \in Workers : v # w => task'[v] = Idle
  BY DEF Undisturbed, TypeOK
<1>2. Current(Idle)'
  BY DEF Current, Idle, Before
<1>3. ASSUME NEW v \in Workers PROVE Current(task[v])'
  <2>1. CASE v = w
    BY <1>1, <2>1 DEF Current
  <2>2. CASE v # w
    BY <1>1, <1>2, <2>2 DEF Current
  <2> QED
    BY <2>1, <2>2
<1>4. ASSUME NEW e \in NMIEvents PROVE Accounted(e)'
  BY <1>1 DEF Accounted
<1> QED
  BY <1>3, <1>4

\* What has been gained before a step of w.
LEMMA GainedBefore ==
    ASSUME Undisturbed, NEW w \in Workers, \A v \in Workers : v # w => task[v] = Idle,
           NEW e \in NMIEvents
    PROVE  /\ gained[e] \in Int /\ gained[e] <= 1
           /\ gained[e] > 0 => \/ record[e] = "success"
                               \/ task[w].event = e /\ task[w].phase \in After
  BY DEF Undisturbed, TypeOK, Accounted, Idle, After, Events

LEMMA SerialDispatch ==
    ASSUME Undisturbed, NEW e \in Events, NEW w \in Workers, Dispatch(w, e), Alone'
    PROVE  (\A v \in Workers : Current(task[v]))' /\ (\A x \in NMIEvents : Accounted(x))'
<1> DEFINE t == [phase |-> IF e \in Renewals THEN "renew" ELSE "begin",
                 event |-> e, copy |-> NewRow]
<1>1. task' = [task EXCEPT ![w] = t] /\ task[w] = Idle /\ t # Idle
  BY DEF Dispatch, Idle
<1>2. \A v \in Workers : v # w => task[v] = Idle
  <2>1. task'[w] = t /\ \A v \in Workers : v # w => task'[v] = task[v]
    BY <1>1 DEF Undisturbed, TypeOK
  <2> HIDE DEF t
  <2> QED
    BY <1>1, <2>1 DEF Alone
<1>3. Current(t)'
  BY SaleDeliveryAssumption DEF Current, Before, NMIEvents
<1>4. \A x \in NMIEvents : gained'[x] <= 1 /\ (gained'[x] > 0 => record'[x] = "success")
  BY <1>1, <1>2, GainedBefore DEF Dispatch, Idle, After
<1> HIDE DEF t
<1> QED
  BY <1>1, <1>2, <1>3, <1>4, OneStep

\* A step that changes neither what is gained nor the row, and no record but to
\* what the worker's own task can bear.
LEMMA SerialMove ==
    ASSUME Undisturbed, NEW w \in Workers, NEW t, task' = [task EXCEPT ![w] = t],
           \A v \in Workers : v # w => task[v] = Idle,
           Current(t)', UNCHANGED gained,
           \A x \in NMIEvents : record[x] = "success" => record'[x] = "success",
           task[w].phase \in After =>
               \/ t.event = task[w].event /\ t.phase \in After
               \/ task[w].event \in NMIEvents => record'[task[w].event] = "success"
    PROVE  (\A v \in Workers : Current(task[v]))' /\ (\A x \in NMIEvents : Accounted(x))'
<1>1. \A x \in NMIEvents :
         /\ gained'[x] <= 1
         /\ gained'[x] > 0 => record'[x] = "success" \/ (t.event = x /\ t.phase \in After)
  BY GainedBefore
<1> QED
  BY <1>1, OneStep

LEMMA SerialBegin ==
    ASSUME Undisturbed, NEW w \in Workers, Begin(w), \A v \in Workers : v # w => task[v] = Idle
    PROVE  (\A v \in Workers : Current(task[v]))' /\ (\A x \in NMIEvents : Accounted(x))'
<1>0. PICK t : t = IF record[task[w].event] = "success" THEN Idle
                   ELSE [phase |-> "lookUp", event |-> task[w].event, copy |-> task[w].copy]
  OBVIOUS
<1>1. TypeOK /\ task[w] \in Task /\ task[w].phase = "begin"
  BY DEF Undisturbed, TypeOK, Begin
<1>2. task' = [task EXCEPT ![w] = t]
  BY <1>0, <1>1, GoIs DEF Begin, Done, Phase
<1>3. \A x \in NMIEvents : record'[x] = "success" <=> record[x] = "success"
  BY <1>1 DEF Begin, TypeOK
<1>4. Current(t)'
  BY <1>0, <1>3 DEF Current, Idle, Before
<1>5. UNCHANGED gained /\ task[w].phase \notin After
  BY <1>1 DEF Begin, After
<1> QED
  BY <1>2, <1>3, <1>4, <1>5, SerialMove

LEMMA SerialComplete ==
    ASSUME Undisturbed, NEW w \in Workers, Complete(w), UNCHANGED faults,
           \A v \in Workers : v # w => task[v] = Idle
    PROVE  (\A v \in Workers : Current(task[v]))' /\ (\A x \in NMIEvents : Accounted(x))'
<1>1. record' = [x \in NMIEvents |-> IF x = task[w].event THEN "success" ELSE record[x]]
  BY SaleDeliveryAssumption DEF Complete, Fault, Undisturbed, TypeOK
<1>2. task' = [task EXCEPT ![w] = Idle] /\ UNCHANGED gained
  BY DEF Complete, Done
<1>3. Current(Idle)'
  BY DEF Current, Idle, Before
<1>4. /\ \A x \in NMIEvents : record[x] = "success" => record'[x] = "success"
      /\ task[w].event \in NMIEvents => record'[task[w].event] = "success"
  BY <1>1
<1> QED
  BY <1>2, <1>3, <1>4, SerialMove

LEMMA SerialFail ==
    ASSUME Undisturbed, NEW w \in Workers, Fail(w), \A v \in Workers : v # w => task[v] = Idle
    PROVE  (\A v \in Workers : Current(task[v]))' /\ (\A x \in NMIEvents : Accounted(x))'
<1>1. /\ task[w].phase = "fail" /\ task[w].phase \in Before /\ task[w].phase \notin After
      /\ Current(task[w])
  BY DEF Fail, Before, After, Undisturbed
<1>2. task' = [task EXCEPT ![w] = Idle] /\ UNCHANGED gained
  BY DEF Fail, Done
<1>3. Current(Idle)'
  BY DEF Current, Idle, Before
<1>4. \A x \in NMIEvents : record[x] = "success" => record'[x] = "success"
  BY <1>1 DEF Fail, Current
<1> QED
  BY <1>1, <1>2, <1>3, <1>4, SerialMove

\* From one phase of a handler to the next: the record stays.
LEMMA SerialGo ==
    ASSUME Undisturbed, NEW w \in Workers, NEW phase \in Phase, NEW c \in Row,
           task' = [task EXCEPT ![w] = [phase |-> phase, event |-> task[w].event, copy |-> c]],
           UNCHANGED <<record, row, gained>>,
           \A v \in Workers : v # w => task[v] = Idle,
           phase \in Before => task[w].phase \in Before \/ task[w].event \notin NMIEvents,
           phase = "renewed" => c = row[Account(task[w].event)],
           task[w].phase \in After => phase \in After
    PROVE  (\A v \in Workers : Current(task[v]))' /\ (\A x \in NMIEvents : Accounted(x))'
<1>1. PICK t : t = [phase |-> phase, event |-> task[w].event, copy |-> c]
  OBVIOUS
<1>2. Current(t)'
  BY <1>1 DEF Current, Undisturbed
<1>3. \A x \in NMIEvents : record[x] = "success" => record'[x] = "success"
  OBVIOUS
<1>4. task[w].phase \in After => t.event = task[w].event /\ t.phase \in After
  BY <1>1
<1> QED
  BY <1>1, <1>2, <1>3, <1>4, SerialMove

LEMMA SerialHandler ==
    ASSUME Undisturbed, NEW w \in Workers, UNCHANGED faults,
           LookUp(w) \/ LoadForCreate(w) \/ LoadForRenew(w) \/ CheckPayment(w) \/ Pay(w),
           \A v \in Workers : v # w => task[v] = Idle
    PROVE  (\A v \in Workers : Current(task[v]))' /\ (\A x \in NMIEvents : Accounted(x))'
<1>1. /\ TypeOK /\ task[w] \in Task /\ task[w].copy \in Row
      /\ row[Account(task[w].event)] \in Row
  BY DEF Undisturbed, TypeOK, Task, Account
<1>2. CASE LookUp(w)
  <2>1. task[w].phase = "lookUp" /\ UNCHANGED <<record, row, gained>>
    BY <1>2 DEF LookUp
  <2>2. PICK phase \in Phase \ {"renewed"} : Go(w, phase)
    BY <1>2 DEF LookUp, Phase
  <2>3. task' = [task EXCEPT ![w] = [phase |-> phase, event |-> task[w].event,
                                     copy |-> task[w].copy]]
    BY <1>1, <2>2, GoIs
  <2>4. task[w].phase \in Before /\ task[w].phase \notin After
    BY <2>1 DEF Before, After
  <2> QED
    BY <1>1, <2>1, <2>2, <2>3, <2>4, SerialGo
<1>3. CASE LoadForCreate(w)
  <2>1. task[w].phase = "create" /\ UNCHANGED <<record, row, gained>>
    BY <1>3 DEF LoadForCreate
  <2>2. PICK phase \in {"fail", "created"}, c \in Row :
           task' = [task EXCEPT ![w] = [phase |-> phase, event |-> task[w].event, copy |-> c]]
    <3>1. CASE Go(w, "fail")
      BY <1>1, <3>1, GoIs DEF Phase
    <3>2. CASE task' = [task EXCEPT ![w].phase = "created",
                                    ![w].copy = row[Account(task[w].event)]]
      <4>1. PICK c \in Row : c = row[Account(task[w].event)]
        BY <1>1
      <4>2. PICK phase \in Phase : phase = "created"
        BY DEF Phase
      <4>3. Loads(w, phase, c)
        BY <3>2, <4>1, <4>2 DEF Loads
      <4>4. task' = [task EXCEPT ![w] = [phase |-> phase, event |-> task[w].event,
                                         copy |-> c]]
        BY <1>1, <4>3, LoadIs
      <4> QED
        BY <4>2, <4>4
    <3> QED
      BY <1>3, <3>1, <3>2 DEF LoadForCreate
  <2>3. phase \in Phase /\ phase # "renewed"
    BY DEF Phase
  <2>4. task[w].phase \in Before /\ task[w].phase \notin After
    BY <2>1 DEF Before, After
  <2> QED
    BY <2>1, <2>2, <2>3, <2>4, SerialGo
<1>4. CASE LoadForRenew(w)
  <2>1. task[w].phase = "renew" /\ UNCHANGED <<record, row, gained>>
    BY <1>4 DEF LoadForRenew
  <2>2. PICK c \in Row : c = row[Account(task[w].event)]
    BY <1>1
  <2>3. PICK phase \in Phase : phase = "renewed"
    BY DEF Phase
  <2>4. Loads(w, phase, c)
    BY <1>4, <2>2, <2>3 DEF LoadForRenew, Loads
  <2>5. task' = [task EXCEPT ![w] = [phase |-> phase, event |-> task[w].event, copy |-> c]]
    BY <1>1, <2>4, LoadIs
  <2>6. task[w].phase \in Before /\ task[w].phase \notin After
    BY <2>1 DEF Before, After
  <2> QED
    BY <2>1, <2>2, <2>5, <2>6, SerialGo
<1>5. CASE CheckPayment(w) \/ Pay(w)
  <2>1. UNCHANGED <<record, row, gained>>
    BY <1>5 DEF CheckPayment, Pay
  <2>2. PICK phase \in Phase : Go(w, phase) /\ phase \in After /\ phase \notin Before
                               /\ phase # "renewed"
    BY <1>5 DEF CheckPayment, Pay, Phase, After, Before
  <2>3. task' = [task EXCEPT ![w] = [phase |-> phase, event |-> task[w].event,
                                     copy |-> task[w].copy]]
    BY <1>1, <2>2, GoIs
  <2> QED
    BY <1>1, <2>1, <2>2, <2>3, SerialGo
<1> QED
  BY <1>2, <1>3, <1>4, <1>5

\* The one step that gives: nothing has been gained before it, and it gives one
\* period, because the row it extends is still the one it has loaded.
LEMMA SerialCommit ==
    ASSUME Undisturbed, NEW w \in Workers, CommitCreate(w) \/ CommitRenew(w),
           \A v \in Workers : v # w => task[v] = Idle
    PROVE  (\A v \in Workers : Current(task[v]))' /\ (\A x \in NMIEvents : Accounted(x))'
<1>1. PICK e \in Events : e = task[w].event
  BY DEF Undisturbed, Sound, CommitCreate, CommitRenew
<1>2. /\ TypeOK /\ task[w] \in Task /\ task[w].copy \in Row /\ Current(task[w])
      /\ task[w].phase \in Before /\ task[w].phase \notin After
      /\ row[Account(e)].periods \in Nat
  BY DEF Undisturbed, TypeOK, Task, Row, Account, CommitCreate, CommitRenew, Before, After
<1>3. PICK periods \in Nat :
         /\ Commit(w, periods)
         /\ periods - row[Account(e)].periods <= 1
  <2>1. CASE CommitCreate(w)
    BY <1>2, <2>1 DEF CommitCreate
  <2>2. CASE CommitRenew(w)
    <3>1. task[w].copy = row[Account(e)]
      BY <1>1, <1>2, <2>2 DEF CommitRenew, Current
    <3> QED
      BY <1>2, <2>2, <3>1 DEF CommitRenew
  <2> QED
    BY <2>1, <2>2
<1>4. PICK t : t = [phase |-> AfterCommit(e), event |-> e, copy |-> task[w].copy]
  OBVIOUS
<1>5. AfterCommit(e) \in Phase /\ t.phase \in After /\ t.event = e
      /\ t.phase \notin Before /\ t.phase # "renewed"
  BY <1>4 DEF AfterCommit, Phase, After, Before
<1>6. task' = [task EXCEPT ![w] = t]
  BY <1>1, <1>2, <1>3, <1>4, <1>5, GoIs DEF Commit
<1>7. Current(t)'
  BY <1>5 DEF Current
<1>8. ASSUME NEW x \in NMIEvents
      PROVE  /\ gained'[x] <= 1
             /\ gained'[x] > 0 => record'[x] = "success" \/ (t.event = x /\ t.phase \in After)
  <2>1. /\ gained[x] \in Int /\ gained[x] <= 1
        /\ gained[x] > 0 => record[x] = "success"
    BY <1>2, GainedBefore
  <2>2. UNCHANGED record
    BY <1>3 DEF Commit
  <2>3. x \in Events
    BY DEF Events
  <2>4. CASE x = e
    <3>1. record[x] # "success"
      BY <1>1, <1>2, <2>4 DEF Current
    <3>2. gained'[x] = gained[x] + periods - row[Account(e)].periods
      BY <1>1, <1>2, <1>3, <2>4 DEF Commit, TypeOK
    <3> QED
      BY <1>2, <1>3, <1>5, <2>1, <2>4, <3>1, <3>2
  <2>5. CASE x # e
    <3>1. gained'[x] = gained[x]
      BY <1>1, <1>2, <1>3, <2>3, <2>5 DEF Commit, TypeOK
    <3> QED
      BY <2>1, <2>2, <3>1
  <2> QED
    BY <2>4, <2>5
<1> QED
  BY <1>6, <1>7, <1>8, OneStep

LEMMA FaultsOnlyGrow ==
    ASSUME TypeOK, Next, faults' = 0
    PROVE  faults = 0 /\ ~ \E w \in Workers :
                               StatementFails(w) \/ NoticeFails(w) \/ Crash(w)
<1>1. faults \in Nat
  BY SaleDeliveryAssumption DEF TypeOK
<1>2. ASSUME NEW e \in Events, Webhook(e) \/ Take(e) PROVE faults = 0
  BY <1>2 DEF Webhook, Take, Dispatch
<1>3. ASSUME NEW w \in Workers, Work(w) PROVE faults = 0
  BY <1>1, <1>3 DEF Work, Begin, Complete, Fail, LookUp, LoadForCreate, CommitCreate,
     LoadForRenew, CommitRenew, Commit, CheckPayment, Pay, Fault
<1>4. ASSUME NEW w \in Workers, StatementFails(w) \/ NoticeFails(w) \/ Crash(w)
      PROVE  FALSE
  BY <1>1, <1>4 DEF StatementFails, NoticeFails, Crash, Fault
<1>5. faults = 0
  BY <1>2, <1>3, <1>4 DEF Next
<1> QED
  BY <1>4, <1>5

LEMMA SerialKeeps ==
    ASSUME DeliveryInv, SerialInv, [MCNext]_<<vars, overlapped, silent>>
    PROVE  SerialInv'
<1> SUFFICES ASSUME ~ overlapped', faults' = 0
             PROVE  /\ Alone'
                    /\ (\A w \in Workers : Current(task[w]))'
                    /\ (\A e \in NMIEvents : Accounted(e))'
  BY DEF SerialInv
<1>1. [Next]_vars
  BY DEF MCNext, vars
<1>7. ~ overlapped
  <2>1. CASE MCNext
    BY <2>1 DEF MCNext
  <2>2. CASE UNCHANGED <<vars, overlapped, silent>>
    BY <2>2
  <2> QED
    BY <2>1, <2>2
<1>2. /\ faults = 0
      /\ MCNext => ~ \E w \in Workers :
                               StatementFails(w) \/ NoticeFails(w) \/ Crash(w)
  BY FaultsOnlyGrow DEF DeliveryInv, MCNext, vars
<1>3. Undisturbed
  BY <1>2, <1>7 DEF SerialInv, DeliveryInv, Undisturbed
<1>4. CASE UNCHANGED <<vars, overlapped, silent>>
  BY <1>3, <1>4 DEF vars, Undisturbed, Alone, Current, Accounted
<1>5. CASE MCNext
  <2>1. Alone'
    BY <1>5 DEF MCNext, AtWork, Alone
  <2>2. ASSUME NEW e \in Events, Webhook(e)
        PROVE  (\A w \in Workers : Current(task[w]))' /\ (\A x \in NMIEvents : Accounted(x))'
    BY <1>3, <2>2 DEF Webhook, Undisturbed, Current, Accounted
  <2>3. ASSUME NEW e \in Events, Take(e)
        PROVE  (\A w \in Workers : Current(task[w]))' /\ (\A x \in NMIEvents : Accounted(x))'
    BY <1>3, <2>1, <2>3, SerialDispatch DEF Take
  <2>4. ASSUME NEW w \in Workers, Work(w)
        PROVE  (\A v \in Workers : Current(task[v]))' /\ (\A x \in NMIEvents : Accounted(x))'
    <3>1. task[w] # Idle
      BY <2>4 DEF Work, Begin, Complete, Fail, LookUp, LoadForCreate, CommitCreate,
         LoadForRenew, CommitRenew, CheckPayment, Pay, Idle
    <3>2. \A v \in Workers : v # w => task[v] = Idle
      BY <1>3, <3>1 DEF Undisturbed, Alone
    <3>3. UNCHANGED faults
      BY <1>2
    <3> QED
      BY <1>3, <2>4, <3>2, <3>3, SerialBegin, SerialComplete, SerialFail, SerialHandler,
         SerialCommit DEF Work
  <2> QED
    BY <1>2, <1>5, <2>1, <2>2, <2>3, <2>4 DEF MCNext, Next
<1> QED
  BY <1>4, <1>5

\* As long as no two deliveries are worked on at once and no statement fails, an
\* NMI event is worth at most one period, however often it is delivered: the
\* idempotency record does what it is for, for any number of events and deliveries.
THEOREM SerialCreditsOnce == MCSpec => []SerialCreditedOnce
<1>1. MCInit => DeliveryInv /\ SerialInv
  BY InitHolds, SerialBegins DEF MCInit
<1>2. DeliveryInv /\ SerialInv /\ [MCNext]_<<vars, overlapped, silent>>
        => DeliveryInv' /\ SerialInv'
  <2> SUFFICES ASSUME DeliveryInv, SerialInv, [MCNext]_<<vars, overlapped, silent>>
               PROVE  DeliveryInv' /\ SerialInv'
    OBVIOUS
  <2>1. [Next]_vars
    BY DEF MCNext, vars
  <2> QED
    BY <2>1, NextKeeps, SerialKeeps
<1>3. SerialInv => SerialCreditedOnce
  BY DEF SerialInv, SerialCreditedOnce, CreditedOnce, Accounted
<1> QED
  BY <1>1, <1>2, <1>3, PTL DEF MCSpec

=============================================================================
