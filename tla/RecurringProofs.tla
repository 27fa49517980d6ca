--------------------------- MODULE RecurringProofs ---------------------------
(***************************************************************************)
(* Proofs about what happens to an NMI subscription after its first        *)
(* payment: dunning, for any number of subscriptions, workers, queued      *)
(* jobs, charges and faults.                                               *)
(*                                                                         *)
(* That nothing is credited without a charge is not inductive: two         *)
(* attempts may have charged one subscription, and each renews a copy that *)
(* was loaded before the other's commit.  The invariant counts the         *)
(* attempts between charge and commit, and says of the row and of every    *)
(* copy that will be written back that the charges cover it and them.      *)
(***************************************************************************)
EXTENDS MCRecurring, FiniteSetTheorems, TLAPS

Credits(t, s) == t.sub = s /\ t.step \in {"renew", "renewing"}
Books(t, s)   == t.sub = s /\ t.step \in {"renew", "renewing", "record"}

\* Attempts that have charged s and will credit it, or record the payment.
Owed(s)     == Cardinality({w \in Workers : Credits(task[w], s)})
Unbooked(s) == Cardinality({w \in Workers : Books(task[w], s)})

\* The task will write its copy back.
Holds(t) == t.step \in {"failing", "renewing", "cancelling"}

Covered ==
    \A s \in Subs : /\ row[s].paid + Owed(s) <= charges[s]
                    /\ booked[s] + Unbooked(s) <= charges[s]

CopyCovered(t) == Holds(t) => t.copy.paid + Owed(t.sub) <= charges[t.sub]

DInv ==
    /\ TypeOK
    /\ \A w \in Workers : task[w].step # "idle" => task[w].sub \in Subs
    /\ Covered
    /\ \A w \in Workers : CopyCovered(task[w])

One(b) == IF b THEN 1 ELSE 0

-----------------------------------------------------------------------------
(* Counting                                                                *)

LEMMA SubsetCounted ==
    ASSUME NEW S \in SUBSET Workers
    PROVE  IsFiniteSet(S) /\ Cardinality(S) \in Nat
  BY DunningAssumption, FS_Subset, FS_CardinalityType

\* One worker's membership decides by how much a count changes.
LEMMA CountChanges ==
    ASSUME NEW S \in SUBSET Workers, NEW T \in SUBSET Workers, NEW w \in Workers,
           \A v \in Workers : v # w => (v \in S <=> v \in T)
    PROVE  Cardinality(T) = Cardinality(S) - One(w \in S) + One(w \in T)
<1> DEFINE R == S \ {w}
<1>1. /\ IsFiniteSet(S) /\ IsFiniteSet(R)
      /\ Cardinality(S) \in Nat /\ Cardinality(R) \in Nat
  BY SubsetCounted
<1>2. Cardinality(R) = Cardinality(S) - One(w \in S)
  BY <1>1, FS_RemoveElement DEF One
<1>3. Cardinality(T) = Cardinality(R) + One(w \in T)
  <2>1. CASE w \in T
    <3>1. T = R \cup {w}
      BY <2>1
    <3> QED
      BY <1>1, <2>1, <3>1, FS_AddElement DEF One
  <2>2. CASE w \notin T
    <3>1. T = R
      BY <2>2
    <3> QED
      BY <1>1, <2>2, <3>1 DEF One
  <2> QED
    BY <2>1, <2>2
<1> HIDE DEF R
<1> QED
  BY <1>1, <1>2, <1>3 DEF One

LEMMA CountsTyped ==
    ASSUME NEW s
    PROVE  /\ Owed(s) \in Nat /\ Owed(s)' \in Nat
           /\ Unbooked(s) \in Nat /\ Unbooked(s)' \in Nat
<1>1. Owed(s) \in Nat /\ Unbooked(s) \in Nat
  BY SubsetCounted DEF Owed, Unbooked
<1>2. Owed(s)' \in Nat /\ Unbooked(s)' \in Nat
  BY SubsetCounted DEF Owed, Unbooked, Credits, Books
<1> QED
  BY <1>1, <1>2

\* What a step of worker w does to the counts.
LEMMA TaskCounts ==
    ASSUME TypeOK, NEW w \in Workers, NEW t, task' = [task EXCEPT ![w] = t], NEW s
    PROVE  /\ Owed(s)' = Owed(s) - One(Credits(task[w], s)) + One(Credits(t, s))
           /\ Unbooked(s)' = Unbooked(s) - One(Books(task[w], s)) + One(Books(t, s))
<1> DEFINE C == {v \in Workers : Credits(task[v], s)}
           D == {v \in Workers : Credits(task'[v], s)}
           E == {v \in Workers : Books(task[v], s)}
           F == {v \in Workers : Books(task'[v], s)}
<1>1. task'[w] = t /\ \A v \in Workers : v # w => task'[v] = task[v]
  BY DEF TypeOK
<1>2. Cardinality(D) = Cardinality(C) - One(w \in C) + One(w \in D)
  <2>1. \A v \in Workers : v # w => (v \in C <=> v \in D)
    BY <1>1
  <2> HIDE DEF C, D
  <2> QED
    BY <2>1, CountChanges DEF C, D
<1>3. Cardinality(F) = Cardinality(E) - One(w \in E) + One(w \in F)
  <2>1. \A v \in Workers : v # w => (v \in E <=> v \in F)
    BY <1>1
  <2> HIDE DEF E, F
  <2> QED
    BY <2>1, CountChanges DEF E, F
<1>4. /\ One(w \in C) = One(Credits(task[w], s)) /\ One(w \in D) = One(Credits(t, s))
      /\ One(w \in E) = One(Books(task[w], s)) /\ One(w \in F) = One(Books(t, s))
  BY <1>1 DEF One
<1>5. /\ Owed(s) = Cardinality(C) /\ Owed(s)' = Cardinality(D)
      /\ Unbooked(s) = Cardinality(E) /\ Unbooked(s)' = Cardinality(F)
  BY DEF Owed, Unbooked, Credits, Books
<1> HIDE DEF C, D, E, F
<1> QED
  BY <1>2, <1>3, <1>4, <1>5

\* A task that neither credits nor books more than before adds to no count.
LEMMA CountsShrink ==
    ASSUME TypeOK, NEW w \in Workers, NEW t, task' = [task EXCEPT ![w] = t], NEW s,
           Books(t, s) => Books(task[w], s)
    PROVE  /\ Unbooked(s)' <= Unbooked(s)
           /\ (Credits(t, s) => Credits(task[w], s)) => Owed(s)' <= Owed(s)
<1>1. /\ Owed(s)' = Owed(s) - One(Credits(task[w], s)) + One(Credits(t, s))
      /\ Unbooked(s)' = Unbooked(s) - One(Books(task[w], s)) + One(Books(t, s))
  BY TaskCounts
<1>2. /\ Owed(s) \in Nat /\ Owed(s)' \in Nat
      /\ Unbooked(s) \in Nat /\ Unbooked(s)' \in Nat
  BY CountsTyped
<1> QED
  BY <1>1, <1>2 DEF One

-----------------------------------------------------------------------------
(* Steps                                                                   *)

LEMMA IdleTask == Idle \in Task /\ ~ Holds(Idle) /\ \A s : ~ Credits(Idle, s) /\ ~ Books(Idle, s)
  BY DunningAssumption DEF Idle, Task, Step, Row, NewRow, NoTime, Holds, Credits, Books

\* A step of one worker keeps the invariant when charges only grow, the credits
\* under way by no more than the charges, and rows and payments stay covered.
LEMMA StepKeeps ==
    ASSUME DInv, NEW w \in Workers, NEW t \in Task, task' = [task EXCEPT ![w] = t],
           t.step # "idle" => t.sub \in Subs,
           row' \in [Subs -> Row], connected' = connected, usable' = usable, batch' = batch,
           queued' \in [Subs -> 0..MaxQueued],
           charges' \in [Subs -> 0..MaxCharges],
           booked' \in [Subs -> 0..MaxCharges], faults' \in 0..MaxFaults,
           \A s \in Subs : /\ row'[s].paid + Owed(s)' <= charges'[s]
                           /\ booked'[s] + Unbooked(s)' <= charges'[s]
                           /\ Owed(s)' - Owed(s) <= charges'[s] - charges[s],
           Holds(t) => t.copy.paid + Owed(t.sub)' <= charges'[t.sub]
    PROVE  DInv'
<1>1. TypeOK'
  BY DEF DInv, TypeOK
<1>2. \A v \in Workers : task'[v].step # "idle" => task'[v].sub \in Subs
  BY DEF DInv, TypeOK
<1>3. Covered'
  BY DEF Covered
<1>4. ASSUME NEW v \in Workers
      PROVE  CopyCovered(task[v])'
  <2>1. CASE v = w
    BY <2>1 DEF DInv, TypeOK, CopyCovered, Holds
  <2>2. CASE v # w
    <3> SUFFICES ASSUME Holds(task[v])
                 PROVE  task[v].copy.paid + Owed(task[v].sub)' <= charges'[task[v].sub]
      BY <2>2 DEF DInv, TypeOK, CopyCovered, Holds
    <3>1. PICK s \in Subs : s = task[v].sub
      BY DEF DInv, Holds
    <3>2. task[v].copy.paid + Owed(s) <= charges[s]
      BY <3>1 DEF DInv, CopyCovered
    <3>3. /\ Owed(s) \in Nat /\ Owed(s)' \in Nat
          /\ charges[s] \in Nat /\ charges'[s] \in Nat /\ task[v].copy.paid \in Nat
      BY CountsTyped DEF DInv, TypeOK, Task, Row
    <3>4. task'[v] = task[v]
      BY <2>2 DEF DInv, TypeOK
    <3>5. Owed(s)' = Owed(task[v].sub)'
      BY <3>1, <3>4 DEF Owed
    <3> QED
      BY <3>1, <3>2, <3>3, <3>4, <3>5
  <2> QED
    BY <2>1, <2>2
<1> QED
  BY <1>1, <1>2, <1>3, <1>4 DEF DInv

\* The types and the bounds from which the leaves below calculate.
LEMMA Numbers ==
    ASSUME DInv, NEW s \in Subs
    PROVE  /\ row[s].paid \in 0..MaxCharges /\ booked[s] \in 0..MaxCharges
           /\ charges[s] \in 0..MaxCharges /\ MaxCharges \in Nat
           /\ Owed(s) \in Nat /\ Owed(s)' \in Nat
           /\ Unbooked(s) \in Nat /\ Unbooked(s)' \in Nat
           /\ row[s].paid + Owed(s) <= charges[s]
           /\ booked[s] + Unbooked(s) <= charges[s]
  BY DunningAssumption, CountsTyped DEF DInv, TypeOK, Row, Covered

\* A step that charges nothing and writes nothing.
LEMMA QuietKeeps ==
    ASSUME DInv, NEW w \in Workers, NEW t \in Task, task' = [task EXCEPT ![w] = t],
           t.step # "idle" => t.sub \in Subs,
           UNCHANGED <<connected, row, usable, batch, charges, booked>>,
           queued' \in [Subs -> 0..MaxQueued], faults' \in 0..MaxFaults,
           \A s \in Subs : /\ Credits(t, s) => Credits(task[w], s)
                           /\ Books(t, s) => Books(task[w], s),
           Holds(t) => t.copy.paid = row[t.sub].paid
    PROVE  DInv'
<1>1. \A s \in Subs : Owed(s)' <= Owed(s) /\ Unbooked(s)' <= Unbooked(s)
  BY CountsShrink DEF DInv
<1>2. \A s \in Subs : /\ row'[s].paid + Owed(s)' <= charges'[s]
                      /\ booked'[s] + Unbooked(s)' <= charges'[s]
                      /\ Owed(s)' - Owed(s) <= charges'[s] - charges[s]
  BY <1>1, Numbers
<1>3. Holds(t) => t.copy.paid + Owed(t.sub)' <= charges'[t.sub]
  BY <1>2 DEF Holds
<1>4. /\ row' \in [Subs -> Row] /\ charges' \in [Subs -> 0..MaxCharges]
      /\ booked' \in [Subs -> 0..MaxCharges]
  BY DEF DInv, TypeOK
<1> QED
  BY <1>2, <1>3, <1>4, StepKeeps

LEMMA SweepKeeps ==
    ASSUME DInv, Scan \/ \E s \in Subs : Enqueue(s) \/ ChangeMethod(s) \/ Reconfigure(s)
    PROVE  DInv'
<1>1. UNCHANGED <<row, task, charges, booked>>
  BY DEF Scan, Enqueue, ChangeMethod, Reconfigure
<1>2. TypeOK'
  <2>1. CASE Scan
    BY <2>1 DEF Scan, DInv, TypeOK
  <2>2. ASSUME NEW s \in Subs, Enqueue(s)
        PROVE  TypeOK'
    <3>1. queued' \in [Subs -> 0..MaxQueued] /\ faults' \in 0..MaxFaults
      BY <2>2, DunningAssumption DEF Enqueue, DInv, TypeOK
    <3> QED
      BY <2>2, <3>1 DEF Enqueue, DInv, TypeOK
  <2>3. ASSUME NEW s \in Subs, ChangeMethod(s)
        PROVE  TypeOK'
    BY <2>3 DEF ChangeMethod, DInv, TypeOK
  <2>4. ASSUME NEW s \in Subs, Reconfigure(s)
        PROVE  TypeOK'
    BY <2>4 DEF Reconfigure, DInv, TypeOK
  <2> QED
    BY <2>1, <2>2, <2>3, <2>4
<1>3. \A s : Owed(s)' = Owed(s) /\ Unbooked(s)' = Unbooked(s)
  BY <1>1 DEF Owed, Unbooked, Credits, Books
<1> QED
  BY <1>1, <1>2, <1>3 DEF DInv, Covered, CopyCovered, Holds

\* A job that is taken off the queue, or left there, without a task.
LEMMA NoTaskKeeps ==
    ASSUME DInv, UNCHANGED <<connected, row, usable, batch, task, charges, booked>>,
           queued' \in [Subs -> 0..MaxQueued], faults' \in 0..MaxFaults
    PROVE  DInv'
<1>1. \A s : Owed(s)' = Owed(s) /\ Unbooked(s)' = Unbooked(s)
  BY DEF Owed, Unbooked, Credits, Books
<1> QED
  BY <1>1 DEF DInv, TypeOK, Covered, CopyCovered, Holds

LEMMA TakeJobKeeps ==
    ASSUME DInv, NEW w \in Workers, NEW s \in Subs, TakeJob(w, s)
    PROVE  DInv'
<1> DEFINE t == [Idle EXCEPT !.sub = s, !.job = TRUE,
                             !.step = IF usable[s] THEN "charge" ELSE "fail"]
<1>1. queued' \in [Subs -> 0..MaxQueued]
  BY DunningAssumption DEF TakeJob, DInv, TypeOK
<1>2. CASE UNCHANGED task
  BY <1>1, <1>2, NoTaskKeeps DEF TakeJob, DInv, TypeOK
<1>3. CASE s \in connected
  <2>1. task' = [task EXCEPT ![w] = t]
    BY <1>3 DEF TakeJob
  <2>2. /\ t \in Task /\ t.sub = s /\ ~ Holds(t)
        /\ \A x : ~ Credits(t, x) /\ ~ Books(t, x)
    BY IdleTask DEF Idle, Task, Step, Holds, Credits, Books
  <2> HIDE DEF t
  <2> QED
    BY <1>1, <2>1, <2>2, QuietKeeps DEF TakeJob, DInv, TypeOK
<1> QED
  BY <1>2, <1>3 DEF TakeJob

LEMMA LoadFailsKeeps ==
    ASSUME DInv, NEW w \in Workers, NEW s \in Subs, LoadFails(w, s)
    PROVE  DInv'
<1>1. queued' \in [Subs -> 0..MaxQueued] /\ faults' \in 0..MaxFaults
  BY DunningAssumption DEF LoadFails, DInv, TypeOK
<1> QED
  BY <1>1, NoTaskKeeps DEF LoadFails

LEMMA ChargeKeeps ==
    ASSUME DInv, NEW w \in Workers, Charge(w)
    PROVE  DInv'
<1> DEFINE s == task[w].sub
<1>1. PICK approved \in BOOLEAN :
        /\ AttemptManualRebill(s, approved)
        /\ Go(w, IF approved THEN "renew" ELSE "fail")
  BY DEF Charge
<1> DEFINE t == [task[w] EXCEPT !.step = IF approved THEN "renew" ELSE "fail"]
<1>2. task' = [task EXCEPT ![w] = t]
  BY <1>1 DEF Go, DInv, TypeOK
<1>3. /\ t \in Task /\ t.sub = s /\ s \in Subs /\ ~ Holds(t)
      /\ \A x : ~ Credits(task[w], x) /\ ~ Books(task[w], x)
      /\ \A x : Credits(t, x) <=> approved /\ x = s
      /\ \A x : Books(t, x) <=> approved /\ x = s
  BY DEF DInv, TypeOK, Task, Step, Holds, Credits, Books, Charge
<1>4. CASE ~ approved /\ UNCHANGED <<charges, faults>>
  BY <1>2, <1>3, <1>4, QuietKeeps DEF Charge, DInv, TypeOK
<1>5. CASE /\ charges[s] < MaxCharges /\ charges' = [charges EXCEPT ![s] = @ + 1]
           /\ faults' \in 0..MaxFaults
  <2>1. /\ charges' \in [Subs -> 0..MaxCharges]
        /\ charges'[s] = charges[s] + 1
        /\ \A x \in Subs : x # s => charges'[x] = charges[x]
    BY <1>3, <1>5, Numbers DEF DInv, TypeOK
  <2>2. ASSUME NEW x \in Subs
        PROVE  /\ row'[x].paid + Owed(x)' <= charges'[x]
               /\ booked'[x] + Unbooked(x)' <= charges'[x]
               /\ Owed(x)' - Owed(x) <= charges'[x] - charges[x]
    <3>1. /\ Owed(x)' = Owed(x) + One(approved /\ x = s)
          /\ Unbooked(x)' = Unbooked(x) + One(approved /\ x = s)
      <4>1. /\ Owed(x)' = Owed(x) - One(Credits(task[w], x)) + One(Credits(t, x))
            /\ Unbooked(x)' = Unbooked(x) - One(Books(task[w], x)) + One(Books(t, x))
        BY <1>2, TaskCounts DEF DInv
      <4>2. /\ One(Credits(task[w], x)) = 0 /\ One(Credits(t, x)) = One(approved /\ x = s)
            /\ One(Books(task[w], x)) = 0 /\ One(Books(t, x)) = One(approved /\ x = s)
        BY <1>3 DEF One
      <4>3. One(approved /\ x = s) \in {0, 1}
        BY DEF One
      <4> QED
        BY <4>1, <4>2, <4>3, Numbers
    <3>2. row'[x].paid = row[x].paid /\ booked'[x] = booked[x]
      BY DEF Charge
    <3> QED
      BY <2>1, <3>1, <3>2, Numbers DEF One
  <2> HIDE DEF s, t
  <2> QED
    BY <1>2, <1>3, <1>5, <2>1, <2>2, StepKeeps DEF Charge, DInv, TypeOK
<1> QED
  <2>1. CASE UNCHANGED faults
    BY <1>1, <1>4, <1>5, <2>1 DEF AttemptManualRebill, DInv, TypeOK
  <2>2. CASE faults < MaxFaults /\ faults' = faults + 1
    <3>1. faults' \in 0..MaxFaults
      BY <2>2, DunningAssumption DEF DInv, TypeOK
    <3> QED
      BY <1>1, <1>4, <1>5, <2>2, <3>1 DEF AttemptManualRebill
  <2> QED
    BY <1>1, <2>1, <2>2 DEF AttemptManualRebill

LEMMA BeginKeeps ==
    ASSUME DInv, NEW w \in Workers, Begin(w)
    PROVE  DInv'
<1> DEFINE t == [task[w] EXCEPT !.step = Loading[task[w].step], !.copy = row[task[w].sub]]
<1>1. task' = [task EXCEPT ![w] = t]
  BY DEF Begin, DInv, TypeOK
<1>2. task[w].sub \in Subs /\ task[w] \in Task /\ task[w].step \in {"fail", "renew", "cancel"}
  BY DEF Begin, DInv, TypeOK
<1>3. t.step = CASE task[w].step = "fail" -> "failing"
                 [] task[w].step = "renew" -> "renewing"
                 [] task[w].step = "cancel" -> "cancelling"
  BY <1>2 DEF Loading, Task
<1>4. t \in Task /\ t.sub = task[w].sub /\ t.copy = row[t.sub]
  BY <1>2, <1>3 DEF DInv, TypeOK, Task, Step
<1>5. \A s : (Credits(t, s) => Credits(task[w], s)) /\ (Books(t, s) => Books(task[w], s))
  BY <1>2, <1>3, <1>4 DEF Credits, Books
<1> HIDE DEF t
<1> QED
  BY <1>1, <1>2, <1>4, <1>5, QuietKeeps DEF Begin, DInv, TypeOK

\* A row that is written back was covered together with all credits under way,
\* the writer's own included.
LEMMA SaveKeeps ==
    ASSUME DInv, NEW w \in Workers, NEW r \in Row, NEW t \in Task, Save(w, r),
           Holds(task[w]), task' = [task EXCEPT ![w] = t],
           t.step # "idle" => t.sub \in Subs, ~ Holds(t), \A s : ~ Credits(t, s),
           \A s \in Subs : Books(t, s) => Books(task[w], s),
           r.paid = task[w].copy.paid + One(task[w].step = "renewing")
    PROVE  DInv'
<1> DEFINE x == task[w].sub
<1>1. x \in Subs /\ task[w].copy.paid \in Nat /\ task[w].copy.paid + Owed(x) <= charges[x]
  BY DEF DInv, TypeOK, Task, Row, Holds, CopyCovered
<1>2. Credits(task[w], x) <=> task[w].step = "renewing"
  BY DEF Credits, Holds
<1>3. row' \in [Subs -> Row] /\ row'[x] = r /\ \A s \in Subs : s # x => row'[s] = row[s]
  BY <1>1 DEF Save, DInv, TypeOK
<1>4. ASSUME NEW s \in Subs
      PROVE  /\ row'[s].paid + Owed(s)' <= charges'[s]
             /\ booked'[s] + Unbooked(s)' <= charges'[s]
             /\ Owed(s)' - Owed(s) <= charges'[s] - charges[s]
  <2>1. Owed(s)' = Owed(s) - One(Credits(task[w], s)) /\ Unbooked(s)' <= Unbooked(s)
    <3>1. /\ Owed(s)' = Owed(s) - One(Credits(task[w], s)) + One(Credits(t, s))
          /\ Unbooked(s)' <= Unbooked(s)
      BY TaskCounts, CountsShrink DEF DInv
    <3>2. One(Credits(t, s)) = 0 /\ One(Credits(task[w], s)) \in {0, 1}
      BY DEF One
    <3> QED
      BY <3>1, <3>2, Numbers
  <2>2. charges' = charges /\ booked' = booked
    BY DEF Save
  <2>3. CASE s = x
    <3>1. row'[s].paid + Owed(s)' = task[w].copy.paid + Owed(s)
      BY <1>1, <1>2, <1>3, <2>1, <2>3, Numbers DEF One
    <3> QED
      BY <1>1, <2>1, <2>2, <2>3, <3>1, Numbers DEF One
  <2>4. CASE s # x
    BY <1>3, <2>1, <2>2, <2>4, Numbers DEF One
  <2> QED
    BY <2>3, <2>4
<1> HIDE DEF x
<1> QED
  BY <1>3, <1>4, StepKeeps DEF Save, DInv, TypeOK

LEMMA CommitKeeps ==
    ASSUME DInv, NEW w \in Workers, CommitFail(w) \/ CommitRenew(w) \/ CommitCancel(w)
    PROVE  DInv'
<1> DEFINE c == task[w].copy
<1>1. c \in Row /\ task[w] \in Task
  BY DEF DInv, TypeOK, Task
<1>2. CASE CommitFail(w)
  <2>1. Failed(c) \in Row /\ Failed(c).paid = c.paid
    <3>1. c.failures + 1 \in Nat /\ Interval \in {NoTime} \cup 0..Interval
      BY <1>1, DunningAssumption DEF Row
    <3>2. \/ Failed(c) = [c EXCEPT !.status = "cancelled", !.failures = c.failures + 1]
          \/ Failed(c) = [c EXCEPT !.status = "past_due", !.failures = c.failures + 1,
                                  !.wait = Interval]
      BY DEF Failed
    <3> QED
      BY <1>1, <3>1, <3>2 DEF Row
  <2>2. task[w].step = "failing" /\ Save(w, Failed(c)) /\ task' = [task EXCEPT ![w] = Idle]
    BY <1>2 DEF CommitFail, Done
  <2>3. Failed(c).paid = c.paid + One(task[w].step = "renewing")
    BY <1>1, <2>1, <2>2 DEF One, Row
  <2> QED
    BY <2>1, <2>2, <2>3, IdleTask, SaveKeeps DEF Holds, Idle
<1>3. CASE CommitCancel(w)
  <2>1. Cancelled(c) \in Row /\ Cancelled(c).paid = c.paid
    BY <1>1 DEF Cancelled, Row
  <2>2. task[w].step = "cancelling" /\ Save(w, Cancelled(c))
        /\ task' = [task EXCEPT ![w] = Idle]
    BY <1>3 DEF CommitCancel, Done
  <2>3. Cancelled(c).paid = c.paid + One(task[w].step = "renewing")
    BY <1>1, <2>1, <2>2 DEF One, Row
  <2> QED
    BY <2>1, <2>2, <2>3, IdleTask, SaveKeeps DEF Holds, Idle
<1>4. CASE CommitRenew(w)
  <2> DEFINE t == [task[w] EXCEPT !.step = "record"]
             s == task[w].sub
  <2>1. s \in Subs /\ Credits(task[w], s) /\ c.paid + Owed(s) <= charges[s]
    BY <1>4 DEF CommitRenew, DInv, Holds, CopyCovered, Credits
  <2>2. Owed(s) >= 1
    <3> DEFINE C == {v \in Workers : Credits(task[v], s)}
    <3>1. C # {} /\ IsFiniteSet(C) /\ Cardinality(C) \in Nat
      BY <2>1, SubsetCounted
    <3> HIDE DEF C
    <3>2. Cardinality(C) # 0
      BY <3>1, FS_EmptySet
    <3> QED
      BY <3>1, <3>2 DEF Owed, C
  <2>3. Renewed(c) \in Row /\ Renewed(c).paid = c.paid + 1
    <3>1. c.paid + 1 \in 0..MaxCharges
      BY <1>1, <2>1, <2>2, Numbers DEF Row
    <3> QED
      BY <1>1, <3>1 DEF Renewed, Row
  <2>4. task' = [task EXCEPT ![w] = t] /\ t \in Task /\ t.sub = s /\ t.step = "record"
    BY <1>1, <1>4 DEF CommitRenew, Go, DInv, TypeOK, Task, Step
  <2>5. ~ Holds(t) /\ (\A x : ~ Credits(t, x)) /\ \A x : Books(t, x) => Books(task[w], x)
    BY <1>4, <2>4 DEF CommitRenew, Holds, Credits, Books
  <2> HIDE DEF t
  <2> QED
    BY <1>4, <2>1, <2>3, <2>4, <2>5, SaveKeeps DEF CommitRenew, Holds, One
<1> QED
  BY <1>2, <1>3, <1>4

LEMMA AbandonKeeps ==
    ASSUME DInv, NEW w \in Workers, CommitLost(w) \/ Crash(w)
    PROVE  DInv'
<1>1. UNCHANGED <<connected, row, usable, batch, charges, booked>>
  BY DEF CommitLost, Crash
<1>2. queued' \in [Subs -> 0..MaxQueued] /\ faults' \in 0..MaxFaults
  BY DunningAssumption DEF CommitLost, Crash, DInv, TypeOK
<1>3. CASE task' = [task EXCEPT ![w] = Idle]
  BY <1>1, <1>2, <1>3, IdleTask, QuietKeeps DEF Idle
<1>4. CASE task[w].step = "renewing" /\ Go(w, "record")
  <2> DEFINE t == [task[w] EXCEPT !.step = "record"]
  <2>1. task' = [task EXCEPT ![w] = t]
    BY <1>4 DEF Go, DInv, TypeOK
  <2>2. /\ t \in Task /\ t.sub \in Subs /\ ~ Holds(t)
        /\ \A x : ~ Credits(t, x) /\ (Books(t, x) => Books(task[w], x))
    BY <1>4 DEF DInv, TypeOK, Task, Step, Holds, Credits, Books
  <2> HIDE DEF t
  <2> QED
    BY <1>1, <1>2, <2>1, <2>2, QuietKeeps
<1> QED
  BY <1>3, <1>4 DEF CommitLost, Crash, Done

LEMMA RecordKeeps ==
    ASSUME DInv, NEW w \in Workers, Record(w)
    PROVE  DInv'
<1> DEFINE x == task[w].sub
<1>1. x \in Subs /\ task' = [task EXCEPT ![w] = Idle] /\ Books(task[w], x)
      /\ UNCHANGED <<connected, row, usable, batch, queued, charges>>
  BY DEF Record, Done, DInv, Books
<1>2. CASE UNCHANGED booked
  <2>1. faults' \in 0..MaxFaults
    BY <1>2, DunningAssumption DEF Record, DInv, TypeOK
  <2> QED
    BY <1>1, <1>2, <2>1, IdleTask, QuietKeeps DEF Idle, DInv, TypeOK
<1>3. CASE booked' = [booked EXCEPT ![x] = @ + 1] /\ UNCHANGED faults
  <2>1. ASSUME NEW s \in Subs
        PROVE  /\ row'[s].paid + Owed(s)' <= charges'[s]
               /\ booked'[s] + Unbooked(s)' <= charges'[s]
               /\ Owed(s)' - Owed(s) <= charges'[s] - charges[s]
    <3>1. /\ Owed(s)' <= Owed(s)
          /\ Unbooked(s)' = Unbooked(s) - One(Books(task[w], s))
      <4>1. Unbooked(s)' = Unbooked(s) - One(Books(task[w], s)) + One(Books(Idle, s))
        BY <1>1, TaskCounts DEF DInv
      <4>2. One(Books(Idle, s)) = 0 /\ One(Books(task[w], s)) \in {0, 1}
        BY IdleTask DEF One
      <4>3. Owed(s)' <= Owed(s)
        BY <1>1, IdleTask, CountsShrink DEF DInv
      <4> QED
        BY <4>1, <4>2, <4>3, Numbers
    <3>2. booked'[s] = booked[s] + One(s = x)
      BY <1>1, <1>3, Numbers DEF DInv, TypeOK, One
    <3> QED
      BY <1>1, <3>1, <3>2, Numbers DEF One
  <2>2. booked' \in [Subs -> 0..MaxCharges]
    <3>1. booked'[x] <= charges[x] /\ booked'[x] = booked[x] + 1
      BY <1>1, <1>3, <2>1, Numbers DEF DInv, TypeOK
    <3>2. booked[x] + 1 \in 0..MaxCharges
      BY <1>1, <3>1, Numbers
    <3> HIDE DEF x
    <3> QED
      BY <1>1, <1>3, <3>2 DEF DInv, TypeOK
  <2> HIDE DEF x
  <2> QED
    BY <1>1, <1>3, <2>1, <2>2, IdleTask, StepKeeps DEF Idle, DInv, TypeOK
<1> QED
  BY <1>2, <1>3 DEF Record

LEMMA ReceiveKeeps ==
    ASSUME DInv, NEW w \in Workers, NEW s \in Subs, SaleFailure(w, s) \/ Deletion(w, s)
    PROVE  DInv'
<1>1. PICK step \in {"fail", "cancel"} : Receive(w, s, step)
  BY DEF SaleFailure, Deletion
<1> DEFINE t == [Idle EXCEPT !.step = step, !.sub = s]
<1>2. /\ t \in Task /\ t.sub = s /\ ~ Holds(t)
      /\ \A x : ~ Credits(t, x) /\ ~ Books(t, x)
  BY IdleTask DEF Idle, Task, Step, Holds, Credits, Books
<1>3. task' = [task EXCEPT ![w] = t]
  BY <1>1 DEF Receive
<1> HIDE DEF t
<1> QED
  BY <1>1, <1>2, <1>3, QuietKeeps DEF Receive, DInv, TypeOK

LEMMA TickKeeps ==
    ASSUME DInv, Tick
    PROVE  DInv'
<1>1. \A s \in Subs : row'[s] \in Row /\ row'[s].paid = row[s].paid
  <2> TAKE s \in Subs
  <2> DEFINE n == IF row[s].wait > 0 THEN row[s].wait - 1 ELSE row[s].wait
  <2>1. row[s] \in Row /\ n \in {NoTime} \cup 0..Interval
    BY DunningAssumption DEF DInv, TypeOK, Row, NoTime
  <2>2. row'[s] = [row[s] EXCEPT !.wait = n]
    BY DEF Tick
  <2> HIDE DEF n
  <2> QED
    BY <2>1, <2>2 DEF Row
<1>2. UNCHANGED <<connected, usable, batch, queued, task, charges, booked, faults>>
  BY DEF Tick
<1>3. row' \in [Subs -> Row]
  BY <1>1 DEF Tick
<1>4. \A s : Owed(s)' = Owed(s) /\ Unbooked(s)' = Unbooked(s)
  BY <1>2 DEF Owed, Unbooked, Credits, Books
<1> QED
  BY <1>1, <1>2, <1>3, <1>4 DEF DInv, TypeOK, Covered, CopyCovered, Holds

-----------------------------------------------------------------------------

LEMMA InitDInv == Init => DInv
<1> SUFFICES ASSUME Init PROVE DInv
  OBVIOUS
<1>1. TypeOK
  BY DunningAssumption, IdleTask DEF Init, TypeOK, Row, NewRow, NoTime
<1>2. \A s : Owed(s) = 0 /\ Unbooked(s) = 0
  <2>1. \A s : {w \in Workers : Credits(task[w], s)} = {}
    BY IdleTask DEF Init
  <2>2. \A s : {w \in Workers : Books(task[w], s)} = {}
    BY IdleTask DEF Init
  <2> QED
    BY <2>1, <2>2, FS_EmptySet DEF Owed, Unbooked
<1>3. Covered
  BY <1>2 DEF Init, Covered, NewRow
<1>4. \A w \in Workers : CopyCovered(task[w]) /\ task[w].step = "idle"
  BY IdleTask DEF Init, CopyCovered, Idle
<1> QED
  BY <1>1, <1>3, <1>4 DEF DInv

LEMMA NextDInv == DInv /\ [Next]_vars => DInv'
<1> SUFFICES ASSUME DInv, [Next]_vars PROVE DInv'
  OBVIOUS
<1>1. CASE UNCHANGED vars
  <2>1. \A s : Owed(s)' = Owed(s) /\ Unbooked(s)' = Unbooked(s)
    BY <1>1 DEF vars, Owed, Unbooked, Credits, Books
  <2> QED
    BY <1>1, <2>1 DEF vars, DInv, TypeOK, Covered, CopyCovered, Holds
<1>2. ASSUME NEW w \in Workers, Work(w)
      PROVE  DInv'
  BY <1>2, ChargeKeeps, BeginKeeps, CommitKeeps, RecordKeeps DEF Work
<1> QED
  BY <1>1, <1>2, SweepKeeps, TakeJobKeeps, LoadFailsKeeps, AbandonKeeps, ReceiveKeeps, TickKeeps
     DEF Next, Fetch

\* Rows, copies, jobs and counters have their types: the bound on charges also
\* bounds what is credited and what is recorded.
THEOREM DunningTypes == Spec => []TypeOK
<1>1. DInv => TypeOK
  BY DEF DInv
<1> QED
  BY <1>1, InitDInv, NextDInv, PTL DEF Spec

\* Nobody is credited a period the gateway has not charged for, however many
\* attempts of one subscription overlap, fail or are repeated.
THEOREM NothingForFree == Spec => []CreditsAreCharged
<1>1. DInv => CreditsAreCharged
  BY Numbers DEF CreditsAreCharged
<1> QED
  BY <1>1, InitDInv, NextDInv, PTL DEF Spec

\* No more payments are recorded for a subscription than the gateway has charged
\* (the payment row is written after the approved charge).
BookedIsCharged == \A s \in Subs : booked[s] <= charges[s]

\* Nor is a payment recorded that the gateway has not made.
THEOREM NothingBookedForFree == Spec => []BookedIsCharged
<1>1. DInv => BookedIsCharged
  BY Numbers DEF BookedIsCharged
<1> QED
  BY <1>1, InitDInv, NextDInv, PTL DEF Spec

=============================================================================
