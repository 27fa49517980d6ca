-------------------------- MODULE WebhookEventsProofs --------------------------
(***************************************************************************)
(* Proofs about WebhookEvents: its inductive invariant, the safety         *)
(* properties that follow from it, and the refinement of WebhookDelivery.  *)
(***************************************************************************)
EXTENDS WebhookEvents, FiniteSetTheorems, TLAPS

\* A goroutine that is not idle holds an event.
HoldsEvent == \A w \in Workers : phase[w] # "idle" => current[w] \in Events

\* A worker past its claim owns a row in processing, its copy of the attempt
\* counter is current, and its phase says whether the handler has completed.
Ownership ==
    \A w \in Workers :
        /\ Working(w) => /\ status[current[w]] = "processing"
                         /\ held[w] = attempts[current[w]]
        /\ phase[w] \in {"dispatch", "failed"} => handled[current[w]] = 0
        /\ phase[w] = "succeeded" => handled[current[w]] = 1

\* What each status says of the history and of the attempts spent.
RowHistory ==
    \A e \in Events :
        /\ status[e] = "processed" => handled[e] = 1
        /\ status[e] = "processing" => handled[e] \in {0, 1} /\ attempts[e] \in 1..MaxAttempts
        /\ status[e] \in {"absent", "pending"} => attempts[e] = 0
        /\ status[e] \in {"absent", "pending", "failed", "error"} => handled[e] = 0
        /\ status[e] = "failed" => attempts[e] < MaxAttempts
        /\ status[e] = "error" => attempts[e] = MaxAttempts

\* The request that stored a row is the only one that enqueues its job, a running
\* job has one worker, and a queued job has attempts left.
Enqueuing ==
    /\ \A w \in Workers :
          /\ phase[w] = "idle" => origin[w] = "none"
          /\ origin[w] = "job" => job[current[w]] = "running"
    /\ \A v, w \in Workers :
          origin[v] = "job" /\ origin[w] = "job" /\ current[v] = current[w] => v = w
    /\ \A v, w \in Workers :
          phase[v] = "enqueue" /\ phase[w] = "enqueue" /\ current[v] = current[w] => v = w
    /\ \A w \in Workers :
          phase[w] = "enqueue" => status[current[w]] # "absent" /\ job[current[w]] = "none"
    /\ \A e \in Events :
          /\ status[e] = "absent" => job[e] = "none"
          /\ job[e] = "none" => jobAttempt[e] = 0
          /\ job[e] = "available" => jobAttempt[e] < JobMaxAttempts

IInv ==
    /\ TypeOK
    /\ HoldsEvent
    /\ OneWorkerPerEvent
    /\ Ownership
    /\ RowHistory
    /\ Enqueuing

-----------------------------------------------------------------------------
(* What leaving Process does to the workers and to the jobs                *)

\* Worker w stops, or goes on with the next event of its sweep.
Leaves(w) ==
    /\ \A v \in Workers \ {w} :
          /\ phase'[v] = phase[v]
          /\ origin'[v] = origin[v]
          /\ current'[v] = current[v]
          /\ held'[v] = held[v]
    /\ \/ phase'[w] = "idle" /\ origin'[w] = "none"
       \/ phase'[w] = "begin" /\ origin'[w] = "sweep" /\ current'[w] \in Events

\* Only the job that w ran changes, and it can be queued only with attempts left.
JobLeft(w) ==
    /\ jobAttempt' = jobAttempt
    /\ \A e \in Events :
          \/ job'[e] = job[e]
          \/ /\ origin[w] = "job" /\ e = current[w]
             /\ job'[e] \in {"available", "completed", "discarded"}
             /\ job'[e] = "available" => jobAttempt[e] < JobMaxAttempts

WorkerTypes ==
    /\ phase \in [Workers -> Phase]
    /\ origin \in [Workers -> Origin]
    /\ current \in [Workers -> Events \cup {NoEvent}]
    /\ held \in [Workers -> 0..MaxAttempts]
    /\ batch \in [Workers -> SUBSET Events]

LEMMA GoIdleLeaves ==
    ASSUME TypeOK, NEW w \in Workers, GoIdle(w)
    PROVE  Leaves(w) /\ WorkerTypes'
BY WebhookAssumption DEF TypeOK, GoIdle, Leaves, WorkerTypes, Phase, Origin

LEMMA StartProcessTypes ==
    ASSUME TypeOK, NEW w \in Workers, NEW o \in Origin, NEW e \in Events,
           NEW rest \in SUBSET Events, StartProcess(w, o, e, rest)
    PROVE  WorkerTypes'
BY WebhookAssumption DEF TypeOK, StartProcess, WorkerTypes, Phase

LEMMA SweepOnLeaves ==
    ASSUME TypeOK, NEW w \in Workers, NEW S \in SUBSET Events, SweepOn(w, S)
    PROVE  Leaves(w) /\ WorkerTypes'
<1>1. CASE GoIdle(w)
  BY <1>1, GoIdleLeaves
<1>2. ASSUME NEW e \in Oldest(S), StartProcess(w, "sweep", e, S \ {e})
      PROVE  Leaves(w) /\ WorkerTypes'
  <2>1. e \in Events
    BY DEF Oldest
  <2>2. WorkerTypes'
    BY <1>2, <2>1, StartProcessTypes DEF Origin
  <2>3. Leaves(w)
    BY <1>2, <2>1 DEF StartProcess, Leaves, TypeOK
  <2>. QED  BY <2>2, <2>3
<1>. QED  BY <1>1, <1>2 DEF SweepOn

LEMMA ReturnLeaves ==
    ASSUME TypeOK, NEW w \in Workers, NEW ok \in BOOLEAN, Return(w, ok)
    PROVE  /\ Leaves(w) /\ WorkerTypes'
           /\ JobLeft(w) /\ job' \in [Events -> JobState]
<1>1. batch[w] \in SUBSET Events
  BY DEF TypeOK
<1>2. Leaves(w) /\ WorkerTypes'
  BY <1>1, GoIdleLeaves, SweepOnLeaves DEF Return
<1>3. JobLeft(w) /\ job' \in [Events -> JobState]
  BY DEF Return, JobLeft, RetryJob, TypeOK, JobState, jobVars
<1>. QED  BY <1>2, <1>3

LEMMA AbandonLeaves ==
    ASSUME TypeOK, NEW w \in Workers, Abandon(w)
    PROVE  /\ Leaves(w) /\ WorkerTypes'
           /\ JobLeft(w) /\ job' \in [Events -> JobState]
           /\ faults' \in 0..MaxFaults
<1>1. Leaves(w) /\ WorkerTypes'
  BY GoIdleLeaves DEF Abandon
<1>2. JobLeft(w) /\ job' \in [Events -> JobState]
  BY DEF Abandon, JobLeft, RetryJob, TypeOK, JobState, jobVars
<1>3. faults' \in 0..MaxFaults
  BY WebhookAssumption DEF Abandon, TypeOK
<1>. QED  BY <1>1, <1>2, <1>3

-----------------------------------------------------------------------------
(* The invariant holds initially and every action preserves it             *)

LEMMA InitIInv == Init => IInv
BY WebhookAssumption
   DEF Init, IInv, TypeOK, HoldsEvent, OneWorkerPerEvent, Ownership, RowHistory,
       Enqueuing, Working, Status, Phase, Due, Origin, JobState

\* Whatever is left of the invariant when a worker stops or sweeps on and no
\* row appears or disappears.
LEMMA LeavingKeeps ==
    ASSUME IInv, NEW w \in Workers, Leaves(w), JobLeft(w), phase[w] # "idle",
           job' \in [Events -> JobState],
           \A e \in Events : status'[e] = "absent" <=> status[e] = "absent"
    PROVE  HoldsEvent' /\ OneWorkerPerEvent' /\ Enqueuing'
<1>1. HoldsEvent'
  BY DEF IInv, HoldsEvent, Leaves
<1>2. OneWorkerPerEvent'
  BY DEF IInv, OneWorkerPerEvent, Leaves, Working
<1>3. \A v \in Workers : phase'[v] = "enqueue" => v # w /\ phase[v] = "enqueue"
  BY DEF Leaves
<1>4. \A v \in Workers : origin'[v] = "job" => v # w /\ origin[v] = "job"
  BY DEF Leaves
<1>5. \A v \in Workers : origin[v] = "job" => phase[v] # "idle" /\ current[v] \in Events
  BY DEF IInv, Enqueuing, HoldsEvent
<1>6. \A v \in Workers :
        phase'[v] = "enqueue" => status'[current'[v]] # "absent" /\ job'[current'[v]] = "none"
  BY <1>3, <1>5 DEF IInv, HoldsEvent, Enqueuing, Leaves, JobLeft
<1>7. \A v \in Workers : origin'[v] = "job" => job'[current'[v]] = "running"
  BY <1>4, <1>5 DEF IInv, Enqueuing, Leaves, JobLeft
<1>8. \A e \in Events :
        /\ status'[e] = "absent" => job'[e] = "none"
        /\ job'[e] = "none" => jobAttempt'[e] = 0
        /\ job'[e] = "available" => jobAttempt'[e] < JobMaxAttempts
  BY <1>5 DEF IInv, Enqueuing, JobLeft
<1>9. Enqueuing'
  BY <1>3, <1>4, <1>6, <1>7, <1>8 DEF IInv, Enqueuing, Leaves
<1>. QED  BY <1>1, <1>2, <1>9

\* A worker that leaves without touching a row.
LEMMA LeavingRowsAlone ==
    ASSUME IInv, NEW w \in Workers, Leaves(w), JobLeft(w), WorkerTypes', phase[w] # "idle",
           job' \in [Events -> JobState], UNCHANGED <<rowVars, handled>>,
           faults' \in 0..MaxFaults
    PROVE  IInv'
<1>1. HoldsEvent' /\ OneWorkerPerEvent' /\ Enqueuing'
  BY LeavingKeeps DEF rowVars
<1>2. TypeOK'
  BY DEF IInv, TypeOK, WorkerTypes, JobLeft, rowVars
<1>3. Ownership'
  BY DEF IInv, Ownership, Working, Leaves, rowVars
<1>4. RowHistory'
  BY DEF IInv, RowHistory, rowVars
<1>. QED  BY <1>1, <1>2, <1>3, <1>4 DEF IInv

\* A worker that settles its row in a final or a retryable status.
LEMMA LeavingRowSettled ==
    ASSUME IInv, NEW w \in Workers, Leaves(w), JobLeft(w), WorkerTypes', Working(w),
           job' \in [Events -> JobState], UNCHANGED <<attempts, receivedAt, handled, faults>>,
           NEW s \in {"processed", "failed", "error"}, NEW d \in Due,
           status' = [status EXCEPT ![current[w]] = s],
           nextAttempt' = [nextAttempt EXCEPT ![current[w]] = d],
           s = "processed" => handled[current[w]] = 1,
           s \in {"failed", "error"} => handled[current[w]] = 0,
           s = "failed" => attempts[current[w]] < MaxAttempts,
           s = "error" => attempts[current[w]] = MaxAttempts
    PROVE  IInv'
<1>1. phase[w] # "idle" /\ current[w] \in Events /\ status[current[w]] = "processing"
  BY DEF IInv, HoldsEvent, Ownership, Working
<1>2. HoldsEvent' /\ OneWorkerPerEvent' /\ Enqueuing'
  BY <1>1, LeavingKeeps DEF IInv, TypeOK
<1>3. TypeOK'
  BY DEF IInv, TypeOK, WorkerTypes, JobLeft, Status
<1>4. Ownership'
  <2>. SUFFICES ASSUME NEW v \in Workers
                PROVE  /\ Working(v)' => /\ status'[current'[v]] = "processing"
                                         /\ held'[v] = attempts'[current'[v]]
                       /\ phase'[v] \in {"dispatch", "failed"} => handled'[current'[v]] = 0
                       /\ phase'[v] = "succeeded" => handled'[current'[v]] = 1
    BY DEF Ownership, Working
  <2>1. CASE v = w
    BY <2>1 DEF Leaves, Working
  <2>2. CASE v # w
    <3>1. Working(v)' => Working(v) /\ current[v] # current[w]
      BY <2>2 DEF Leaves, Working, IInv, OneWorkerPerEvent
    <3>. QED  BY <2>2, <3>1 DEF Leaves, Working, IInv, Ownership, TypeOK
  <2>. QED  BY <2>1, <2>2
<1>5. RowHistory'
  BY <1>1 DEF IInv, RowHistory, TypeOK
<1>. QED  BY <1>2, <1>3, <1>4, <1>5 DEF IInv

-----------------------------------------------------------------------------
(* Actions in which the worker stays busy                                  *)

LEMMA ReceiveIInv ==
    ASSUME IInv, NEW w \in Workers, NEW e \in Events, Receive(w, e)
    PROVE  IInv'
<1>1. Cardinality(Received) + 1 \in Nat
  BY WebhookAssumption, FS_Subset, FS_CardinalityType DEF Received
<1>2. TypeOK'
  BY <1>1 DEF IInv, TypeOK, Receive, Status, Due, Phase, Origin, jobVars
<1>3. HoldsEvent' /\ OneWorkerPerEvent'
  BY DEF IInv, TypeOK, Receive, HoldsEvent, OneWorkerPerEvent, Working
<1>4. Ownership'
  BY DEF IInv, TypeOK, Receive, Ownership, HoldsEvent, Working
<1>5. RowHistory'
  BY DEF IInv, TypeOK, Receive, RowHistory
<1>6. Enqueuing'
  BY DEF IInv, TypeOK, HoldsEvent, Receive, Enqueuing, jobVars
<1>. QED  BY <1>2, <1>3, <1>4, <1>5, <1>6 DEF IInv

LEMMA EnqueueIInv ==
    ASSUME IInv, NEW w \in Workers, Enqueue(w)
    PROVE  IInv'
<1>1. Leaves(w) /\ WorkerTypes'
  BY GoIdleLeaves DEF IInv, Enqueue
<1>2. current[w] \in Events /\ jobAttempt[current[w]] = 0 /\ phase'[w] = "idle" /\ origin'[w] = "none"
  BY DEF IInv, TypeOK, HoldsEvent, Enqueuing, Enqueue, GoIdle
<1>3. TypeOK'
  BY <1>1 DEF IInv, TypeOK, WorkerTypes, Enqueue, JobState, rowVars
<1>4. HoldsEvent' /\ OneWorkerPerEvent'
  BY <1>1 DEF IInv, HoldsEvent, OneWorkerPerEvent, Leaves, Working
<1>5. Ownership' /\ RowHistory'
  BY <1>1 DEF IInv, Ownership, RowHistory, Leaves, Working, Enqueue, rowVars
<1>6. Enqueuing'
  <2>1. \A v \in Workers : phase'[v] = "enqueue" => job'[current'[v]] = "none"
    BY <1>1, <1>2 DEF IInv, TypeOK, Enqueuing, HoldsEvent, Enqueue, Leaves
  <2>2. \A v \in Workers : origin'[v] = "job" => job'[current'[v]] = "running"
    BY <1>1, <1>2 DEF IInv, TypeOK, Enqueuing, HoldsEvent, Enqueue, Leaves
  <2>. QED
    BY <1>1, <1>2, <2>1, <2>2, WebhookAssumption
       DEF IInv, TypeOK, Enqueuing, Enqueue, Leaves, rowVars
<1>. QED  BY <1>3, <1>4, <1>5, <1>6 DEF IInv

LEMMA ProcessInlineIInv ==
    ASSUME IInv, NEW w \in Workers, ProcessInline(w)
    PROVE  IInv'
BY DEF IInv, TypeOK, HoldsEvent, OneWorkerPerEvent, Ownership, RowHistory, Enqueuing,
       ProcessInline, Working, Phase, rowVars, jobVars

LEMMA FetchJobIInv ==
    ASSUME IInv, NEW w \in Workers, NEW e \in Events, FetchJob(w, e)
    PROVE  IInv'
<1>1. WorkerTypes'
  BY StartProcessTypes DEF IInv, FetchJob, Origin
<1>2. jobAttempt[e] < JobMaxAttempts /\ job[e] = "available"
  BY DEF IInv, Enqueuing, FetchJob
<1>3. TypeOK'
  BY <1>1, <1>2, WebhookAssumption DEF IInv, TypeOK, WorkerTypes, FetchJob, JobState, rowVars
<1>4. HoldsEvent' /\ OneWorkerPerEvent'
  BY DEF IInv, TypeOK, HoldsEvent, OneWorkerPerEvent, FetchJob, StartProcess, Working
<1>5. Ownership' /\ RowHistory'
  BY DEF IInv, TypeOK, Ownership, RowHistory, Working, FetchJob, StartProcess, rowVars
<1>6. Enqueuing'
  <2>1. \A v \in Workers : origin[v] = "job" => phase[v] # "idle" /\ current[v] \in Events
    BY DEF IInv, Enqueuing, HoldsEvent
  <2>2. \A v \in Workers \ {w} :
          /\ phase'[v] = phase[v] /\ origin'[v] = origin[v] /\ current'[v] = current[v]
          /\ origin[v] = "job" => current[v] # e
          /\ phase[v] = "enqueue" => current[v] # e
    BY <1>2, <2>1 DEF IInv, TypeOK, Enqueuing, FetchJob, StartProcess
  <2>3. phase'[w] = "begin" /\ origin'[w] = "job" /\ current'[w] = e /\ job'[e] = "running"
    BY DEF IInv, TypeOK, FetchJob, StartProcess
  <2>4. \A f \in Events \ {e} : job'[f] = job[f] /\ jobAttempt'[f] = jobAttempt[f]
    BY DEF IInv, TypeOK, FetchJob
  <2>5. UNCHANGED status
    BY DEF FetchJob, rowVars
  <2>. QED
    BY <1>2, <2>1, <2>2, <2>3, <2>4, <2>5 DEF IInv, Enqueuing, HoldsEvent
<1>. QED  BY <1>3, <1>4, <1>5, <1>6 DEF IInv

LEMMA SweepIInv ==
    ASSUME IInv, NEW w \in Workers, Sweep(w)
    PROVE  IInv'
<1>1. Leaves(w) /\ WorkerTypes'
  BY SweepOnLeaves DEF IInv, Sweep, ListRetryable, Ready
<1>2. TypeOK'
  BY <1>1 DEF IInv, TypeOK, WorkerTypes, Sweep, rowVars, jobVars
<1>3. HoldsEvent' /\ OneWorkerPerEvent'
  BY <1>1 DEF IInv, HoldsEvent, OneWorkerPerEvent, Leaves, Working
<1>4. Ownership' /\ RowHistory'
  BY <1>1 DEF IInv, Ownership, RowHistory, Leaves, Working, Sweep, rowVars
<1>5. Enqueuing'
  BY <1>1 DEF IInv, Enqueuing, Leaves, Sweep, rowVars, jobVars
<1>. QED  BY <1>2, <1>3, <1>4, <1>5 DEF IInv

LEMMA BackoffElapsesIInv ==
    ASSUME IInv, NEW e \in Events, BackoffElapses(e)
    PROVE  IInv'
BY DEF IInv, TypeOK, HoldsEvent, OneWorkerPerEvent, Ownership, RowHistory, Enqueuing,
       BackoffElapses, Working, Due, jobVars, workerVars

\* The claim: only one worker can find the row claimable.
LEMMA BeginProcessingIInv ==
    ASSUME IInv, NEW w \in Workers, BeginProcessing(w)
    PROVE  IInv'
<1>. DEFINE e == current[w]
<1>1. /\ e \in Events /\ status[e] \in {"pending", "failed"}
      /\ attempts[e] \in Nat /\ attempts[e] < MaxAttempts /\ handled[e] = 0
  BY WebhookAssumption
     DEF IInv, TypeOK, HoldsEvent, RowHistory, BeginProcessing, Claimable
<1>2. TypeOK'
  BY <1>1, WebhookAssumption
     DEF IInv, TypeOK, BeginProcessing, Status, Due, Phase, jobVars
<1>3. HoldsEvent'
  BY DEF IInv, TypeOK, HoldsEvent, BeginProcessing
<1>4. \A v \in Workers : Working(v) => current[v] # e
  BY <1>1 DEF IInv, Ownership
<1>5. OneWorkerPerEvent'
  BY <1>4 DEF IInv, TypeOK, OneWorkerPerEvent, Working, BeginProcessing
<1>6. Ownership'
  <2>1. \A v \in Workers \ {w} :
          /\ phase'[v] = phase[v] /\ held'[v] = held[v] /\ current'[v] = current[v]
          /\ Working(v) => /\ status'[current[v]] = status[current[v]]
                           /\ attempts'[current[v]] = attempts[current[v]]
    BY <1>4 DEF IInv, TypeOK, BeginProcessing
  <2>2. /\ phase'[w] = "dispatch" /\ current'[w] = e /\ status'[e] = "processing"
        /\ held'[w] = attempts'[e] /\ handled' = handled
    BY <1>1, <1>2 DEF IInv, TypeOK, BeginProcessing
  <2>. QED  BY <1>1, <2>1, <2>2 DEF IInv, Ownership, Working
<1>7. RowHistory'
  BY <1>1, WebhookAssumption DEF IInv, TypeOK, RowHistory, BeginProcessing
<1>8. Enqueuing'
  BY <1>1 DEF IInv, TypeOK, Enqueuing, BeginProcessing, jobVars
<1>. QED  BY <1>2, <1>3, <1>5, <1>6, <1>7, <1>8 DEF IInv

LEMMA DispatchIInv ==
    ASSUME IInv, NEW w \in Workers, Dispatch(w)
    PROVE  IInv'
<1>1. /\ current[w] \in Events /\ status[current[w]] = "processing"
      /\ handled[current[w]] = 0 /\ Working(w)
  BY DEF IInv, HoldsEvent, Ownership, Working, Dispatch
<1>2. TypeOK' /\ HoldsEvent' /\ OneWorkerPerEvent' /\ Enqueuing'
  BY DEF IInv, TypeOK, HoldsEvent, OneWorkerPerEvent, Enqueuing, Working, Dispatch,
         Phase, rowVars, jobVars
<1>3. \A v \in Workers \ {w} : Working(v) => current[v] # current[w]
  BY <1>1 DEF IInv, OneWorkerPerEvent
<1>4. Ownership'
  BY <1>1, <1>3 DEF IInv, TypeOK, HoldsEvent, Ownership, Working, Dispatch, rowVars
<1>5. RowHistory'
  BY <1>1 DEF IInv, TypeOK, RowHistory, Dispatch, rowVars
<1>. QED  BY <1>2, <1>4, <1>5 DEF IInv

-----------------------------------------------------------------------------
(* Actions in which the worker leaves Process                              *)

LEMMA BeginRefusedIInv ==
    ASSUME IInv, NEW w \in Workers, BeginRefused(w)
    PROVE  IInv'
<1>1. phase[w] # "idle" /\ UNCHANGED <<rowVars, handled>> /\ faults' \in 0..MaxFaults
  BY DEF IInv, TypeOK, BeginRefused
<1>2. Leaves(w) /\ WorkerTypes' /\ JobLeft(w) /\ job' \in [Events -> JobState]
  BY ReturnLeaves DEF IInv, BeginRefused
<1>. QED  BY <1>1, <1>2, LeavingRowsAlone

LEMMA MarkLostIInv ==
    ASSUME IInv, NEW w \in Workers, MarkLost(w)
    PROVE  IInv'
<1>1. phase[w] # "idle" /\ UNCHANGED <<rowVars, handled>> /\ faults' \in 0..MaxFaults
  BY WebhookAssumption DEF IInv, TypeOK, MarkLost
<1>2. Leaves(w) /\ WorkerTypes' /\ JobLeft(w) /\ job' \in [Events -> JobState]
  BY ReturnLeaves DEF IInv, MarkLost
<1>. QED  BY <1>1, <1>2, LeavingRowsAlone

LEMMA CrashIInv ==
    ASSUME IInv, NEW w \in Workers, Crash(w)
    PROVE  IInv'
<1>1. phase[w] # "idle" /\ UNCHANGED <<rowVars, handled>>
  BY DEF Crash
<1>2. /\ Leaves(w) /\ WorkerTypes' /\ JobLeft(w) /\ job' \in [Events -> JobState]
      /\ faults' \in 0..MaxFaults
  BY AbandonLeaves DEF IInv, Crash
<1>. QED  BY <1>1, <1>2, LeavingRowsAlone

LEMMA MarkProcessedIInv ==
    ASSUME IInv, NEW w \in Workers, MarkProcessed(w)
    PROVE  IInv'
<1>1. Working(w) /\ handled[current[w]] = 1
  BY DEF IInv, Ownership, Working, MarkProcessed
<1>2. Leaves(w) /\ WorkerTypes' /\ JobLeft(w) /\ job' \in [Events -> JobState]
  BY ReturnLeaves DEF IInv, MarkProcessed
<1>3. /\ UNCHANGED <<attempts, receivedAt, handled, faults>>
      /\ status' = [status EXCEPT ![current[w]] = "processed"]
      /\ nextAttempt' = [nextAttempt EXCEPT ![current[w]] = "null"]
      /\ "null" \in Due
  BY DEF MarkProcessed, Due
<1>. QED  BY <1>1, <1>2, <1>3, LeavingRowSettled

LEMMA MarkFailureIInv ==
    ASSUME IInv, NEW w \in Workers, MarkFailure(w)
    PROVE  IInv'
<1>. DEFINE s == IF ShouldRetry(w) THEN "failed" ELSE "error"
            d == IF ShouldRetry(w) THEN "later" ELSE "null"
<1>1. Working(w) /\ handled[current[w]] = 0
  BY DEF IInv, Ownership, Working, MarkFailure
<1>2. Leaves(w) /\ WorkerTypes' /\ JobLeft(w) /\ job' \in [Events -> JobState]
  BY ReturnLeaves DEF IInv, MarkFailure, RecordFailure
<1>3. /\ UNCHANGED <<attempts, receivedAt, handled, faults>>
      /\ status' = [status EXCEPT ![current[w]] = s]
      /\ nextAttempt' = [nextAttempt EXCEPT ![current[w]] = d]
      /\ d \in Due /\ s \in {"processed", "failed", "error"}
  BY DEF MarkFailure, RecordFailure, Due
<1>4. /\ held[w] = attempts[current[w]] /\ attempts[current[w]] \in 1..MaxAttempts
      /\ s = "failed" => held[w] < MaxAttempts
      /\ s = "error" => ~ (held[w] < MaxAttempts)
  BY <1>1 DEF IInv, Ownership, RowHistory, HoldsEvent, Working, ShouldRetry
<1>5. /\ s = "failed" => attempts[current[w]] < MaxAttempts
      /\ s = "error" => attempts[current[w]] = MaxAttempts
      /\ s # "processed"
  BY <1>4, WebhookAssumption
<1>. HIDE DEF s, d
<1>. QED  BY <1>1, <1>2, <1>3, <1>5, LeavingRowSettled

LEMMA NextIInv == IInv /\ [Next]_vars => IInv'
<1>. SUFFICES ASSUME IInv, [Next]_vars PROVE IInv'
  OBVIOUS
<1>1. CASE UNCHANGED vars
  BY <1>1 DEF IInv, TypeOK, HoldsEvent, OneWorkerPerEvent, Ownership, RowHistory,
              Enqueuing, Working, vars, rowVars, jobVars, workerVars
<1>2. ASSUME NEW w \in Workers, NEW e \in Events, Receive(w, e) \/ FetchJob(w, e)
      PROVE  IInv'
  BY <1>2, ReceiveIInv, FetchJobIInv
<1>3. ASSUME NEW w \in Workers,
             Enqueue(w) \/ ProcessInline(w) \/ Sweep(w) \/ MarkLost(w) \/ Crash(w)
      PROVE  IInv'
  BY <1>3, EnqueueIInv, ProcessInlineIInv, SweepIInv, MarkLostIInv, CrashIInv
<1>4. ASSUME NEW w \in Workers, Process(w)
      PROVE  IInv'
  BY <1>4, BeginProcessingIInv, BeginRefusedIInv, DispatchIInv, MarkProcessedIInv,
     MarkFailureIInv DEF Process
<1>5. ASSUME NEW e \in Events, BackoffElapses(e)
      PROVE  IInv'
  BY <1>5, BackoffElapsesIInv
<1>. QED  BY <1>1, <1>2, <1>3, <1>4, <1>5 DEF Next

LEMMA Invariance == Spec => []IInv
BY InitIInv, NextIInv, PTL DEF Spec

-----------------------------------------------------------------------------
(* Theorems                                                                *)

\* Every variable keeps its type; in particular no row is ever attempted more
\* than MaxAttempts times and no job is started more than JobMaxAttempts times.
THEOREM TypeCorrect == Spec => []TypeOK
<1>1. IInv => TypeOK
  BY DEF IInv
<1>. QED  BY <1>1, Invariance, PTL

\* BeginProcessing is a lock: one goroutine at a time runs the handler of a row.
THEOREM MutualExclusion == Spec => []OneWorkerPerEvent
<1>1. IInv => OneWorkerPerEvent
  BY DEF IInv
<1>. QED  BY <1>1, Invariance, PTL

\* The handler of one stored row never completes twice.
THEOREM AtMostOnce == Spec => []HandledAtMostOnce
<1>1. IInv => HandledAtMostOnce
  BY DEF IInv, TypeOK, RowHistory, HandledAtMostOnce, Status
<1>. QED  BY <1>1, Invariance, PTL

\* The status column tells the truth about the handler.
THEOREM StatusTruthful == Spec => []ProcessedIffHandled
<1>1. IInv => ProcessedIffHandled
  BY DEF IInv, RowHistory, ProcessedIffHandled
<1>. QED  BY <1>1, Invariance, PTL

\* failed means attempts are left, error means they are used up.
THEOREM RetryBudgetKept == Spec => []RetryBudget
<1>1. IInv => RetryBudget
  BY DEF IInv, RowHistory, RetryBudget
<1>. QED  BY <1>1, Invariance, PTL

-----------------------------------------------------------------------------
(* What one step can do to the rows, and the refinement                    *)

\* Row e goes from status a to status b, and the claim counts an attempt.
RowMoves(e, a, b) ==
    /\ status[e] = a
    /\ status' = [status EXCEPT ![e] = b]
    /\ attempts' = IF b = "processing" THEN [attempts EXCEPT ![e] = @ + 1] ELSE attempts

\* Every step moves at most one row, and only along these edges.
RowStep ==
    \/ UNCHANGED <<status, attempts>>
    \/ \E e \in Events :
          \/ RowMoves(e, "absent", "pending")
          \/ /\ attempts[e] < MaxAttempts
             /\ RowMoves(e, "pending", "processing") \/ RowMoves(e, "failed", "processing")
          \/ RowMoves(e, "processing", "processed")
          \/ attempts[e] < MaxAttempts /\ RowMoves(e, "processing", "failed")
          \/ attempts[e] = MaxAttempts /\ RowMoves(e, "processing", "error")

LEMMA NextRowStep == IInv /\ [Next]_vars => RowStep
<1>. SUFFICES ASSUME IInv, [Next]_vars PROVE RowStep
  OBVIOUS
<1>1. CASE UNCHANGED vars
  BY <1>1 DEF RowStep, vars, rowVars
<1>2. ASSUME NEW w \in Workers, NEW e \in Events, Receive(w, e) PROVE RowStep
  BY <1>2 DEF Receive, RowStep, RowMoves
<1>3. ASSUME NEW w \in Workers, NEW e \in Events, FetchJob(w, e) PROVE RowStep
  BY <1>3 DEF FetchJob, RowStep, rowVars
<1>4. ASSUME NEW w \in Workers,
             \/ Enqueue(w) \/ ProcessInline(w) \/ Sweep(w) \/ BeginRefused(w)
             \/ Dispatch(w) \/ MarkLost(w) \/ Crash(w)
      PROVE  RowStep
  BY <1>4 DEF Enqueue, ProcessInline, Sweep, BeginRefused, Dispatch, MarkLost, Crash,
              RowStep, rowVars
<1>5. ASSUME NEW e \in Events, BackoffElapses(e) PROVE RowStep
  BY <1>5 DEF BackoffElapses, RowStep
<1>6. ASSUME NEW w \in Workers, BeginProcessing(w) PROVE RowStep
  <2>1. /\ current[w] \in Events /\ attempts[current[w]] < MaxAttempts
        /\ status[current[w]] \in {"pending", "failed"}
    BY <1>6, WebhookAssumption
       DEF IInv, HoldsEvent, RowHistory, BeginProcessing, Claimable
  <2>. QED  BY <1>6, <2>1 DEF BeginProcessing, RowStep, RowMoves
<1>7. ASSUME NEW w \in Workers, MarkProcessed(w) \/ MarkFailure(w) PROVE RowStep
  <2>1. /\ current[w] \in Events /\ status[current[w]] = "processing"
        /\ held[w] = attempts[current[w]] /\ attempts[current[w]] \in 1..MaxAttempts
    BY <1>7 DEF IInv, HoldsEvent, Ownership, RowHistory, Working, MarkProcessed, MarkFailure
  <2>2. CASE MarkProcessed(w)
    BY <2>1, <2>2 DEF MarkProcessed, RowStep, RowMoves
  <2>3. CASE MarkFailure(w) /\ ShouldRetry(w)
    BY <2>1, <2>3 DEF MarkFailure, RecordFailure, ShouldRetry, RowStep, RowMoves
  <2>4. CASE MarkFailure(w) /\ ~ ShouldRetry(w)
    <3>1. attempts[current[w]] = MaxAttempts
      BY <2>1, <2>4, WebhookAssumption DEF ShouldRetry
    <3>. QED  BY <2>1, <2>4, <3>1 DEF MarkFailure, RecordFailure, RowStep, RowMoves
  <2>. QED  BY <1>7, <2>2, <2>3, <2>4
<1>. QED  BY <1>1, <1>2, <1>3, <1>4, <1>5, <1>6, <1>7 DEF Next, Process

\* A settled row never moves again, and attempts are never taken back.
THEOREM FinalStatus == Spec => TerminalIsFinal
<1>. DEFINE A == \A e \in Events :
                   /\ status[e] \in {"processed", "error"} => status'[e] = status[e]
                   /\ attempts'[e] >= attempts[e]
<1>1. IInv /\ RowStep => A
  BY WebhookAssumption DEF RowStep, RowMoves, IInv, TypeOK
<1>2. IInv /\ [Next]_vars => [A]_vars
  BY <1>1, NextRowStep
<1>. HIDE DEF A
<1>3. Spec => [][A]_vars
  BY <1>2, Invariance, PTL DEF Spec
<1>. QED  BY <1>3 DEF A, TerminalIsFinal

\* Stage of one event, given its status.
StageOf(s) ==
    CASE s = "absent" -> "unknown"
      [] s \in {"pending", "failed"} -> "waiting"
      [] s = "processing" -> "working"
      [] s = "processed" -> "done"
      [] s = "error" -> "givenUp"

LEMMA StageValues ==
    /\ StageOf("absent") = "unknown"
    /\ StageOf("pending") = "waiting" /\ StageOf("failed") = "waiting"
    /\ StageOf("processing") = "working"
    /\ StageOf("processed") = "done"
    /\ StageOf("error") = "givenUp"
BY DEF StageOf

LEMMA StageIsStageOf ==
    /\ Stage = [e \in Events |-> StageOf(status[e])]
    /\ Stage' = [e \in Events |-> StageOf(status'[e])]
BY DEF Stage, StageOf, Claimable

LEMMA StageMoves ==
    ASSUME IInv, NEW e \in Events, NEW a \in Status, NEW b \in Status, RowMoves(e, a, b)
    PROVE  Delivery!Move(e, StageOf(a), StageOf(b))
<1>1. Stage[e] = StageOf(a)
  BY StageIsStageOf DEF RowMoves
<1>2. \A f \in Events : status'[f] = IF f = e THEN b ELSE status[f]
  BY DEF RowMoves, IInv, TypeOK
<1>3. Stage' = [Stage EXCEPT ![e] = StageOf(b)]
  BY <1>2, StageIsStageOf
<1>. QED  BY <1>1, <1>3 DEF Delivery!Move

\* Every step of the pipeline is a step of the abstract delivery or a stutter.
LEMMA RowStepRefines == IInv /\ RowStep => [Delivery!Next]_<<Stage, attempts>>
<1>. SUFFICES ASSUME IInv, RowStep PROVE [Delivery!Next]_<<Stage, attempts>>
  OBVIOUS
<1>1. CASE UNCHANGED <<status, attempts>>
  BY <1>1, StageIsStageOf
<1>2. ASSUME NEW e \in Events, RowMoves(e, "absent", "pending") PROVE Delivery!Next
  <2>1. Delivery!Move(e, "unknown", "waiting")
    BY <1>2, StageMoves, StageValues DEF Status
  <2>. QED  BY <1>2, <2>1 DEF Delivery!Next, Delivery!Store, RowMoves
<1>3. ASSUME NEW e \in Events, attempts[e] < MaxAttempts,
             RowMoves(e, "pending", "processing") \/ RowMoves(e, "failed", "processing")
      PROVE  Delivery!Next
  <2>1. Delivery!Move(e, "waiting", "working")
    BY <1>3, StageMoves, StageValues DEF Status
  <2>. QED  BY <1>3, <2>1 DEF Delivery!Next, Delivery!TakeUp, RowMoves
<1>4. ASSUME NEW e \in Events, RowMoves(e, "processing", "processed") PROVE Delivery!Next
  <2>1. Delivery!Move(e, "working", "done")
    BY <1>4, StageMoves, StageValues DEF Status
  <2>. QED  BY <1>4, <2>1 DEF Delivery!Next, Delivery!Succeed, RowMoves
<1>5. ASSUME NEW e \in Events, attempts[e] < MaxAttempts, RowMoves(e, "processing", "failed")
      PROVE  Delivery!Next
  <2>1. Delivery!Move(e, "working", "waiting")
    BY <1>5, StageMoves, StageValues DEF Status
  <2>. QED  BY <1>5, <2>1 DEF Delivery!Next, Delivery!HandBack, RowMoves
<1>6. ASSUME NEW e \in Events, attempts[e] = MaxAttempts, RowMoves(e, "processing", "error")
      PROVE  Delivery!Next
  <2>1. Delivery!Move(e, "working", "givenUp")
    BY <1>6, StageMoves, StageValues DEF Status
  <2>. QED  BY <1>6, <2>1 DEF Delivery!Next, Delivery!GiveUp, RowMoves
<1>. QED  BY <1>1, <1>2, <1>3, <1>4, <1>5, <1>6 DEF RowStep

\* The pipeline implements the abstract delivery: with any number of events and
\* workers it takes an event up at most MaxAttempts times, one worker at a time.
THEOREM Refinement == Spec => ImplementsDelivery
<1>1. Init => Delivery!Init
  BY StageIsStageOf, StageValues DEF Init, Delivery!Init
<1>2. IInv /\ [Next]_vars => [Delivery!Next]_(Delivery!vars)
  BY NextRowStep, RowStepRefines DEF Delivery!vars
<1>. QED  BY <1>1, <1>2, Invariance, PTL DEF Spec, ImplementsDelivery, Delivery!Spec

=============================================================================
