---------------------------- MODULE WebhookEvents ----------------------------
(***************************************************************************)
(* The webhook pipeline: rows of billing.webhook_events, the River jobs    *)
(* that process them one by one, the periodic retry sweep, and the         *)
(* goroutines that run WebhookProcessor.Process.                           *)
(*                                                                         *)
(* A worker is any goroutine that can call Process: a River worker slot    *)
(* (a job or the sweep) or a request goroutine.  Each database statement   *)
(* is one step, so every interleaving of the statements of concurrent      *)
(* workers is explored; a worker that dies between two statements leaves   *)
(* the rows it wrote as they are.                                          *)
(***************************************************************************)
EXTENDS Integers, FiniteSets

CONSTANTS
    Events,          \* webhook deliveries, one row each
    Workers,         \* goroutines able to run Process
    NoEvent,         \* "this worker holds no event"
    MaxAttempts,     \* webhooks.retry.max_attempts
    BatchSize,       \* webhooks.retry.batch_size
    JobMaxAttempts,  \* River's max attempts of one job
    MaxFaults        \* bound on the number of crashes, panics and lost updates

ASSUME WebhookAssumption ==
    /\ IsFiniteSet(Events)
    /\ NoEvent \notin Events
    /\ MaxAttempts \in Nat \ {0}
    /\ BatchSize \in Nat \ {0}
    /\ JobMaxAttempts \in Nat \ {0}
    /\ MaxFaults \in Nat

VARIABLES
    \* columns of billing.webhook_events
    status,       \* status ("absent" until the row is inserted)
    attempts,     \* processing_attempts
    nextAttempt,  \* next_attempt_at: NULL, in the future, or already due
    receivedAt,   \* received_at, as the rank of the insert (0: no row)
    \* the River job of each event
    job,          \* its state
    jobAttempt,   \* how many times it has been started
    \* the goroutines
    phase,        \* where in its code each worker is
    origin,       \* who called Process: a request, a job or the sweep
    current,      \* the event it is processing
    held,         \* processing_attempts of the copy BeginProcessing returned
    batch,        \* the rest of the list the sweep read
    \* history
    handled,      \* how often the handler of each event has succeeded
    faults        \* crashes, panics and lost updates so far

rowVars    == <<status, attempts, nextAttempt, receivedAt>>
jobVars    == <<job, jobAttempt>>
workerVars == <<phase, origin, current, held, batch>>
vars == <<rowVars, jobVars, workerVars, handled, faults>>

Status  == {"absent", "pending", "processing", "processed", "failed", "error"}
Phase   == {"idle", "enqueue", "begin", "dispatch", "succeeded", "failed"}
Due     == {"null", "later", "due"}
Origin  == {"none", "request", "job", "sweep"}
JobState == {"none", "available", "running", "completed", "discarded"}

TypeOK ==
    /\ status \in [Events -> Status]
    /\ attempts \in [Events -> 0..MaxAttempts]
    /\ nextAttempt \in [Events -> Due]
    /\ receivedAt \in [Events -> Nat]
    /\ job \in [Events -> JobState]
    /\ jobAttempt \in [Events -> 0..JobMaxAttempts]
    /\ phase \in [Workers -> Phase]
    /\ origin \in [Workers -> Origin]
    /\ current \in [Workers -> Events \cup {NoEvent}]
    /\ held \in [Workers -> 0..MaxAttempts]
    /\ batch \in [Workers -> SUBSET Events]
    /\ handled \in [Events -> Nat]
    /\ faults \in 0..MaxFaults

Init ==
    /\ status = [e \in Events |-> "absent"]
    /\ attempts = [e \in Events |-> 0]
    /\ nextAttempt = [e \in Events |-> "null"]
    /\ receivedAt = [e \in Events |-> 0]
    /\ job = [e \in Events |-> "none"]
    /\ jobAttempt = [e \in Events |-> 0]
    /\ phase = [w \in Workers |-> "idle"]
    /\ origin = [w \in Workers |-> "none"]
    /\ current = [w \in Workers |-> NoEvent]
    /\ held = [w \in Workers |-> 0]
    /\ batch = [w \in Workers |-> {}]
    /\ handled = [e \in Events |-> 0]
    /\ faults = 0

-----------------------------------------------------------------------------
(* Helpers                                                                 *)

Received == {e \in Events : status[e] # "absent"}

\* Faulty variants of Claimable: a claim that also takes rows being processed,
\* one that also takes rows already settled.
ClaimableBusy(e) == status[e] \in {"pending", "failed", "processing"}
ClaimableSettled(e) == status[e] \in {"pending", "failed", "processed", "error"}

\* The states in which BeginProcessing and ListRetryable take a row.
Claimable(e) == status[e] \in {"pending", "failed"}

\* Faulty variants of Ready: a sweep for pending rows only, for failed ones only.
ReadyPendingOnly ==
    {e \in Events : status[e] = "pending" /\ nextAttempt[e] # "later"}
ReadyFailedOnly ==
    {e \in Events : status[e] = "failed" /\ nextAttempt[e] # "later"}

\* WHERE status IN (pending, failed) AND next_attempt_at is NULL or reached.
Ready == {e \in Events : Claimable(e) /\ nextAttempt[e] # "later"}

\* WHERE ready ORDER BY received_at ASC LIMIT BatchSize.
ListRetryable ==
    {e \in Ready :
        Cardinality({f \in Ready : receivedAt[f] < receivedAt[e]}) < BatchSize}

\* The sweep walks its list in the order it was read.
Oldest(S) == {e \in S : \A f \in S : receivedAt[e] <= receivedAt[f]}

\* River: a job that failed runs again until its attempts are used up.
RetryJob(e) ==
    job' = [job EXCEPT ![e] =
              IF jobAttempt[e] < JobMaxAttempts THEN "available" ELSE "discarded"]

GoIdle(w) ==
    /\ phase' = [phase EXCEPT ![w] = "idle"]
    /\ origin' = [origin EXCEPT ![w] = "none"]
    /\ current' = [current EXCEPT ![w] = NoEvent]
    /\ held' = [held EXCEPT ![w] = 0]
    /\ batch' = [batch EXCEPT ![w] = {}]

\* Worker w starts Process(e) on behalf of o, with rest still to be swept.
StartProcess(w, o, e, rest) ==
    /\ phase' = [phase EXCEPT ![w] = "begin"]
    /\ origin' = [origin EXCEPT ![w] = o]
    /\ current' = [current EXCEPT ![w] = e]
    /\ held' = [held EXCEPT ![w] = 0]
    /\ batch' = [batch EXCEPT ![w] = rest]

\* The sweep goes on with the oldest event left, or its job ends.
SweepOn(w, S) ==
    \/ S = {} /\ GoIdle(w)
    \/ \E e \in Oldest(S) : StartProcess(w, "sweep", e, S \ {e})

\* Process returns to its caller, with or without an error.
Return(w, ok) ==
    \/ /\ origin[w] = "request"
       /\ GoIdle(w)
       /\ UNCHANGED jobVars
    \/ /\ origin[w] = "job"
       /\ GoIdle(w)
       /\ IF ok THEN job' = [job EXCEPT ![current[w]] = "completed"]
                ELSE RetryJob(current[w])
       /\ UNCHANGED jobAttempt
    \/ /\ origin[w] = "sweep"
       /\ SweepOn(w, batch[w])
       /\ UNCHANGED jobVars

\* The goroutine stops without returning; River rescues the job it ran.
Abandon(w) ==
    /\ faults < MaxFaults
    /\ faults' = faults + 1
    /\ GoIdle(w)
    /\ IF origin[w] = "job" THEN RetryJob(current[w]) ELSE UNCHANGED job
    /\ UNCHANGED jobAttempt

-----------------------------------------------------------------------------
(* Receiving a webhook                                                     *)

\* The HTTP handler stores the event: pending and due at once.
Receive(w, e) ==
    /\ phase[w] = "idle"
    /\ status[e] = "absent"
    /\ status' = [status EXCEPT ![e] = "pending"]
    /\ nextAttempt' = [nextAttempt EXCEPT ![e] = "due"]
    /\ receivedAt' = [receivedAt EXCEPT ![e] = Cardinality(Received) + 1]
    /\ phase' = [phase EXCEPT ![w] = "enqueue"]
    /\ origin' = [origin EXCEPT ![w] = "request"]
    /\ current' = [current EXCEPT ![w] = e]
    /\ UNCHANGED <<attempts, held, batch, jobVars, handled, faults>>

\* queueOrProcessWebhook, the River insert succeeds: the request is done.
Enqueue(w) ==
    /\ phase[w] = "enqueue"
    /\ job' = [job EXCEPT ![current[w]] = "available"]
    /\ GoIdle(w)
    /\ UNCHANGED <<rowVars, jobAttempt, handled, faults>>

\* queueOrProcessWebhook, no River client or the insert fails: inline.
ProcessInline(w) ==
    /\ phase[w] = "enqueue"
    /\ phase' = [phase EXCEPT ![w] = "begin"]
    /\ UNCHANGED <<rowVars, jobVars, origin, current, held, batch, handled, faults>>

-----------------------------------------------------------------------------
(* Starting work                                                           *)

\* WebhookProcessWorker.Work is called with a job of the queue.
FetchJob(w, e) ==
    /\ phase[w] = "idle"
    /\ job[e] = "available"
    /\ job' = [job EXCEPT ![e] = "running"]
    /\ jobAttempt' = [jobAttempt EXCEPT ![e] = @ + 1]
    /\ StartProcess(w, "job", e, {})
    /\ UNCHANGED <<rowVars, handled, faults>>

\* WebhookRetryWorker.Work: read the list once, then process it inline.
Sweep(w) ==
    /\ phase[w] = "idle"
    /\ SweepOn(w, ListRetryable)
    /\ UNCHANGED <<rowVars, jobVars, handled, faults>>

\* Time passes and next_attempt_at is reached.
BackoffElapses(e) ==
    /\ nextAttempt[e] = "later"
    /\ nextAttempt' = [nextAttempt EXCEPT ![e] = "due"]
    /\ UNCHANGED <<status, attempts, receivedAt, jobVars, workerVars, handled, faults>>

-----------------------------------------------------------------------------
(* WebhookProcessor.Process                                                *)

\* The claim: one UPDATE ... WHERE status IN (pending, failed) RETURNING *.
BeginProcessing(w) ==
    LET e == current[w] IN
    /\ phase[w] = "begin"
    /\ Claimable(e)
    /\ status' = [status EXCEPT ![e] = "processing"]
    /\ attempts' = [attempts EXCEPT ![e] = @ + 1]
    /\ nextAttempt' = [nextAttempt EXCEPT ![e] = "null"]
    /\ phase' = [phase EXCEPT ![w] = "dispatch"]
    /\ held' = [held EXCEPT ![w] = attempts[e] + 1]
    /\ UNCHANGED <<receivedAt, jobVars, origin, current, batch, handled, faults>>

\* The claim matches no row: Process returns an error.
BeginRefused(w) ==
    /\ phase[w] = "begin"
    /\ ~ Claimable(current[w])
    /\ Return(w, FALSE)
    /\ UNCHANGED <<rowVars, handled, faults>>

\* The dispatcher's handler returns nil or an error.
Dispatch(w) ==
    /\ phase[w] = "dispatch"
    /\ \/ /\ phase' = [phase EXCEPT ![w] = "succeeded"]
          /\ handled' = [handled EXCEPT ![current[w]] = @ + 1]
       \/ /\ phase' = [phase EXCEPT ![w] = "failed"]
          /\ UNCHANGED handled
    /\ UNCHANGED <<rowVars, jobVars, origin, current, held, batch, faults>>

MarkProcessed(w) ==
    LET e == current[w] IN
    /\ phase[w] = "succeeded"
    /\ status' = [status EXCEPT ![e] = "processed"]
    /\ nextAttempt' = [nextAttempt EXCEPT ![e] = "null"]
    /\ Return(w, TRUE)
    /\ UNCHANGED <<attempts, receivedAt, handled, faults>>

\* Faulty variant of ShouldRetry: one attempt too many.
ShouldRetryOffByOne(w) == held[w] <= MaxAttempts

\* Decided on the attempts of the copy BeginProcessing returned.
ShouldRetry(w) == held[w] < MaxAttempts

\* The row goes back to failed with a later next attempt, or to error.
RecordFailure(w) ==
    LET e == current[w] IN
    /\ status' = [status EXCEPT ![e] = IF ShouldRetry(w) THEN "failed" ELSE "error"]
    /\ nextAttempt' = [nextAttempt EXCEPT ![e] = IF ShouldRetry(w) THEN "later" ELSE "null"]
    /\ Return(w, FALSE)
    /\ UNCHANGED <<attempts, receivedAt, handled, faults>>

\* Faulty variant of MarkFailure: also used when marking a success went wrong.
MarkFailureAlways(w) == phase[w] \in {"succeeded", "failed"} /\ RecordFailure(w)

MarkFailure(w) == phase[w] = "failed" /\ RecordFailure(w)

-----------------------------------------------------------------------------
(* Failures                                                                *)

\* The statement that would mark the row fails (a cancelled request or job
\* context, a lost connection): Process returns the error, the row stays.
MarkLost(w) ==
    /\ phase[w] \in {"succeeded", "failed"}
    /\ faults < MaxFaults
    /\ faults' = faults + 1
    /\ Return(w, FALSE)
    /\ UNCHANGED <<rowVars, handled>>

\* A panic in the handler, or the end of the process, at any point.
Crash(w) ==
    /\ phase[w] # "idle"
    /\ Abandon(w)
    /\ UNCHANGED <<rowVars, handled>>

-----------------------------------------------------------------------------
Process(w) ==
    \/ BeginProcessing(w)
    \/ BeginRefused(w)
    \/ Dispatch(w)
    \/ MarkProcessed(w)
    \/ MarkFailure(w)

Next ==
    \/ \E w \in Workers, e \in Events : Receive(w, e) \/ FetchJob(w, e)
    \/ \E w \in Workers :
          \/ Enqueue(w)
          \/ ProcessInline(w)
          \/ Sweep(w)
          \/ Process(w)
          \/ MarkLost(w)
          \/ Crash(w)
    \/ \E e \in Events : BackoffElapses(e)

Spec == Init /\ [][Next]_vars

\* River runs every started goroutine, picks up queued jobs and starts the
\* sweep every minute; the clock advances.  Nothing obliges a webhook to
\* arrive or a fault to happen.
Fairness ==
    /\ \A w \in Workers : WF_vars(Enqueue(w) \/ ProcessInline(w) \/ Process(w))
    /\ \A e \in Events : WF_vars(\E w \in Workers : FetchJob(w, e))
    /\ WF_vars(\E w \in Workers : Sweep(w))
    /\ \A e \in Events : WF_vars(BackoffElapses(e))

FairSpec == Spec /\ Fairness

-----------------------------------------------------------------------------
(* Properties                                                              *)

\* The refinement mapping: the status column seen from outside.
Stage ==
    [e \in Events |->
        CASE status[e] = "absent" -> "unknown"
          [] Claimable(e) -> "waiting"
          [] status[e] = "processing" -> "working"
          [] status[e] = "processed" -> "done"
          [] status[e] = "error" -> "givenUp"]

Delivery == INSTANCE WebhookDelivery WITH stage <- Stage, tries <- attempts

\* Every behaviour of the pipeline, with its job queue, its sweep, its inline
\* processing and its faults, is one the abstract delivery allows.
ImplementsDelivery == Delivery!Spec

Working(w) == phase[w] \in {"dispatch", "succeeded", "failed"}

\* No two goroutines ever run the handler of one event row at the same time,
\* whichever of request, River job, River retry and sweep they come from: the
\* conditional UPDATE of BeginProcessing is the only lock the pipeline has.
OneWorkerPerEvent ==
    \A v, w \in Workers :
        Working(v) /\ Working(w) /\ current[v] = current[w] => v = w

\* The handler of a row completes at most once, whatever is retried, swept or
\* rescued and wherever a worker dies: a row whose success could not be
\* recorded stays in processing and is not claimed again.
HandledAtMostOnce == \A e \in Events : handled[e] <= 1

\* A row is marked processed only when its handler really completed, and a
\* handler that completed never ends in failed or error.
ProcessedIffHandled ==
    \A e \in Events :
        /\ status[e] = "processed" => handled[e] = 1
        /\ status[e] \in {"pending", "failed", "error"} => handled[e] = 0

\* A row in failed always has attempts left and a row in error has none: the
\* copy MarkFailure decides on is never stale.
RetryBudget ==
    \A e \in Events :
        /\ status[e] = "failed" => attempts[e] < MaxAttempts
        /\ status[e] = "error" => attempts[e] = MaxAttempts

\* processed and error are final, and attempts only grow.
TerminalIsFinal ==
    [][\A e \in Events :
          /\ status[e] \in {"processed", "error"} => status'[e] = status[e]
          /\ attempts'[e] >= attempts[e]]_vars

\* Unless there is a fault, every stored webhook is eventually processed or
\* given up, also when the River insert failed or its job was discarded.
EveryEventSettles ==
    \A e \in Events :
        status[e] = "pending" ~>
            status[e] \in {"processed", "error"} \/ faults > 0

\* With faults a row may be left in processing for ever, but no row waits in
\* pending or failed for ever: the sweep reaches it.
NothingWaitsForever ==
    \A e \in Events : Claimable(e) ~> ~ Claimable(e)
=============================================================================
