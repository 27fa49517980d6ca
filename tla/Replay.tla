-------------------------------- MODULE Replay --------------------------------
(***************************************************************************)
(* The pool that replays webhook files: the files wait in a closed channel *)
(* for the workers, whose results go through another one to the caller.  A *)
(* goroutine waits for the workers and closes that one.                    *)
(***************************************************************************)
EXTENDS Naturals, FiniteSets

CONSTANTS
    Files,      \* the files found; without any the replay returns at once
    Concurrent, \* rs.Concurrent
    Delay       \* whether rs.Delay is positive

ReplayAssumption ==
    /\ IsFiniteSet(Files) /\ Files # {}
    /\ Concurrent \in Nat
    /\ Delay \in BOOLEAN

VARIABLES
    work,     \* files in the work channel
    results,  \* outcomes in the result channel, which has room for all
    worker,   \* what each worker is doing
    closed,   \* whether the result channel is closed
    caller,   \* what the caller has counted so far, and whether it returned
    waited    \* requests that were sent after a delay

vars == <<work, results, worker, closed, caller, waited>>

\* At least one worker, and never more than files.
NumWorkers ==
    LET n == IF Concurrent = 0 THEN 1 ELSE Concurrent IN
    IF n > Cardinality(Files) THEN Cardinality(Files) ELSE n

Workers == 0..(NumWorkers - 1)

Outcome == [file : Files, success : BOOLEAN]
NoFile  == "none"

\* sent: requests the worker has sent.
Worker == [step : {"receive", "delay", "request", "send", "done"},
           file : Files \cup {NoFile}, success : BOOLEAN, sent : 0..Cardinality(Files)]

TypeOK ==
    /\ work \subseteq Files
    /\ results \subseteq Outcome
    /\ worker \in [Workers -> Worker]
    /\ closed \in BOOLEAN
    /\ caller \in [counted : SUBSET Files, successes : Nat, failures : Nat, returned : BOOLEAN]
    /\ waited \subseteq Files

Init ==
    /\ work = Files
    /\ results = {}
    /\ worker = [w \in Workers |-> [step |-> "receive", file |-> NoFile, success |-> FALSE, sent |-> 0]]
    /\ closed = FALSE
    /\ caller = [counted |-> {}, successes |-> 0, failures |-> 0, returned |-> FALSE]
    /\ waited = {}

-----------------------------------------------------------------------------

Go(w, t) == worker' = [worker EXCEPT ![w] = t]

Delays(w) == Delay /\ w > 0

\* Faulty variant of Receive: the file stays in the channel.
ReceiveCopy(w, f) ==
    /\ worker[w].step = "receive"
    /\ f \in work
    /\ UNCHANGED work
    /\ Go(w, [worker[w] EXCEPT !.file = f, !.step = IF Delays(w) THEN "delay" ELSE "request"])
    /\ UNCHANGED <<results, closed, caller, waited>>

\* The channel is first in, first out; which file is first does not matter.
Receive(w, f) ==
    /\ worker[w].step = "receive"
    /\ f \in work
    /\ work' = work \ {f}
    /\ Go(w, [worker[w] EXCEPT !.file = f, !.step = IF Delays(w) THEN "delay" ELSE "request"])
    /\ UNCHANGED <<results, closed, caller, waited>>

Sleep(w) ==
    /\ worker[w].step = "delay"
    /\ waited' = waited \cup {worker[w].file}
    /\ Go(w, [worker[w] EXCEPT !.step = "request"])
    /\ UNCHANGED <<work, results, closed, caller>>

\* The request, or the check of a dry run: every error is a failed result.
Request(w) ==
    /\ worker[w].step = "request"
    /\ \E ok \in BOOLEAN :
          Go(w, [worker[w] EXCEPT !.step = "send", !.success = ok, !.sent = @ + 1])
    /\ UNCHANGED <<work, results, closed, caller, waited>>

Send(w) ==
    /\ worker[w].step = "send"
    /\ results' = results \cup {[file |-> worker[w].file, success |-> worker[w].success]}
    /\ Go(w, [worker[w] EXCEPT !.step = "receive"])
    /\ UNCHANGED <<work, closed, caller, waited>>

\* wg.Done, when the closed channel is empty.
Exit(w) ==
    /\ worker[w].step = "receive"
    /\ work = {}
    /\ Go(w, [worker[w] EXCEPT !.step = "done"])
    /\ UNCHANGED <<work, results, closed, caller, waited>>

\* Faulty variant of CloseResults: a worker whose last file failed does not count as done.
CloseAfterSuccess ==
    /\ ~ closed
    /\ \A w \in Workers : worker[w].step = "done" /\ worker[w].success
    /\ closed' = TRUE
    /\ UNCHANGED <<work, results, worker, caller, waited>>

\* After wg.Wait.
CloseResults ==
    /\ ~ closed
    /\ \A w \in Workers : worker[w].step = "done"
    /\ closed' = TRUE
    /\ UNCHANGED <<work, results, worker, caller, waited>>

Collect(r) ==
    /\ r \in results
    /\ results' = results \ {r}
    /\ caller' = [caller EXCEPT !.counted = @ \cup {r.file},
                                !.successes = IF r.success THEN @ + 1 ELSE @,
                                !.failures = IF r.success THEN @ ELSE @ + 1]
    /\ UNCHANGED <<work, worker, closed, waited>>

Return ==
    /\ ~ caller.returned
    /\ closed /\ results = {}
    /\ caller' = [caller EXCEPT !.returned = TRUE]
    /\ UNCHANGED <<work, results, worker, closed, waited>>

Next ==
    \/ \E w \in Workers :
          \/ \E f \in work : Receive(w, f)
          \/ Sleep(w) \/ Request(w) \/ Send(w) \/ Exit(w)
    \/ CloseResults
    \/ \E r \in results : Collect(r)
    \/ Return

\* The goroutines are scheduled, and every request ends.
Fairness ==
    /\ \A w \in Workers :
          WF_vars((\E f \in work : Receive(w, f)) \/ Sleep(w) \/ Request(w) \/ Send(w) \/ Exit(w))
    /\ WF_vars(CloseResults)
    /\ WF_vars((\E r \in results : Collect(r)) \/ Return)

Spec == Init /\ [][Next]_vars /\ Fairness

-----------------------------------------------------------------------------
(* Properties                                                              *)

\* No worker sends on the closed channel, which would panic (the goroutine
\* after the workers closes it).
NoSendOnClosed == closed => \A w \in Workers : worker[w].step = "done"

\* However the workers and the caller interleave, each file is counted once and
\* the counts are returned after the last (processWebhookEvents).
Tally == INSTANCE ReplayTally WITH
            left <- Files \ caller.counted,
            successes <- caller.successes,
            failures <- caller.failures,
            returned <- caller.returned
ImplementsTally == Tally!Spec

\* The replay ends, whatever the number of workers and files.
ReplayReturns == <>caller.returned

\* "Add delay between requests (except for the first batch)": a worker waits
\* before every request but its first.
DelayedAfterFirst ==
    \A w \in Workers :
        worker[w].step = "send" =>
            (worker[w].file \in waited <=> Delay /\ worker[w].sent > 1)
=============================================================================
