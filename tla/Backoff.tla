------------------------------- MODULE Backoff -------------------------------
(***************************************************************************)
(* The delays between the attempts to process a webhook event: the         *)
(* configured values with their defaults, and the delay that doubles up to *)
(* a maximum, computed in integers of a fixed width.  WebhookEvents says   *)
(* what an attempt does; this module says how long the next one waits.     *)
(***************************************************************************)
EXTENDS Integers, FiniteSetsExt

CONSTANTS
    Width,       \* bits of an integer, 64 in the program
    Configured,  \* values a duration may be configured with; 0 for none
    MaxAttempts, \* numbers of attempts configured
    DefaultInitial, \* the default of initial_backoff
    DefaultMax      \* the default of max_backoff

\* Power[n]: a one shifted to the left n times.
Power[n \in Nat] == IF n = 0 THEN 1 ELSE 2 * Power[n - 1]

MaxInt == Power[Width - 1] - 1

BackoffAssumption ==
    /\ Width \in Nat \ {0}
    /\ Configured \subseteq 0..MaxInt
    /\ MaxAttempts \subseteq Nat \ {0}
    /\ DefaultInitial \in 1..MaxInt
    /\ DefaultMax \in DefaultInitial..MaxInt

VARIABLES
    retry,    \* the configuration in use
    attempts, \* attempts that failed
    delay,    \* what the last of them waits for, if it is tried again
    status    \* of the event

vars == <<retry, attempts, delay, status>>

Int64   == (-Power[Width - 1])..MaxInt
Wrap(n) == ((n + Power[Width - 1]) % Power[Width]) - Power[Width - 1]

WithDefaults(initial, max) ==
    LET i == IF initial = 0 THEN DefaultInitial ELSE initial
        m == IF max = 0 THEN DefaultMax ELSE max IN
    [initial |-> i, max |-> IF m < i THEN i ELSE m]

\* 1 << n: the bits that leave the integer are lost.
Shifted(n) == IF n >= Width THEN 0 ELSE Wrap(Power[n])

\* Faulty variant of NextBackoff: doubled once too often.
NextBackoffLate(r, attempt) ==
    Min({Wrap(Shifted(attempt) * r.initial), r.max})

NextBackoff(r, attempt) ==
    IF attempt <= 0 THEN r.initial
    ELSE Min({Wrap(Shifted(attempt - 1) * r.initial), r.max})

TypeOK ==
    /\ retry \in [initial : Int64, max : Int64, attempts : MaxAttempts]
    /\ 0 < retry.initial /\ retry.initial <= retry.max
    /\ attempts \in 0..retry.attempts
    /\ delay \in Int64
    /\ status \in {"pending", "failed", "error"}

Init ==
    /\ \E i, m \in Configured, n \in MaxAttempts :
          retry = [initial |-> WithDefaults(i, m).initial, max |-> WithDefaults(i, m).max,
                   attempts |-> n]
    /\ attempts = 0
    /\ delay = 0
    /\ status = "pending"

\* An attempt fails: the event is scheduled again, or given up.
Fail ==
    /\ status # "error"
    /\ attempts' = attempts + 1
    /\ IF attempts' < retry.attempts
       THEN status' = "failed" /\ delay' = NextBackoff(retry, attempts')
       ELSE status' = "error" /\ delay' = 0
    /\ UNCHANGED retry

Next == Fail

Spec == Init /\ [][Next]_vars

-----------------------------------------------------------------------------
(* Properties                                                              *)

\* While the doubled delay fits the integer, it is what is meant: the first
\* delay doubled with every attempt, up to the maximum (nextBackoff).  With
\* delays of a minute that holds for 28 attempts; the default is five.
DoublesUpToMax ==
    status = "failed" /\ Power[attempts - 1] * retry.initial \in Int64 =>
        delay = Min({Power[attempts - 1] * retry.initial, retry.max})

=============================================================================
