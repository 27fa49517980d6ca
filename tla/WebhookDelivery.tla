--------------------------- MODULE WebhookDelivery ---------------------------
(***************************************************************************)
(* What the webhook pipeline promises about each stored event, with no     *)
(* mention of jobs, sweeps, goroutines or failures: it is tried by one     *)
(* worker at a time, it is handed back and tried again while it has tries  *)
(* left, and it ends either done or, after the last try, given up.         *)
(***************************************************************************)
EXTENDS Integers

CONSTANTS Events, MaxAttempts

VARIABLES
    stage,  \* where each event is
    tries   \* how often it has been taken up

vars == <<stage, tries>>

Init ==
    /\ stage = [e \in Events |-> "unknown"]
    /\ tries = [e \in Events |-> 0]

Move(e, from, to) ==
    /\ stage[e] = from
    /\ stage' = [stage EXCEPT ![e] = to]

Store(e) == Move(e, "unknown", "waiting") /\ UNCHANGED tries

TakeUp(e) ==
    /\ tries[e] < MaxAttempts
    /\ Move(e, "waiting", "working")
    /\ tries' = [tries EXCEPT ![e] = @ + 1]

Succeed(e) == Move(e, "working", "done") /\ UNCHANGED tries

HandBack(e) ==
    /\ tries[e] < MaxAttempts
    /\ Move(e, "working", "waiting")
    /\ UNCHANGED tries

GiveUp(e) ==
    /\ tries[e] = MaxAttempts
    /\ Move(e, "working", "givenUp")
    /\ UNCHANGED tries

Next ==
    \E e \in Events :
        Store(e) \/ TakeUp(e) \/ Succeed(e) \/ HandBack(e) \/ GiveUp(e)

Spec == Init /\ [][Next]_vars
=============================================================================
