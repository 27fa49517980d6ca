----------------------------- MODULE MCRecurring -----------------------------
(***************************************************************************)
(* What happens to an NMI subscription after its first payment, for TLC:   *)
(* dunning (Dunning) and the end at the gateway (UserCancel).  The two     *)
(* models share no state, so a behaviour of both is a behaviour of each    *)
(* with the other's steps as stutters; the initial state picks the one     *)
(* that moves, which spares TLC the product of their states.               *)
(***************************************************************************)
EXTENDS Dunning

CONSTANTS Users, Reachable

VARIABLES
    userRow, over, gateway, events, sales, request, told, userCharges, userFaults

userVars ==
    <<userRow, over, gateway, events, sales, request, told, userCharges, userFaults>>

VARIABLE part  \* the component that moves

Cancellation ==
    INSTANCE UserCancel
    WITH row <- userRow, charges <- userCharges, faults <- userFaults

ASSUME CancellationAssumption == Cancellation!UserCancelAssumption

MCInit ==
    /\ Init /\ Cancellation!Init
    /\ part \in {"dunning", "cancellation"}

MCNext ==
    /\ \/ part = "dunning" /\ Next /\ UNCHANGED userVars
       \/ part = "cancellation" /\ Cancellation!Next /\ UNCHANGED vars
    /\ UNCHANGED part

\* No fair action is enabled in an initial state, so the component that does
\* not move is fair as well.
MCSpec ==
    /\ MCInit /\ [][MCNext]_<<vars, userVars, part>>
    /\ Fairness /\ Cancellation!Fairness


\* Whatever the order of the reports: a subscription that is gone at the gateway
\* ends here ("Will never rebill again").
GoneIsEnded == Cancellation!GoneIsEnded

-----------------------------------------------------------------------------
(* Not asked of the run: the types, and two claims TLC refutes             *)

\* Every variable has its type.
TypesOK == TypeOK /\ Cancellation!TypeOK

\* Whoever keeps asking is rid of the subscription (endpoints.md).
AskingCancels == Cancellation!AskingCancels

\* Whoever is told of a success is not charged again (cancel_subscription.go).
ToldIsNotCharged == Cancellation!ToldIsNotCharged
=============================================================================
