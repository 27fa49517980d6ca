------------------------------ MODULE UserCancel ------------------------------
(***************************************************************************)
(* The end of an NMI subscription: the user's request, which asks the      *)
(* gateway to delete the subscription, queues a notification and answers,  *)
(* and the webhooks in which the gateway reports sales and the deletion.   *)
(* They come in any order; each handler is one step, for what matters here *)
(* is in which order they commit.  The gateway knows its subscriptions by  *)
(* the ids it gave them.  The request names the plan of the price instead, *)
(* and leaves the gateway out when no client is configured for the         *)
(* provider or the price has no plan.                                      *)
(***************************************************************************)
EXTENDS Naturals

CONSTANTS
    Users,      \* each with one subscription
    Reachable,  \* users for whose provider and price the gateway is called
    MaxCharges, \* bound on the charges of a subscription
    MaxFaults   \* bound on lost answers and failed handlers

UserCancelAssumption ==
    /\ Reachable \subseteq Users
    /\ MaxCharges \in Nat
    /\ MaxFaults \in Nat

VARIABLES
    row,     \* status of each user's subscription
    over,    \* whether its paid period is over
    gateway, \* ids of the subscriptions that live at the gateway
    events,  \* ids whose deletion is reported and not yet handled
    sales,   \* sales of each user reported and not yet handled
    request, \* what each user's request is doing
    told,    \* users who have been told "cancelled successfully"
    charges, \* charges of each user
    faults   \* faults so far

vars == <<row, over, gateway, events, sales, request, told, charges, faults>>

Plan == <<"plan">>

\* The id the gateway gave to the subscription of a user; no plan has it.
Id(u) == <<"subscription", u>>
Ids   == {Id(u) : u \in Users}

TypeOK ==
    /\ row \in [Users -> {"active", "cancelled"}]
    /\ over \in [Users -> BOOLEAN]
    /\ gateway \subseteq Ids
    /\ events \subseteq Ids
    /\ sales \in [Users -> 0..MaxCharges]
    /\ request \in [Users -> {"idle", "loaded", "answer"}]
    /\ told \subseteq Users
    /\ charges \in [Users -> 0..MaxCharges]
    /\ faults \in 0..MaxFaults

Init ==
    /\ row = [u \in Users |-> "active"]
    /\ over = [u \in Users |-> FALSE]
    /\ gateway = Ids
    /\ events = {}
    /\ sales = [u \in Users |-> 0]
    /\ request = [u \in Users |-> "idle"]
    /\ told = {}
    /\ charges = [u \in Users |-> 0]
    /\ faults = 0

-----------------------------------------------------------------------------

Go(u, step) == request' = [request EXCEPT ![u] = step]

\* The active subscription whose period is running; without one the request fails.
Cancel(u) ==
    /\ request[u] = "idle"
    /\ row[u] = "active" /\ ~ over[u]
    /\ Go(u, "loaded")
    /\ UNCHANGED <<row, over, gateway, events, sales, told, charges, faults>>

\* DeleteRecurringSubscription: what the gateway does with an id, and its answer.
Deletes(id, ok) ==
    /\ gateway' = gateway \ {id}
    /\ events' = IF id \in gateway THEN events \cup {id} ELSE events
    /\ ok = (id \in gateway)

\* The id the request sends.
Asked(u) == Plan

\* The gateway's refusal ends the request with an error.
AskGateway(u) ==
    /\ request[u] = "loaded"
    /\ u \in Reachable
    /\ \E ok \in BOOLEAN :
          Deletes(Asked(u), ok) /\ Go(u, IF ok THEN "answer" ELSE "idle")
    /\ UNCHANGED <<row, over, sales, told, charges, faults>>

\* So does an answer that is lost, before or after the deletion.
AskInVain(u) ==
    /\ request[u] = "loaded"
    /\ u \in Reachable
    /\ faults < MaxFaults
    /\ faults' = faults + 1
    /\ \/ \E ok \in BOOLEAN : Deletes(Asked(u), ok)
       \/ UNCHANGED <<gateway, events>>
    /\ Go(u, "idle")
    /\ UNCHANGED <<row, over, sales, told, charges>>

SkipGateway(u) ==
    /\ request[u] = "loaded"
    /\ u \notin Reachable
    /\ Go(u, "answer")
    /\ UNCHANGED <<row, over, gateway, events, sales, told, charges, faults>>

\* The notification, whose failure is only logged, and the answer.
Answer(u) ==
    /\ request[u] = "answer"
    /\ Go(u, "idle")
    /\ told' = told \cup {u}
    /\ UNCHANGED <<row, over, gateway, events, sales, charges, faults>>


\* The delete webhook, handled again until it succeeds.
DeleteSubscription(u) ==
    /\ Id(u) \in events
    /\ events' = events \ {Id(u)}
    /\ row' = [row EXCEPT ![u] = "cancelled"]
    /\ UNCHANGED <<over, gateway, sales, request, told, charges, faults>>

\* The merchant deletes the subscription at the gateway.
MerchantDeletes(u) ==
    /\ Id(u) \in gateway
    /\ gateway' = gateway \ {Id(u)}
    /\ events' = events \cup {Id(u)}
    /\ UNCHANGED <<row, over, sales, request, told, charges, faults>>

PeriodEnds(u) ==
    /\ ~ over[u]
    /\ over' = [over EXCEPT ![u] = TRUE]
    /\ UNCHANGED <<row, gateway, events, sales, request, told, charges, faults>>

\* The gateway charges for another period and reports the sale.
Charge(u) ==
    /\ Id(u) \in gateway /\ over[u]
    /\ charges[u] < MaxCharges
    /\ charges' = [charges EXCEPT ![u] = @ + 1]
    /\ sales' = [sales EXCEPT ![u] = @ + 1]
    /\ UNCHANGED <<row, over, gateway, events, request, told, faults>>

\* The sale webhook, handled again until it succeeds: RenewMembership makes the
\* row active for another period, whatever its status.
SaleSuccess(u) ==
    /\ sales[u] > 0
    /\ sales' = [sales EXCEPT ![u] = @ - 1]
    /\ row' = [row EXCEPT ![u] = "active"]
    /\ over' = [over EXCEPT ![u] = FALSE]
    /\ UNCHANGED <<gateway, events, request, told, charges, faults>>

Next ==
    \E u \in Users :
        \/ Cancel(u) \/ AskGateway(u) \/ AskInVain(u) \/ SkipGateway(u) \/ Answer(u)
        \/ DeleteSubscription(u) \/ SaleSuccess(u)
        \/ MerchantDeletes(u) \/ PeriodEnds(u) \/ Charge(u)

\* Requests and webhooks are worked off.
Fairness ==
    \A u \in Users :
        /\ WF_vars(AskGateway(u) \/ SkipGateway(u) \/ Answer(u))
        /\ WF_vars(DeleteSubscription(u))
        /\ WF_vars(SaleSuccess(u))

Spec == Init /\ [][Next]_vars /\ Fairness

-----------------------------------------------------------------------------
(* Properties                                                              *)


\* Whatever the order of the reports: a subscription that is gone at the gateway
\* ends here ("If rebilling will NEVER be attempted again", it is cancelled).
GoneIsEnded == \A u \in Users : (Id(u) \notin gateway) ~> [](row[u] = "cancelled")

\* "Cancels the caller's active subscription": a user who keeps asking, as long
\* as a period is running, and is not always unlucky, is rid of the
\* subscription, or at least its period is over.
AskingCancels ==
    (\A u \in Reachable : SF_vars(Cancel(u)) /\ SF_vars(AskGateway(u))) =>
        \A u \in Reachable : (request[u] = "loaded") ~> (Id(u) \notin gateway \/ over[u])

\* "subscription cancelled successfully": whoever is told so is not charged again.
ToldIsNotCharged == [][\A u \in told : charges'[u] = charges[u]]_vars
=============================================================================
