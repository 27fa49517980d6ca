--------------------------- MODULE MCSaleDelivery ---------------------------
(***************************************************************************)
(* SaleDelivery for TLC, with a history variable: whether two deliveries   *)
(* have ever been worked on at once.  Of the events that are no part of    *)
(* the NMI signup, one is left out of each behaviour, which bounds the     *)
(* number of events under way together.                                    *)
(***************************************************************************)
EXTENDS SaleDelivery

VARIABLES overlapped, silent

MCInit ==
    /\ Init
    /\ overlapped = FALSE
    /\ silent \in ApiSales \cup Renewals

AtWork == {w \in Workers : task'[w] # Idle}

MCNext ==
    /\ Next
    /\ delivered'[silent] = 0
    /\ overlapped' = (overlapped \/ \E v, w \in AtWork : v # w)
    /\ UNCHANGED silent

MCSpec == MCInit /\ [][MCNext]_<<vars, overlapped, silent>> /\ Fairness

\* The deduplication keeps its promise as long as deliveries are worked on one
\* at a time and no statement fails: each event is worth one period at most.
SerialCreditedOnce == ~ overlapped /\ faults = 0 => CreditedOnce
=============================================================================
