------------------------- MODULE MCBillingHandlers -------------------------
(***************************************************************************)
(* BillingHandlers for TLC, with a history variable: whether two handlers  *)
(* have ever been at work at once.  A behaviour that keeps it FALSE is one *)
(* of the program with a single worker.                                    *)
(***************************************************************************)
EXTENDS BillingHandlers, TLC

VARIABLE overlapped

MCInit == Init /\ overlapped = FALSE

AtWork == {w \in Workers : task'[w] # Idle}

MCNext ==
    /\ Next
    /\ overlapped' = (overlapped \/ \E v, w \in AtWork : v # w)

MCSpec == MCInit /\ [][MCNext]_<<vars, overlapped>>

\* As long as no two handlers have run at once, a subscription that has ended
\* has no open window: cancellations, expirations, terminating refunds and
\* chargebacks end the windows that sales and renewals opened, in every order.
SerialEndHasNoWindow == ~ overlapped => EndedHasNoWindow

\* The ids of one processor are interchangeable, and so are the workers: rows
\* are told apart by their order, never by the id they carry.
Symmetry ==
    Permutations(CCBillIds) \cup Permutations(NMIIds) \cup Permutations(Workers)
=============================================================================
