----------------------------- MODULE MCCheckout -----------------------------
(***************************************************************************)
(* The checkout (Checkout) and the ledger of payments (Payments) for TLC.  *)
(* They share no state; the initial state picks the one that moves, and    *)
(* whether its requests come one at a time.                                *)
(***************************************************************************)
EXTENDS Checkout, TLC

CONSTANTS
    SerialUsers,          \* the users of the checkout that is serial
    ConcurrentProviders,  \* the accounts and tokens of the one that is not,
    ConcurrentTokens,
    ConcurrentVaults,     \* and its bound on the vaults
    Callers, Transactions, Amounts

VARIABLES payments, call
VARIABLE part  \* what moves

ledgerVars == <<payments, call>>

Ledger == INSTANCE Payments

ASSUME MCCheckoutAssumption ==
    Ledger!PaymentsAssumption /\ IsFiniteSet(Requests) /\ IsFiniteSet(Callers)

MCInit ==
    /\ Init /\ Ledger!Init
    /\ part \in {"checkout", "serial checkout", "ledger", "serial ledger"}

\* Two requests at once of any users, with one token of one account ...
Few ==
    /\ Len(vaults') <= ConcurrentVaults
    /\ \A r \in Requests :
          task'[r] # NoTask =>
              /\ task'[r].at \in ConcurrentProviders
              /\ task'[r].key.card \in ConcurrentTokens \cup VaultIds

\* ... or one request at a time and no fault, with more of them.
OneAtATime ==
    /\ Cardinality({r \in Requests : task'[r] # NoTask}) <= 1
    /\ \A r \in Requests : task'[r] # NoTask => task'[r].key.user \in SerialUsers
    /\ faults' = 0

MCNext ==
    /\ \/ part = "checkout" /\ Next /\ Few /\ UNCHANGED ledgerVars
       \/ part = "serial checkout" /\ Next /\ OneAtATime /\ UNCHANGED ledgerVars
       \/ part = "ledger" /\ Ledger!Next /\ UNCHANGED vars
       \/ /\ part = "serial ledger" /\ Ledger!Next
          /\ Cardinality({c \in Callers : call'[c] # Ledger!Idle}) <= 1
          /\ UNCHANGED vars
    /\ UNCHANGED part

MCSpec == MCInit /\ [][MCNext]_<<vars, ledgerVars, part>>

Symmetry == Permutations(Requests) \cup Permutations(Callers) \cup Permutations(Transactions)

-----------------------------------------------------------------------------
(* Properties                                                              *)

\* One request at a time and no faults: an active method has a vault.
SerialActiveHasVault == part = "serial checkout" => ActiveHasVault

\* One request at a time and no faults: what the gateway charges has a row once
\* the request is over.
SerialChargeHasRow == part = "serial checkout" => ChargeHasRow

\* With one caller at a time the refunds of a payment never exceed it.
RefundsFit == part = "serial ledger" => Ledger!TotalIsKept

-----------------------------------------------------------------------------
(* Not asked of the run: further properties that hold, and a claim TLC     *)
(* refutes                                                                 *)

\* Every variable has its type.
TypesOK == TypeOK /\ Ledger!TypeOK

\* However creations and refunds interleave, nobody refunds a refund, and no
\* single refund is larger than its payment (PaymentService.Refund).
RefundsArePayments == Ledger!RefundsArePayments

\* The refunds of a payment never exceed it, however many callers there are.
TotalIsKept == Ledger!TotalIsKept
=============================================================================
