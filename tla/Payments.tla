------------------------------- MODULE Payments -------------------------------
(***************************************************************************)
(* The ledger of payments: rows that are only ever added, with the         *)
(* processor's transaction unique among them, and refunds as rows with a   *)
(* negative amount that name the payment they refund.  A refund reads the  *)
(* payment, then what was refunded of it, then inserts, in statements of   *)
(* their own.                                                              *)
(***************************************************************************)
EXTENDS Integers, FiniteSetsExt

CONSTANTS
    Callers,      \* concurrent calls
    Transactions, \* transactions of the processor
    Amounts       \* amounts, in cents

NoPayment == "none"

PaymentsAssumption == Amounts \subseteq Nat \ {0} /\ NoPayment \notin Transactions

VARIABLES
    payments, \* the rows
    call      \* what each caller is doing

vars == <<payments, call>>

\* of: the transaction of the payment a refund belongs to.
Row == [txn : Transactions, amount : Int, of : Transactions \cup {NoPayment}]

Idle == [step |-> "idle"]

Call == {Idle}
    \cup [step : {"total"}, orig : payments, txn : Transactions, amount : Amounts]
    \cup [step : {"insert"}, row : Row]

TypeOK ==
    /\ payments \subseteq Row
    /\ \A p, q \in payments : p.txn = q.txn => p = q
    /\ \A c \in Callers : call[c] \in Call

Init ==
    /\ payments = {}
    /\ call = [c \in Callers |-> Idle]

-----------------------------------------------------------------------------

Go(c, k) == call' = [call EXCEPT ![c] = k]

RefundsOf(txn)     == {p \in payments : p.of = txn}
RefundTotal(txn)   == - MapThenSumSet(LAMBDA p : p.amount, RefundsOf(txn))

Create(c, txn, amount) ==
    /\ call[c] = Idle
    /\ Go(c, [step |-> "insert", row |-> [txn |-> txn, amount |-> amount, of |-> NoPayment]])
    /\ UNCHANGED payments

Refund(c, orig, txn, amount) ==
    /\ call[c] = Idle
    /\ Go(c, [step |-> "total", orig |-> orig, txn |-> txn, amount |-> amount])
    /\ UNCHANGED payments

\* Faulty variant of Fits: only the refund itself is looked at.
FitsAlone(orig, amount, total) == amount <= orig.amount

Fits(orig, amount, total) ==
    /\ amount <= orig.amount
    /\ total > 0 => amount + total <= orig.amount

Total(c) ==
    LET k == call[c] IN
    /\ k.step = "total"
    /\ Go(c, IF Fits(k.orig, k.amount, RefundTotal(k.orig.txn))
             THEN [step |-> "insert",
                   row  |-> [txn |-> k.txn, amount |-> - k.amount, of |-> k.orig.txn]]
             ELSE Idle)
    /\ UNCHANGED payments

\* The row is refused when there is one with its transaction.
Insert(c) ==
    LET k == call[c] IN
    /\ k.step = "insert"
    /\ Go(c, Idle)
    /\ payments' = IF \E p \in payments : p.txn = k.row.txn THEN payments
                   ELSE payments \cup {k.row}

Next ==
    \E c \in Callers :
        \/ \E t \in Transactions, a \in Amounts : Create(c, t, a)
        \/ \E p \in payments, t \in Transactions, a \in Amounts : Refund(c, p, t, a)
        \/ Total(c) \/ Insert(c)

Spec == Init /\ [][Next]_vars

-----------------------------------------------------------------------------
(* Properties                                                              *)

\* However creations and refunds interleave, nobody refunds a refund, and no
\* single refund is larger than its payment (PaymentService.Refund).
RefundsArePayments ==
    \A p \in payments : p.of # NoPayment =>
        \E q \in payments : q.txn = p.of /\ q.of = NoPayment /\ - p.amount <= q.amount

\* "refund total would exceed original payment" is refused.  With one caller at
\* a time it is; two may both have read the total before either inserts.
TotalIsKept ==
    \A p \in payments : p.of = NoPayment => RefundTotal(p.txn) <= p.amount
=============================================================================
