--------------------------- MODULE SolanaIntents ---------------------------
(***************************************************************************)
(* One-off purchases paid on Solana: payment intents, the transactions     *)
(* that pay them on chain, and the two request handlers that verify a      *)
(* transaction, confirm its intent and credit the user.  One user buys one *)
(* price any number of times.  The statements a handler runs outside a     *)
(* database transaction are steps of their own, so two requests for one    *)
(* intent interleave, and a client that goes away cancels the context of   *)
(* its request between any two of them.  What the chain check compares is  *)
(* in TransferCheck; here a transfer has an amount and the intent it names.*)
(***************************************************************************)
EXTENDS Integers, FiniteSets

CONSTANTS
    DirectIntents,   \* intents created by POST /v1/solana/generate
    PayIntents,      \* intents created by POST /v1/solana/qr
    Transfers,       \* transactions the user's wallet can sign
    Requests,        \* request handlers
    Quotes,          \* token amounts the price feed may answer
    Trouble          \* what may go wrong, see below

Intents == DirectIntents \cup PayIntents

Nothing == "none"

(***************************************************************************)
(* disconnect: a client leaves; rpc: the RPC node answers with an error;   *)
(* revert: a transfer fails on chain; subscribe: a subscription starts;    *)
(* unlink: the wallet is unlinked and linked; expire: intents expire;      *)
(* mixup: a transfer is submitted for an intent it was not made for;       *)
(* notice: the insert of a purchase's notification fails.                  *)
(***************************************************************************)
ASSUME SolanaIntentsAssumption ==
    /\ IsFiniteSet(Transfers) /\ IsFiniteSet(Requests)
    /\ Quotes \subseteq Nat
    /\ DirectIntents \cap PayIntents = {}
    /\ Nothing \notin Intents \cup Transfers
    /\ Trouble \subseteq {"disconnect", "rpc", "revert", "subscribe", "unlink",
                          "expire", "mixup", "notice"}

VARIABLES
    intent,       \* rows of billing.solana_payment_intents
    chain,        \* what has become of each transfer
    credited,     \* the intent each transfer has paid, if any
    rows,         \* billing.solana_transactions: signature by inserted row
    request,      \* what each handler is doing
    subscribed,   \* the user holds an indefinite premium window
    linked        \* the wallet is linked and verified

vars == <<intent, chain, credited, rows, request, subscribed, linked>>

\* asked: the amount put in the transaction or the QR code.
Intent == [status : {Nothing, "pending", "processing", "confirmed", "failed"},
           asked : Nat, expected : Nat,
           signature : Transfers \cup {Nothing}, expired : BOOLEAN]

\* slot: the order in which transfers reach the chain, 0 before they do.
Transfer == [state : {"unused", "signed", "sent", "landed", "reverted"},
             paid : Nat, for : Intents \cup {Nothing}, slot : Nat]

Phase == {"idle", "find", "send", "verify", "confirm", "credit", "fail", "record"}

Request == [phase : Phase, intent : Intents \cup {Nothing},
            transfer : Transfers \cup {Nothing}]

Idle == [phase |-> "idle", intent |-> Nothing, transfer |-> Nothing]

TypeOK ==
    /\ intent \in [Intents -> Intent]
    /\ chain \in [Transfers -> Transfer]
    /\ credited \in [Transfers -> Intents \cup {Nothing}]
    /\ rows \in [Transfers -> Transfers \cup {Nothing}]
    /\ request \in [Requests -> Request]
    /\ subscribed \in BOOLEAN /\ linked \in BOOLEAN

Init ==
    /\ intent = [i \in Intents |->
                    [status |-> Nothing, asked |-> 0, expected |-> 0,
                     signature |-> Nothing, expired |-> FALSE]]
    /\ chain = [t \in Transfers |->
                    [state |-> "unused", paid |-> 0, for |-> Nothing, slot |-> 0]]
    /\ credited = [t \in Transfers |-> Nothing]
    /\ rows = [t \in Transfers |-> Nothing]
    /\ request = [r \in Requests |-> Idle]
    /\ subscribed = FALSE
    /\ linked = TRUE

-----------------------------------------------------------------------------
(* The statements on an intent. *)

MarkProcessing(i) ==
    IF intent[i].status = "pending"
    THEN [intent EXCEPT ![i].status = "processing"] ELSE intent

MarkConfirmed(i, t) ==
    IF intent[i].status \in {"pending", "processing"}
    THEN [intent EXCEPT ![i].status = "confirmed", ![i].signature = t]
    ELSE intent

\* Faulty variant of MarkFailed: nothing is written.
MarkFailedNever(i) == intent

MarkFailed(i) == [intent EXCEPT ![i].status = "failed"]

Goto(r, phase) == request' = [request EXCEPT ![r].phase = phase]
Done(r)        == request' = [request EXCEPT ![r] = Idle]

-----------------------------------------------------------------------------
(* The user's wallet and the chain. *)

\* A price in tokens is the feed's answer at that moment.
CalculateTokenQuote == Quotes

CreateIntent(i, asked) ==
    \E expected \in CalculateTokenQuote :
        intent' = [intent EXCEPT ![i].status = "pending", ![i].asked = asked,
                                 ![i].expected = expected]

\* No one-off purchase next to a subscription.
MayPurchase(i) == intent[i].status = Nothing /\ ~subscribed

\* The transaction to sign is built from a quote of its own, after the intent.
BuildPaymentTransaction(i) == \E built \in CalculateTokenQuote : CreateIntent(i, built)

GeneratePayment(i) ==
    /\ linked
    /\ MayPurchase(i)
    /\ BuildPaymentTransaction(i)
    /\ UNCHANGED <<chain, credited, rows, request, subscribed, linked>>

\* The amount in the URL is the quote taken before the intent's.
GenerateSolanaPayQR(i) ==
    /\ MayPurchase(i)
    /\ \E shown \in CalculateTokenQuote : CreateIntent(i, shown)
    /\ UNCHANGED <<chain, credited, rows, request, subscribed, linked>>

Sign(t, i) ==
    /\ chain[t].state = "unused" /\ intent[i].status # Nothing
    /\ chain' = [chain EXCEPT ![t].state = "signed", ![t].for = i,
                              ![t].paid = intent[i].asked]
    /\ UNCHANGED <<intent, credited, rows, request, subscribed, linked>>

Broadcast(t) ==
    /\ chain[t].state = "signed"
    /\ chain' = [chain EXCEPT ![t].state = "sent"]
    /\ UNCHANGED <<intent, credited, rows, request, subscribed, linked>>

Land(t) ==
    /\ chain[t].state = "sent"
    /\ \E state \in {"landed"} \cup (IF "revert" \in Trouble THEN {"reverted"} ELSE {}) :
           chain' = [chain EXCEPT
                        ![t].state = state,
                        ![t].slot = 1 + Cardinality({u \in Transfers : chain[u].slot > 0})]
    /\ UNCHANGED <<intent, credited, rows, request, subscribed, linked>>

-----------------------------------------------------------------------------
(* POST /v1/solana/submit: the client names a direct intent and a transfer. *)

SubmitPayment(r, i, t) ==
    /\ request[r].phase = "idle"
    /\ chain[t].state # "unused"
    /\ chain[t].for = i \/ "mixup" \in Trouble
    /\ intent[i].status \in {"pending", "processing"}
    /\ ~intent[i].expired
    /\ intent' = MarkProcessing(i)
    /\ request' = IF linked
                  THEN [request EXCEPT ![r] = [phase |-> "send", intent |-> i, transfer |-> t]]
                  ELSE request
    /\ UNCHANGED <<chain, credited, rows, subscribed, linked>>

\* A transaction that cannot be broadcast is verified all the same.
SendTransaction(r) ==
    LET t == request[r].transfer IN
    /\ request[r].phase = "send"
    /\ \/ /\ chain[t].state = "signed"
          /\ chain' = [chain EXCEPT ![t].state = "sent"]
       \/ UNCHANGED chain
    /\ Goto(r, "verify")
    /\ UNCHANGED <<intent, credited, rows, subscribed, linked>>

-----------------------------------------------------------------------------
(* GET /v1/solana/check: the client polls for the reference of an intent. *)


\* An expired intent is marked by a statement of its own.
CheckSolanaPayment(r, i) ==
    /\ request[r].phase = "idle"
    /\ intent[i].status \notin {Nothing, "confirmed"}
    /\ intent' = IF intent[i].expired THEN intent ELSE MarkProcessing(i)
    /\ request' = [request EXCEPT ![r] =
                      [phase |-> IF intent[i].expired THEN "fail" ELSE "find",
                       intent |-> i, transfer |-> Nothing]]
    /\ UNCHANGED <<chain, credited, rows, subscribed, linked>>

\* Transactions that name the reference, failed ones included.
Referencing(i) == {t \in Transfers : chain[t].slot > 0 /\ chain[t].for = i}

Newest(i) == {t \in Referencing(i) : \A u \in Referencing(i) : chain[u].slot <= chain[t].slot}

GetSignaturesForAddress(r) ==
    LET i == request[r].intent IN
    /\ request[r].phase = "find"
    /\ \/ Referencing(i) = {} /\ Done(r)
       \/ \E t \in Newest(i) :
              request' = [request EXCEPT ![r].phase = "verify", ![r].transfer = t]
    /\ UNCHANGED <<intent, chain, credited, rows, subscribed, linked>>

-----------------------------------------------------------------------------
(* Both handlers, once they have a signature. *)

\* Faulty variant of Accepts: a transfer that the chain has reverted will do.
AcceptsReverted(t, i) ==
    /\ chain[t].state \in {"landed", "reverted"}
    /\ chain[t].paid >= intent[i].expected
    /\ i \in PayIntents => chain[t].for = i

\* The content is looked at only when the intent expects an amount.
Accepts(t, i) ==
    /\ chain[t].state = "landed"
    /\ intent[i].expected > 0 =>
          /\ chain[t].paid >= intent[i].expected
          /\ i \in PayIntents => chain[t].for = i

OnChain(t) == chain[t].state \in {"landed", "reverted"}

\* Waiting for a transaction that is not on chain outlasts the context of the
\* request, and the statement that would mark the intent failed with it.
VerifyTransactionWithContent(r) ==
    LET t == request[r].transfer
        i == request[r].intent
    IN
    /\ request[r].phase = "verify"
    /\ \/ Accepts(t, i) /\ Goto(r, "confirm")
       \/ OnChain(t) /\ (~Accepts(t, i) \/ "rpc" \in Trouble) /\ Goto(r, "fail")
       \/ ~OnChain(t) /\ Done(r)
    /\ UNCHANGED <<intent, chain, credited, rows, subscribed, linked>>

\* That the intent is in no state to be confirmed is only logged.
ConfirmIntent(r) ==
    /\ request[r].phase = "confirm"
    /\ intent' = MarkConfirmed(request[r].intent, request[r].transfer)
    /\ Goto(r, "credit")
    /\ UNCHANGED <<chain, credited, rows, subscribed, linked>>

ExistingRows == {u \in Transfers : rows[u] # Nothing}

\* Every row of the user with that amount gets the signature, and the unique
\* index on signatures refuses a second one.
MarkConfirmedByUserAndAmount(t) ==
    [u \in Transfers |-> IF u \in ExistingRows THEN t ELSE rows[u]]

SignatureClash == \E u, v \in ExistingRows : u # v

\* The transaction of SolanaPaymentService.Submit: the payment row, unique by
\* processor and transaction id, the days appended, the notifications, and the
\* statement above.  The failure of that statement, or of a notification's, is only
\* logged, yet the database has aborted the transaction; whether the commit then
\* reports it is the driver's choice.
Submit(r) ==
    LET t == request[r].transfer
        i == request[r].intent
    IN
    /\ request[r].phase = "credit"
    /\ \/ /\ subscribed \/ credited[t] # Nothing
          /\ Goto(r, "fail")
          /\ UNCHANGED <<credited, rows>>
       \/ /\ ~subscribed /\ credited[t] = Nothing /\ ~SignatureClash
          /\ credited' = [credited EXCEPT ![t] = i]
          /\ rows' = MarkConfirmedByUserAndAmount(t)
          /\ Goto(r, "record")
       \/ /\ ~subscribed /\ credited[t] = Nothing
          /\ SignatureClash \/ "notice" \in Trouble
          /\ Goto(r, "record") \/ Goto(r, "fail")
          /\ UNCHANGED <<credited, rows>>
    /\ UNCHANGED <<intent, chain, subscribed, linked>>

MarkIntentFailed(r) ==
    /\ request[r].phase = "fail"
    /\ intent' = MarkFailed(request[r].intent)
    /\ Done(r)
    /\ UNCHANGED <<chain, credited, rows, subscribed, linked>>

\* The row of the transfer; a signature that is there already is refused.
Recorded(t) ==
    IF \E u \in Transfers : rows[u] = t THEN rows ELSE [rows EXCEPT ![t] = t]

RecordTransaction(r) ==
    /\ request[r].phase = "record"
    /\ rows' = Recorded(request[r].transfer)
    /\ Done(r)
    /\ UNCHANGED <<intent, chain, credited, subscribed, linked>>

-----------------------------------------------------------------------------
(* What the handlers do not control. *)

Disconnect(r) ==
    /\ "disconnect" \in Trouble
    /\ request[r].phase # "idle"
    /\ Done(r)
    /\ UNCHANGED <<intent, chain, credited, rows, subscribed, linked>>

Expire(i) ==
    /\ "expire" \in Trouble
    /\ intent[i].status # Nothing /\ ~intent[i].expired
    /\ intent' = [intent EXCEPT ![i].expired = TRUE]
    /\ UNCHANGED <<chain, credited, rows, request, subscribed, linked>>

Subscribe ==
    /\ "subscribe" \in Trouble
    /\ ~subscribed
    /\ subscribed' = TRUE
    /\ UNCHANGED <<intent, chain, credited, rows, request, linked>>

LinkOrUnlink ==
    /\ "unlink" \in Trouble
    /\ linked' = ~linked
    /\ UNCHANGED <<intent, chain, credited, rows, request, subscribed>>

Handle(r) ==
    \/ SendTransaction(r)
    \/ GetSignaturesForAddress(r)
    \/ VerifyTransactionWithContent(r)
    \/ ConfirmIntent(r)
    \/ Submit(r)
    \/ MarkIntentFailed(r)
    \/ RecordTransaction(r)

Next ==
    \/ \E i \in DirectIntents : GeneratePayment(i)
    \/ \E i \in PayIntents : GenerateSolanaPayQR(i)
    \/ \E i \in Intents : Expire(i)
    \/ \E t \in Transfers, i \in Intents : Sign(t, i)
    \/ \E t \in Transfers : Broadcast(t) \/ Land(t)
    \/ \E r \in Requests, i \in DirectIntents, t \in Transfers : SubmitPayment(r, i, t)
    \/ \E r \in Requests, i \in PayIntents : CheckSolanaPayment(r, i)
    \/ \E r \in Requests : Handle(r) \/ Disconnect(r)
    \/ Subscribe \/ LinkOrUnlink

Spec == Init /\ [][Next]_vars

\* Handlers run to their end, sent transfers land, and clients submit and poll
\* until they are answered.
Fairness ==
    /\ \A t \in Transfers : WF_vars(Land(t))
    /\ \A r \in Requests : WF_vars(Handle(r))
    /\ \A i \in DirectIntents, t \in Transfers :
           SF_vars(\E r \in Requests : SubmitPayment(r, i, t))
    /\ \A i \in PayIntents : SF_vars(\E r \in Requests : CheckSolanaPayment(r, i))

FairSpec == Spec /\ Fairness

-----------------------------------------------------------------------------
(* Properties. *)

InProgress(i) == \E r \in Requests : request[r].intent = i

Paying(i) == {t \in Transfers : credited[t] = i}

\* Every credited purchase was paid for on chain in full, and a Solana Pay
\* intent by a transfer made for it: verification, confirmation and credit are
\* steps apart and other requests move the intent in between.
CreditedWasPaid ==
    \A t \in Transfers :
        credited[t] # Nothing =>
            /\ chain[t].state = "landed"
            /\ chain[t].paid >= intent[credited[t]].expected
            /\ credited[t] \in PayIntents => chain[t].for = credited[t]

\* Requests that race for an intent never replace the signature it was
\* confirmed with, nor confirm an intent that has failed
\* (solana_payment_intent.go: MarkConfirmed).
SignatureIsFinal ==
    [][\A i \in Intents :
         /\ intent[i].signature # Nothing =>
                intent'[i].signature = intent[i].signature
         /\ intent[i].status = "failed" => intent'[i].status = "failed"]_vars

\* An intent nobody works on is confirmed only if it was credited.
ConfirmedIsCredited ==
    \A i \in Intents :
        intent[i].status = "confirmed" /\ ~InProgress(i) => Paying(i) # {}

\* An intent that was credited, and that nobody works on, is confirmed.
CreditedIsConfirmed ==
    \A i \in Intents :
        Paying(i) # {} /\ ~InProgress(i) => intent[i].status = "confirmed"

\* What Submit has reported as recorded is there.
SubmittedIsCredited ==
    \A r \in Requests :
        request[r].phase = "record" => credited[request[r].transfer] # Nothing

\* The stored transactions are those that were credited, each once: later
\* purchases rewrite the signatures of earlier rows.  TLC refutes it with three
\* transfers: the row of a third purchase stays though its credit was rolled back.
RowsAreCredited ==
    \A u, v \in ExistingRows :
        /\ credited[rows[u]] # Nothing
        /\ rows[u] = rows[v] => u = v

\* A row keeps the signature of the transaction it was inserted for.
RowKeepsSignature == \A u \in ExistingRows : rows[u] = u

\* A transfer pays what the user was asked, so its amount is no ground to refuse it.
AskedAmountIsEnough ==
    \A t \in Transfers :
        chain[t].state = "landed" => chain[t].paid >= intent[chain[t].for].expected

\* A transfer the handlers would find pays the intent in full, and in time: if they
\* look it up, no other transaction that names the intent is newer; if the client
\* names it, none has failed the intent.
Due(i) ==
    /\ ~intent[i].expired
    /\ \E t \in Transfers :
          /\ chain[t].state = "landed" /\ chain[t].for = i
          /\ chain[t].paid >= intent[i].expected
          /\ IF i \in PayIntents THEN Newest(i) = {t} ELSE intent[i].status # "failed"


\* A Solana Pay transfer that has landed and pays in full is credited, unless its
\* intent was confirmed by another one ("If confirmed, the intent is processed and
\* the payment is recorded").  A newer transaction the chain has reverted hides it.
PaidIsCredited ==
    \A t \in Transfers, i \in PayIntents :
        /\ chain[t].state = "landed" /\ chain[t].for = i
        /\ chain[t].paid >= intent[i].expected
        ~> \/ credited[t] # Nothing
           \/ intent[i].status = "confirmed"
=============================================================================
