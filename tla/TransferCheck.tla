--------------------------- MODULE TransferCheck ---------------------------
(***************************************************************************)
(* What VerifyTransactionWithContent looks for in a confirmed transaction: *)
(* the fee payer, the reference, the largest transfer to the merchant that *)
(* qualifies, and the balance of the account it went to.  The instructions *)
(* are scanned one by one, as findTransferMatch does, and the verdict is   *)
(* compared with what the transaction did to the merchant's balances.      *)
(***************************************************************************)
EXTENDS Integers, Sequences, FiniteSetsExt

CONSTANTS
    Amounts,          \* units an instruction may move, an intent may expect
    MaxInstructions   \* bound on the instructions of a transaction

TransferCheckAssumption ==
    Amounts \subseteq Nat /\ MaxInstructions \in Nat

Mints   == {"SOL", "USDC"}
Signers == {"wallet", "stranger"}

TokenAccounts == {"merchantSOL", "merchantUSDC", "strangerUSDC"}
Accounts      == TokenAccounts \cup {"merchant", "stranger"}

MintOf(account) == IF account = "merchantSOL" THEN "SOL" ELSE "USDC"

\* A token instruction that names an account of another mint fails on chain.
Instructions ==
    [program : {"system"}, from : Signers, to : Accounts, amount : Amounts]
    \cup [program : {"transfer", "checked"}, from : Signers, to : TokenAccounts,
          amount : Amounts]
    \cup {[program |-> "other", from |-> "wallet", to |-> "stranger", amount |-> 0]}

\* emptied: a program has moved the tokens of these accounts on.
Transactions ==
    [feePayer : Signers, keys : SUBSET {"reference"},
     instructions : UNION {[1..n -> Instructions] : n \in 0..MaxInstructions},
     emptied : {{}, {"merchantUSDC"}}]

NoPayer == "none"

\* payer: set for direct intents; reference: set for Solana Pay intents.
Expectations ==
    [mint : Mints, amount : Amounts, payer : {"wallet"}, reference : {FALSE}]
    \cup [mint : Mints, amount : Amounts, payer : {NoPayer}, reference : {TRUE}]

VARIABLES
    tx,         \* the transaction
    expected,   \* what the intent expects of it
    position,   \* the next instruction to look at
    match,      \* the best transfer so far, or none
    verdict

vars == <<tx, expected, position, match, verdict>>

NoMatch == [to |-> "nobody", amount |-> 0]

Verdicts == {"open", "scan", "accepted", "refused"}

TypeOK ==
    /\ expected \in Expectations
    /\ position \in 1..(MaxInstructions + 1)
    /\ match \in [to : Accounts, amount : Amounts] \cup {NoMatch}
    /\ verdict \in Verdicts

Init ==
    /\ tx \in Transactions
    /\ expected \in Expectations
    /\ position = 1
    /\ match = NoMatch
    /\ verdict = "open"

-----------------------------------------------------------------------------
(* The metadata of the transaction. *)

Moved(instructions, programs, account) ==
    LET Into == {k \in DOMAIN instructions : /\ instructions[k].program \in programs
                                             /\ instructions[k].to = account}
        Amount(k) == instructions[k].amount
    IN  MapThenSumSet(Amount, Into)

LamportDelta(account) == Moved(tx.instructions, {"system"}, account)

TokenDelta(account) ==
    IF account \in tx.emptied THEN 0
    ELSE Moved(tx.instructions, {"transfer", "checked"}, account)

MintForAccount(account) ==
    IF account \in TokenAccounts THEN MintOf(account) ELSE ""

-----------------------------------------------------------------------------
(* The check. *)

FeePayerMatches == expected.payer # NoPayer => tx.feePayer = expected.payer

MessageContainsKey == expected.reference => "reference" \in tx.keys

DeriveRecipientTokenAccount(mint) ==
    IF mint = "SOL" THEN "merchantSOL" ELSE "merchantUSDC"

RecipientCandidates == {"merchant", DeriveRecipientTokenAccount(expected.mint)}

\* SOL goes by its wrapped mint in token instructions.
MintMatches(mint) == mint = "" \/ mint = expected.mint

\* Faulty variant of EvaluateSystemTransfer: the amount has to be exceeded.
EvaluateMore(inst) ==
    /\ inst.program = "system"
    /\ expected.payer # NoPayer => inst.from = expected.payer
    /\ inst.to \in RecipientCandidates
    /\ inst.amount > expected.amount

EvaluateSystemTransfer(inst) ==
    /\ inst.program = "system"
    /\ expected.payer # NoPayer => inst.from = expected.payer
    /\ inst.to \in RecipientCandidates
    /\ inst.amount >= expected.amount

EvaluateTokenTransfer(inst) ==
    /\ inst.program = "transfer"
    /\ inst.to \in RecipientCandidates
    /\ expected.payer # NoPayer => inst.from = expected.payer
    /\ MintMatches(MintForAccount(inst.to))
    /\ inst.amount >= expected.amount

EvaluateTokenTransferChecked(inst) ==
    /\ inst.program = "checked"
    /\ inst.to \in RecipientCandidates
    /\ expected.payer # NoPayer => inst.from = expected.payer
    /\ MintMatches(MintOf(inst.to))
    /\ inst.amount >= expected.amount

\* Faulty variant of Qualifies: the amount of the instruction is not looked at.
QualifiesWhateverAmount(inst) ==
    inst.program # "other" /\ inst.to \in RecipientCandidates

Qualifies(inst) ==
    \/ EvaluateSystemTransfer(inst)
    \/ EvaluateTokenTransfer(inst)
    \/ EvaluateTokenTransferChecked(inst)

\* The first of the largest.
PickBetterMatch(inst) ==
    IF match = NoMatch \/ inst.amount > match.amount
    THEN [to |-> inst.to, amount |-> inst.amount] ELSE match

\* Lamports count for every account, tokens where there are any.
BalanceRose(m) ==
    \/ LamportDelta(m.to) >= expected.amount
    \/ m.to \in TokenAccounts /\ TokenDelta(m.to) >= expected.amount

ValidateTransactionContent ==
    /\ verdict = "open"
    /\ verdict' = IF FeePayerMatches /\ MessageContainsKey THEN "scan" ELSE "refused"
    /\ UNCHANGED <<tx, expected, position, match>>

FindTransferMatch ==
    /\ verdict = "scan" /\ position <= Len(tx.instructions)
    /\ position' = position + 1
    /\ match' = IF Qualifies(tx.instructions[position])
                THEN PickBetterMatch(tx.instructions[position]) ELSE match
    /\ UNCHANGED <<tx, expected, verdict>>

VerifyBalanceChanges ==
    /\ verdict = "scan" /\ position > Len(tx.instructions)
    /\ verdict' = IF match # NoMatch /\ BalanceRose(match) THEN "accepted" ELSE "refused"
    /\ UNCHANGED <<tx, expected, position, match>>

Next == ValidateTransactionContent \/ FindTransferMatch \/ VerifyBalanceChanges

Spec == Init /\ [][Next]_vars

-----------------------------------------------------------------------------
(* What BuildPaymentTransaction gives the user to sign: one transfer of the  *)
(* quote, in lamports to the merchant or in tokens to the merchant's account.*)

BuiltInstruction(mint, amount) ==
    [program |-> IF mint = "SOL" THEN "system" ELSE "transfer", from |-> "wallet",
     to |-> IF mint = "SOL" THEN "merchant" ELSE DeriveRecipientTokenAccount(mint),
     amount |-> amount]

Pays == \E amount \in Amounts :
            /\ amount >= expected.amount
            /\ \E k \in DOMAIN tx.instructions :
                   tx.instructions[k] = BuiltInstruction(expected.mint, amount)

(* Properties. *)

\* The forms a payment may take, and those of the mint the intent is priced in:
\* SOL is the native coin, or wrapped.
Form  == {"coin", "tokens"}
Forms == IF expected.mint = "SOL" THEN Form ELSE {"tokens"}

FormOf(inst) == IF inst.program = "system" THEN "coin" ELSE "tokens"

\* An account of the merchant's holds at least the expected units more than
\* before the transaction, in one of these forms.
Received(forms) ==
    \/ /\ "coin" \in forms
       /\ \E account \in RecipientCandidates : LamportDelta(account) >= expected.amount
    \/ /\ "tokens" \in forms
       /\ TokenDelta(DeriveRecipientTokenAccount(expected.mint)) >= expected.amount

\* One instruction transfers the amount to the merchant in one of these forms,
\* and comes from the payer where one is expected.
Transferred(forms) ==
    \E k \in DOMAIN tx.instructions :
        /\ tx.instructions[k].amount >= expected.amount
        /\ tx.instructions[k].to \in RecipientCandidates
        /\ expected.payer \in {NoPayer, tx.instructions[k].from}
        /\ FormOf(tx.instructions[k]) \in forms

\* What is accepted was paid: the merchant has received it, whatever else has
\* happened to its accounts, and by one transfer of the payer's; a stranger's
\* in the same transaction is no substitute, nor are two that only add up.  It
\* was paid in the mint of the intent, with one exception: as many units of the
\* native coin, which the balance check takes for any mint.
AcceptedWasPaid ==
    verdict = "accepted" =>
        \/ Received(Forms) /\ Transferred(Forms)
        \/ Received({"coin"}) /\ Transferred(Form)

\* Without the exception ("expectedTokenMint").
PaidInMint == verdict = "accepted" => Received(Forms) /\ Transferred(Forms)

\* A transaction that holds the transfer the server itself builds, from the
\* expected fee payer and with the reference, is accepted whatever comes with
\* it, unless a larger transfer won and its tokens are gone.
BuiltIsAccepted ==
    verdict = "refused" =>
        \/ ~Pays \/ tx.emptied # {}
        \/ ~FeePayerMatches \/ ~MessageContainsKey
=============================================================================
