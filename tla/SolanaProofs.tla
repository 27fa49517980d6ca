---------------------------- MODULE SolanaProofs ----------------------------
(***************************************************************************)
(* Proofs about paying on Solana: the check of a transaction, the linking  *)
(* of wallets and the payment intents, for any number of users, wallets,   *)
(* intents, transfers, requests and instructions, and for any amounts.     *)
(***************************************************************************)
EXTENDS MCSolana, Sequences, FiniteSetTheorems, TLAPS

-----------------------------------------------------------------------------
(* Sums over a finite set: that one exists, that it is the same whatever    *)
(* set it is part of, and what an element adds to it.  The induction is     *)
(* over the subsets of the set, as inclusion of finite sets is well-founded.*)

\* The element a sum takes first.
First(s) == CHOOSE x \in s : TRUE

\* g sums the weights w over each of the subsets of T.
IsSum(g, w, T) ==
    g = [s \in SUBSET T |-> IF s = {} THEN 0 ELSE w[First(s)] + g[s \ {First(s)}]]

LEMMA FirstIsIn == \A s : s # {} => First(s) \in s
  BY DEF First

\* Among subsets of a finite set one is smallest: the induction of this section.
LEMMA Smallest ==
    ASSUME NEW S, IsFiniteSet(S), NEW B, B \subseteq SUBSET S, B # {}
    PROVE  \E T \in B : \A U \in B : U \subseteq T => U = T
<1>1. PICK W : W = FiniteSubsetsOf(S)
  OBVIOUS
<1>2. W = SUBSET S
  BY <1>1, FS_FiniteSubsetsOfFinite
<1>3. IsWellFoundedOn(StrictSubsetOrdering(S), W)
  BY <1>1, FS_StrictSubsetOrderingWellFounded
<1>4. PICK T \in B : \A U \in B : ~ (<<U, T>> \in StrictSubsetOrdering(S))
  BY <1>2, <1>3, WFMin
<1>5. ASSUME NEW U \in B, U \subseteq T, U # T
      PROVE  FALSE
  BY <1>4, <1>5 DEF StrictSubsetOrdering
<1> QED
  BY <1>4, <1>5

LEMMA SumStep ==
    ASSUME NEW T, NEW g, NEW w, IsSum(g, w, T), NEW s \in SUBSET T
    PROVE  /\ s = {} => g[s] = 0
           /\ s # {} => g[s] = w[First(s)] + g[s \ {First(s)}]
  BY DEF IsSum

\* The sum of a set does not depend on the set it is summed in.
LEMMA SumsAgree ==
    ASSUME NEW S, IsFiniteSet(S), NEW w, NEW V \in SUBSET S, NEW g, NEW h,
           IsSum(g, w, S), IsSum(h, w, V)
    PROVE  g[V] = h[V]
<1> SUFFICES ASSUME g[V] # h[V] PROVE FALSE
  OBVIOUS
<1>1. PICK D : D = {t \in SUBSET V : g[t] # h[t]}
  OBVIOUS
<1>2. PICK t \in D : \A u \in D : u \subseteq t => u = t
  <2>1. V \in D /\ D \subseteq SUBSET S
    BY <1>1
  <2> QED
    BY <2>1, Smallest
<1>3. t \in SUBSET S /\ t \in SUBSET V /\ g[t] # h[t]
  BY <1>1, <1>2
<1>4. PICK u : u = t \ {First(t)}
  OBVIOUS
<1>5. t # {} /\ g[u] # h[u]
  <2>1. /\ t = {} => g[t] = 0
        /\ t # {} => g[t] = w[First(t)] + g[u]
    BY <1>3, <1>4 DEF IsSum
  <2>2. /\ t = {} => h[t] = 0
        /\ t # {} => h[t] = w[First(t)] + h[u]
    BY <1>3, <1>4 DEF IsSum
  <2> QED
    BY <1>3, <2>1, <2>2
<1>6. u \in D /\ u # t
  BY <1>1, <1>3, <1>4, <1>5, FirstIsIn
<1> QED
  BY <1>2, <1>4, <1>6

LEMMA SumExists ==
    ASSUME NEW S, IsFiniteSet(S), NEW w
    PROVE  \E g : IsSum(g, w, S)
<1> SUFFICES ASSUME ~ \E g : IsSum(g, w, S) PROVE FALSE
  OBVIOUS
<1>1. PICK D : D = {t \in SUBSET S : ~ \E g : IsSum(g, w, t)}
  OBVIOUS
<1>2. PICK t \in D : \A u \in D : u \subseteq t => u = t
  <2>1. S \in D /\ D \subseteq SUBSET S
    BY <1>1
  <2> QED
    BY <2>1, Smallest
<1>3. PICK G : G = [u \in SUBSET t |-> CHOOSE g : IsSum(g, w, u)]
  OBVIOUS
<1>4. ASSUME NEW u \in SUBSET t, u # t
      PROVE  IsSum(G[u], w, u)
  <2>1. u \in SUBSET S /\ u \notin D
    BY <1>1, <1>2, <1>4
  <2>2. \E g : IsSum(g, w, u)
    BY <1>1, <2>1
  <2> QED
    BY <1>3, <2>2
<1>5. PICK h : h = [s \in SUBSET t |-> IF s = {} THEN 0
                                       ELSE w[First(s)] + G[s \ {First(s)}][s \ {First(s)}]]
  OBVIOUS
<1>6. ASSUME NEW u \in SUBSET t, u # t
      PROVE  h[u] = G[u][u]
  <2>1. PICK v : v = u \ {First(u)}
    OBVIOUS
  <2>2. v \in SUBSET t /\ v # t /\ v \subseteq u /\ v \in SUBSET S /\ u \in SUBSET S
    BY <1>1, <1>2, <1>6, <2>1
  <2>3. IsSum(G[u], w, u) /\ IsSum(G[v], w, v)
    BY <1>4, <1>6, <2>2
  <2>4. G[u][v] = G[v][v]
    <3>1. PICK g, k : g = G[u] /\ k = G[v] /\ IsSum(g, w, u) /\ IsSum(k, w, v)
      BY <2>3
    <3>2. IsFiniteSet(u) /\ v \in SUBSET u
      BY <2>2, FS_Subset
    <3>3. g[v] = k[v]
      BY <3>1, <3>2, SumsAgree
    <3> QED
      BY <3>1, <3>3
  <2>5. /\ u = {} => G[u][u] = 0
        /\ u # {} => G[u][u] = w[First(u)] + G[u][v]
    BY <2>1, <2>3, SumStep
  <2>6. CASE u = {}
    <3>1. h[u] = 0
      BY <1>5, <2>6
    <3> QED
      BY <2>5, <2>6, <3>1
  <2>7. CASE u # {}
    <3>1. h[u] = w[First(u)] + G[v][v]
      BY <1>5, <2>1, <2>7
    <3>2. G[u][u] = w[First(u)] + G[v][v]
      BY <2>4, <2>5, <2>7
    <3> QED
      BY <3>1, <3>2
  <2> QED
    BY <2>6, <2>7
<1>7. \A s \in SUBSET t : s # {} => G[s \ {First(s)}][s \ {First(s)}] = h[s \ {First(s)}]
  <2> SUFFICES ASSUME NEW s \in SUBSET t, s # {}
               PROVE  G[s \ {First(s)}][s \ {First(s)}] = h[s \ {First(s)}]
    OBVIOUS
  <2>1. s \ {First(s)} \in SUBSET t /\ s \ {First(s)} # t
    BY FirstIsIn
  <2> QED
    BY <1>6, <2>1
<1>8. IsSum(h, w, t)
  BY <1>5, <1>7 DEF IsSum
<1> QED
  BY <1>1, <1>2, <1>8

\* A sum of naturals is one, and at least each of them.
LEMMA SumAtLeast ==
    ASSUME NEW S, IsFiniteSet(S), NEW w, \A k \in S : w[k] \in Nat, NEW g, IsSum(g, w, S)
    PROVE  g[S] \in Nat /\ \A k \in S : g[S] >= w[k]
<1>1. PICK D : D = {t \in SUBSET S : ~ (g[t] \in Nat /\ \A k \in t : g[t] >= w[k])}
  OBVIOUS
<1>2. D = {}
  <2> SUFFICES ASSUME D # {} PROVE FALSE
    OBVIOUS
  <2>1. PICK t \in D : \A u \in D : u \subseteq t => u = t
    <3>1. D \subseteq SUBSET S
      BY <1>1
    <3> QED
      BY <3>1, Smallest
  <2>2. t \in SUBSET S /\ ~ (g[t] \in Nat /\ \A k \in t : g[t] >= w[k])
    BY <1>1, <2>1
  <2>3. PICK f, u : f = First(t) /\ u = t \ {f}
    OBVIOUS
  <2>4. t # {} /\ f \in t /\ u \in SUBSET S /\ u # t
    <3>1. t = {} => g[t] = 0
      BY <2>2 DEF IsSum
    <3> QED
      BY <2>2, <2>3, <3>1, FirstIsIn
  <2>5. g[t] = w[f] + g[u]
    BY <2>2, <2>3, <2>4 DEF IsSum
  <2>6. g[u] \in Nat /\ \A k \in u : g[u] >= w[k]
    BY <1>1, <2>1, <2>3, <2>4
  <2>7. w[f] \in Nat /\ \A k \in u : w[k] \in Nat
    BY <2>2, <2>3, <2>4
  <2>8. g[t] \in Nat /\ g[t] >= w[f] /\ \A k \in u : g[t] >= w[k]
    BY <2>5, <2>6, <2>7
  <2> QED
    BY <2>2, <2>3, <2>8
<1> QED
  BY <1>1, <1>2

-----------------------------------------------------------------------------
(* The check of a transaction                                              *)

\* The match is always a transfer of the transaction that qualifies, and it is
\* there once one that qualifies has been looked at; the verdict goes by it.
CheckInv ==
    part = "check" =>
        /\ match # Check!NoMatch =>
              \E k \in DOMAIN tx.instructions :
                  /\ Check!Qualifies(tx.instructions[k])
                  /\ match.to = tx.instructions[k].to
                  /\ match.amount = tx.instructions[k].amount
        /\ \A k \in DOMAIN tx.instructions :
              k < position /\ Check!Qualifies(tx.instructions[k]) => match # Check!NoMatch
        /\ verdict = "accepted" => match # Check!NoMatch /\ Check!BalanceRose(match)
        /\ verdict = "refused" =>
              \/ ~ Check!FeePayerMatches \/ ~ Check!MessageContainsKey
              \/ /\ position > Len(tx.instructions)
                 /\ match = Check!NoMatch \/ ~ Check!BalanceRose(match)
        /\ position \in Nat \ {0}
        /\ tx \in Check!Transactions
        /\ expected \in Check!Expectations

LEMMA QualifyingPays ==
    ASSUME NEW inst, Check!Qualifies(inst)
    PROVE  /\ inst.amount >= expected.amount
           /\ inst.to \in Check!RecipientCandidates
           /\ expected.payer \in {Check!NoPayer, inst.from}
  BY DEF Check!Qualifies, Check!EvaluateSystemTransfer, Check!EvaluateTokenTransfer,
         Check!EvaluateTokenTransferChecked

LEMMA InstructionsAre ==
    ASSUME tx \in Check!Transactions
    PROVE  /\ Len(tx.instructions) \in Nat
           /\ DOMAIN tx.instructions = 1..Len(tx.instructions)
           /\ \A k \in DOMAIN tx.instructions : tx.instructions[k] \in Check!Instructions
<1>1. PICK n \in 0..MaxInstructions : tx.instructions \in [1..n -> Check!Instructions]
  BY DEF Check!Transactions
<1>2. n \in Nat
  BY <1>1, SolanaAssumption DEF Check!TransferCheckAssumption
<1>3. tx.instructions \in Seq(Check!Instructions)
  BY <1>1, <1>2
<1> QED
  BY <1>3

LEMMA CheckBegins == MCInit => CheckInv
<1>1. Check!Init => CheckInv
  BY InstructionsAre DEF CheckInv, Check!Init
<1> QED
  BY <1>1 DEF MCInit, CheckInv

LEMMA SameTransaction ==
    ASSUME UNCHANGED <<tx, expected>>, NEW inst
    PROVE  /\ Check!Qualifies(inst)' <=> Check!Qualifies(inst)
           /\ Check!BalanceRose(inst)' <=> Check!BalanceRose(inst)
           /\ Check!FeePayerMatches' <=> Check!FeePayerMatches
           /\ Check!MessageContainsKey' <=> Check!MessageContainsKey
<1>1. Check!Qualifies(inst)' <=> Check!Qualifies(inst)
  BY DEF Check!Qualifies, Check!EvaluateSystemTransfer, Check!EvaluateTokenTransfer,
         Check!EvaluateTokenTransferChecked, Check!RecipientCandidates, Check!MintMatches
<1>2. Check!BalanceRose(inst)' <=> Check!BalanceRose(inst)
  BY DEF Check!BalanceRose, Check!LamportDelta, Check!TokenDelta
<1> QED
  BY <1>1, <1>2 DEF Check!FeePayerMatches, Check!MessageContainsKey

LEMMA CheckKeeps ==
    ASSUME CheckInv, [MCNext]_<<vars, walletVars, checkVars, part>>
    PROVE  CheckInv'
<1> SUFFICES ASSUME part = "check", part' = "check" PROVE CheckInv'
  BY DEF MCNext, CheckInv
<1>1. CASE UNCHANGED <<tx, expected, match, verdict, position>>
  BY <1>1, SameTransaction DEF CheckInv
<1>2. CASE Check!ValidateTransactionContent
  BY <1>2, SameTransaction DEF CheckInv, Check!ValidateTransactionContent
<1>3. CASE Check!FindTransferMatch
  <2>1. UNCHANGED <<tx, expected, verdict>> /\ verdict = "scan" /\ position' = position + 1
    BY <1>3 DEF Check!FindTransferMatch
  <2>2. position \in DOMAIN tx.instructions
    BY <1>3, InstructionsAre DEF CheckInv, Check!FindTransferMatch
  <2>3. CASE Check!Qualifies(tx.instructions[position])
    <3>1. \/ match' = match /\ match # Check!NoMatch
          \/ match' = [to |-> tx.instructions[position].to,
                       amount |-> tx.instructions[position].amount]
      BY <1>3, <2>3 DEF Check!FindTransferMatch, Check!PickBetterMatch
    <3>2. tx.instructions[position].to # "nobody"
      BY <2>3, QualifyingPays DEF Check!RecipientCandidates, Check!DeriveRecipientTokenAccount
    <3>3. match' # Check!NoMatch
      BY <3>1, <3>2 DEF Check!NoMatch
    <3> QED
      BY <2>1, <2>2, <2>3, <3>1, <3>3, SameTransaction DEF CheckInv
  <2>4. CASE ~ Check!Qualifies(tx.instructions[position])
    <3>1. match' = match
      BY <1>3, <2>4 DEF Check!FindTransferMatch
    <3>2. \A k \in DOMAIN tx.instructions :
             k < position' /\ Check!Qualifies(tx.instructions[k]) => k < position
      BY <2>1, <2>4, InstructionsAre DEF CheckInv
    <3> QED
      BY <2>1, <3>1, <3>2, SameTransaction DEF CheckInv
  <2> QED
    BY <2>3, <2>4
<1>4. CASE Check!VerifyBalanceChanges
  BY <1>4, SameTransaction DEF CheckInv, Check!VerifyBalanceChanges
<1> QED
  BY <1>1, <1>2, <1>3, <1>4 DEF MCNext, Check!Next, checkVars

\* A token transfer among the candidates goes to the merchant's account of the
\* mint, for the merchant itself is no token account.
LEMMA QualifyingForm ==
    ASSUME tx \in Check!Transactions, NEW k \in DOMAIN tx.instructions,
           Check!Qualifies(tx.instructions[k])
    PROVE  /\ Check!FormOf(tx.instructions[k]) \in Check!Form
           /\ Check!FormOf(tx.instructions[k]) = "tokens" =>
                 tx.instructions[k].to = Check!DeriveRecipientTokenAccount(expected.mint)
           /\ Check!FormOf(tx.instructions[k]) = "coin" =>
                 tx.instructions[k].program = "system"
<1>1. tx.instructions[k] \in Check!Instructions
  BY InstructionsAre
<1>2. tx.instructions[k].program # "system" => tx.instructions[k].to \in Check!TokenAccounts
  BY <1>1 DEF Check!Instructions, Check!Qualifies, Check!EvaluateSystemTransfer,
     Check!EvaluateTokenTransfer, Check!EvaluateTokenTransferChecked
<1>3. tx.instructions[k].to \in Check!RecipientCandidates
  BY QualifyingPays
<1> QED
  BY <1>2, <1>3 DEF Check!FormOf, Check!Form, Check!RecipientCandidates, Check!TokenAccounts

LEMMA AmountsAre ==
    /\ \A inst \in Check!Instructions :
           /\ inst.amount \in Nat
           /\ inst.program \in {"transfer", "checked"} => inst.to \in Check!TokenAccounts
    /\ expected \in Check!Expectations => expected.amount \in Nat
<1>1. Amounts \subseteq Nat
  BY SolanaAssumption DEF Check!TransferCheckAssumption
<1>2. ASSUME NEW inst \in Check!Instructions
      PROVE  /\ inst.amount \in Nat
             /\ inst.program \in {"transfer", "checked"} => inst.to \in Check!TokenAccounts
  <2>1. CASE inst \in [program : {"system"}, from : Check!Signers, to : Check!Accounts,
                       amount : Amounts]
    BY <1>1, <2>1
  <2>2. CASE inst \in [program : {"transfer", "checked"}, from : Check!Signers,
                       to : Check!TokenAccounts, amount : Amounts]
    BY <1>1, <2>2
  <2>3. CASE inst = [program |-> "other", from |-> "wallet", to |-> "stranger", amount |-> 0]
    BY <2>3
  <2> QED
    BY <1>2, <2>1, <2>2, <2>3 DEF Check!Instructions
<1>3. expected \in Check!Expectations => expected.amount \in Amounts
  BY DEF Check!Expectations
<1> QED
  BY <1>1, <1>2, <1>3

\* What an instruction of the transaction moves is part of what its account gains.
LEMMA MovedAtLeast ==
    ASSUME tx \in Check!Transactions, NEW programs, NEW account,
           NEW k \in DOMAIN tx.instructions,
           tx.instructions[k].program \in programs, tx.instructions[k].to = account
    PROVE  /\ Check!Moved(tx.instructions, programs, account) \in Nat
           /\ Check!Moved(tx.instructions, programs, account) >= tx.instructions[k].amount
<1>1. PICK f, S : /\ f = tx.instructions
                  /\ S = {j \in DOMAIN f : f[j].program \in programs /\ f[j].to = account}
  OBVIOUS
<1>2. PICK w : w = [j \in S |-> f[j].amount]
  OBVIOUS
<1>3. IsFiniteSet(S)
  <2>1. IsFiniteSet(1..Len(f))
    BY <1>1, InstructionsAre, FS_Interval
  <2> QED
    BY <1>1, <2>1, InstructionsAre, FS_Subset
<1>4. \A j \in S : w[j] \in Nat
  BY <1>1, <1>2, InstructionsAre, AmountsAre
<1>5. \A s \in SUBSET S : s # {} => w[First(s)] = f[First(s)].amount
  BY <1>2, FirstIsIn
<1>6. PICK h : h = CHOOSE iter : iter = [s \in SUBSET S |->
             IF s = {} THEN 0 ELSE f[First(s)].amount + iter[s \ {First(s)}]]
  OBVIOUS
<1>7. \E g : g = [s \in SUBSET S |-> IF s = {} THEN 0 ELSE f[First(s)].amount + g[s \ {First(s)}]]
  <2>1. PICK g : IsSum(g, w, S)
    BY <1>3, SumExists
  <2> QED
    BY <1>5, <2>1 DEF IsSum
<1>8. h = [s \in SUBSET S |-> IF s = {} THEN 0 ELSE f[First(s)].amount + h[s \ {First(s)}]]
  BY <1>6, <1>7
<1>9. IsSum(h, w, S)
  BY <1>5, <1>8 DEF IsSum
<1>10. Check!Moved(tx.instructions, programs, account) = h[S]
  BY <1>1, <1>6 DEF Check!Moved, Check!MapThenSumSet, Check!MapThenFoldSet, First
<1>11. k \in S /\ w[k] = f[k].amount
  BY <1>1, <1>2
<1> QED
  BY <1>1, <1>3, <1>4, <1>9, <1>10, <1>11, SumAtLeast

\* What the check accepts was paid for: one transfer of the transaction carries at
\* least the expected amount to the merchant, from the expected payer, and the
\* merchant's balance has risen by as much, whatever the other instructions are
\* and however many; both in the mint of the intent, or the balance has risen in the
\* native coin (solana_transaction.go, VerifyTransactionWithContent).
THEOREM CheckedWasPaid == MCSpec => []AcceptedWasPaid
<1>1. CheckInv => AcceptedWasPaid
  <2> SUFFICES ASSUME CheckInv, part = "check", verdict = "accepted"
               PROVE  \/ Check!Received(Check!Forms) /\ Check!Transferred(Check!Forms)
                      \/ Check!Received({"coin"}) /\ Check!Transferred(Check!Form)
    BY DEF AcceptedWasPaid, Check!AcceptedWasPaid
  <2>1. PICK k \in DOMAIN tx.instructions :
           /\ Check!Qualifies(tx.instructions[k])
           /\ match.to = tx.instructions[k].to
           /\ match.amount = tx.instructions[k].amount
    BY DEF CheckInv
  <2>2. Check!BalanceRose(match) /\ tx \in Check!Transactions /\ expected \in Check!Expectations
    BY DEF CheckInv
  <2>3. /\ tx.instructions[k].amount >= expected.amount
        /\ match.to \in Check!RecipientCandidates
        /\ expected.payer \in {Check!NoPayer, tx.instructions[k].from}
    BY <2>1, QualifyingPays
  <2>4. Check!Transferred(Check!Form)
    BY <2>1, <2>2, <2>3, QualifyingForm DEF Check!Transferred
  <2>5. CASE Check!LamportDelta(match.to) >= expected.amount
    BY <2>3, <2>4, <2>5 DEF Check!Received
  <2>6. CASE match.to \in Check!TokenAccounts /\ Check!TokenDelta(match.to) >= expected.amount
    <3>1. match.to = Check!DeriveRecipientTokenAccount(expected.mint)
      BY <2>3, <2>6 DEF Check!RecipientCandidates, Check!TokenAccounts
    <3>2. Check!Received(Check!Forms)
      BY <2>6, <3>1 DEF Check!Received, Check!Forms, Check!Form
    <3>3. CASE Check!FormOf(tx.instructions[k]) \in Check!Forms
      BY <2>1, <2>3, <3>2, <3>3 DEF Check!Transferred
    <3>4. CASE Check!FormOf(tx.instructions[k]) = "coin"
      <4>1. tx.instructions[k].program = "system"
        BY <2>1, <2>2, <3>4, QualifyingForm
      <4>2. /\ Check!LamportDelta(match.to) \in Nat
            /\ Check!LamportDelta(match.to) >= tx.instructions[k].amount
        BY <2>1, <2>2, <4>1, MovedAtLeast DEF Check!LamportDelta
      <4>3. tx.instructions[k].amount \in Nat /\ expected.amount \in Nat
        BY <2>2, InstructionsAre, AmountsAre
      <4> QED
        BY <2>3, <2>5, <4>2, <4>3
    <3> QED
      BY <2>1, <2>2, <3>3, <3>4, QualifyingForm DEF Check!Forms, Check!Form
  <2> QED
    BY <2>2, <2>5, <2>6 DEF Check!BalanceRose
<1> QED
  BY <1>1, CheckBegins, CheckKeeps, PTL DEF MCSpec

\* Where no tokens have moved on, the account of a transfer that qualifies is the
\* richer for it.
LEMMA QualifyingRises ==
    ASSUME tx \in Check!Transactions, expected \in Check!Expectations, tx.emptied = {},
           NEW k \in DOMAIN tx.instructions, Check!Qualifies(tx.instructions[k]),
           NEW m, m.to = tx.instructions[k].to
    PROVE  Check!BalanceRose(m)
<1>1. PICK inst \in Check!Instructions : inst = tx.instructions[k]
  BY InstructionsAre
<1>2. inst.amount \in Nat /\ expected.amount \in Nat
  BY <1>1, AmountsAre
<1>3. inst.amount >= expected.amount
  BY <1>1, QualifyingPays
<1>4. CASE inst.program = "system"
  <2>1. Check!LamportDelta(m.to) \in Nat /\ Check!LamportDelta(m.to) >= inst.amount
    BY <1>1, <1>4, MovedAtLeast DEF Check!LamportDelta
  <2>2. Check!LamportDelta(m.to) >= expected.amount
    BY <1>2, <1>3, <2>1
  <2> QED
    BY <2>2 DEF Check!BalanceRose
<1>5. CASE inst.program \in {"transfer", "checked"}
  <2>1. Check!TokenDelta(m.to) \in Nat /\ Check!TokenDelta(m.to) >= inst.amount
    BY <1>1, <1>5, MovedAtLeast DEF Check!TokenDelta
  <2>2. m.to \in Check!TokenAccounts
    BY <1>1, <1>5, AmountsAre
  <2>3. Check!TokenDelta(m.to) >= expected.amount
    BY <1>2, <1>3, <2>1
  <2> QED
    BY <2>2, <2>3 DEF Check!BalanceRose
<1> QED
  BY <1>1, <1>4, <1>5
     DEF Check!Qualifies, Check!EvaluateSystemTransfer, Check!EvaluateTokenTransfer,
         Check!EvaluateTokenTransferChecked

LEMMA BuiltQualifies ==
    ASSUME expected \in Check!Expectations, NEW amount \in Amounts, amount >= expected.amount
    PROVE  Check!Qualifies(Check!BuiltInstruction(expected.mint, amount))
<1>1. expected.payer \in {"wallet", Check!NoPayer} /\ expected.mint \in {"SOL", "USDC"}
  BY DEF Check!Expectations, Check!Mints
<1> QED
  BY <1>1
     DEF Check!Qualifies, Check!EvaluateSystemTransfer, Check!EvaluateTokenTransfer,
         Check!BuiltInstruction, Check!RecipientCandidates, Check!DeriveRecipientTokenAccount,
         Check!MintMatches, Check!MintForAccount, Check!MintOf, Check!TokenAccounts

\* A transaction that holds the transfer the server itself builds is accepted, with
\* whatever other instructions it holds and in whatever order, if the fee payer and
\* the reference are right and no tokens have moved on (solana_transaction.go,
\* findTransferMatch and verifyBalanceChanges).
THEOREM BuiltPasses == MCSpec => []BuiltIsAccepted
<1>1. CheckInv => BuiltIsAccepted
  <2> SUFFICES ASSUME CheckInv, part = "check", verdict = "refused", Check!Pays,
                      tx.emptied = {}, Check!FeePayerMatches, Check!MessageContainsKey
               PROVE  FALSE
    BY DEF BuiltIsAccepted, Check!BuiltIsAccepted
  <2>1. /\ position > Len(tx.instructions)
        /\ match = Check!NoMatch \/ ~ Check!BalanceRose(match)
        /\ position \in Nat /\ tx \in Check!Transactions /\ expected \in Check!Expectations
    BY DEF CheckInv
  <2>2. PICK k \in DOMAIN tx.instructions : Check!Qualifies(tx.instructions[k])
    BY <2>1, BuiltQualifies DEF Check!Pays
  <2>3. k < position
    BY <2>1, InstructionsAre
  <2>4. match # Check!NoMatch
    BY <2>2, <2>3 DEF CheckInv
  <2>5. PICK j \in DOMAIN tx.instructions :
           Check!Qualifies(tx.instructions[j]) /\ match.to = tx.instructions[j].to
    BY <2>4 DEF CheckInv
  <2> QED
    BY <2>1, <2>4, <2>5, QualifyingRises
<1> QED
  BY <1>1, CheckBegins, CheckKeeps, PTL DEF MCSpec

-----------------------------------------------------------------------------
(* Linking wallets                                                         *)

\* A request that will mark a wallet as verified.
Marking(q) ==
    \/ q.phase = "mark"
    \/ q.phase \in {"link", "insert"} /\ q.next = "mark"

\* It has seen a signature of its own account over a challenge for that address:
\* no signature is ever taken back, so it does not matter what other requests do
\* to the challenge and to the wallet meanwhile.
LinkInv ==
    /\ Linking!TypeOK
    /\ \A r \in Requests :
           Marking(walletRequest[r]) =>
               /\ walletRequest[r].nonce \in Linking!Nonces
               /\ <<walletRequest[r].user, walletRequest[r].address, walletRequest[r].nonce>>
                      \in signed
    /\ Linking!VerifiedWasSigned

LEMMA IdleLinking == Linking!IdleRequest \in Linking!Request /\ ~ Marking(Linking!IdleRequest)
  BY SolanaAssumption
     DEF Linking!SolanaWalletsAssumption, Linking!IdleRequest, Linking!Request,
         Linking!Phase, Marking

LEMMA LinkBegins == Linking!Init => LinkInv
  BY SolanaAssumption, IdleLinking
     DEF Linking!SolanaWalletsAssumption, Linking!Init, LinkInv, Linking!TypeOK,
         Linking!Wallet, Linking!Unlinked, Linking!Nonces, Linking!VerifiedWasSigned

\* A step of one request that leaves wallets and signatures alone.
LEMMA LinkStep ==
    ASSUME LinkInv, NEW r \in Requests, NEW q \in Linking!Request,
           walletRequest' = [walletRequest EXCEPT ![r] = q],
           Linking!TypeOK', signed \subseteq signed', Linking!VerifiedWasSigned',
           Marking(q) => q.nonce \in Linking!Nonces /\ <<q.user, q.address, q.nonce>> \in signed
    PROVE  LinkInv'
<1>1. ASSUME NEW s \in Requests, Marking(walletRequest'[s])
      PROVE  /\ walletRequest'[s].nonce \in Linking!Nonces
             /\ <<walletRequest'[s].user, walletRequest'[s].address, walletRequest'[s].nonce>>
                    \in signed'
  <2>1. CASE s = r
    BY <1>1, <2>1 DEF LinkInv, Linking!TypeOK
  <2>2. CASE s # r
    BY <1>1, <2>2 DEF LinkInv, Linking!TypeOK
  <2> QED
    BY <2>1, <2>2
<1> QED
  BY <1>1 DEF LinkInv, Marking, Linking!Nonces

LEMMA SignedStays ==
    ASSUME LinkInv, signed \subseteq signed', UNCHANGED wallets
    PROVE  Linking!VerifiedWasSigned'
  BY DEF LinkInv, Linking!VerifiedWasSigned, Linking!Nonces

\* A request goes on to a phase.
LEMMA GotoIs ==
    ASSUME Linking!TypeOK, NEW r \in Requests, NEW phase \in Linking!Phase, Linking!Goto(r, phase)
    PROVE  \E q \in Linking!Request :
               /\ walletRequest' = [walletRequest EXCEPT ![r] = q]
               /\ q.phase = phase
               /\ q.next = walletRequest[r].next
               /\ q.user = walletRequest[r].user
               /\ q.address = walletRequest[r].address
               /\ q.nonce = walletRequest[r].nonce
<1>1. PICK x \in Linking!Request : x = walletRequest[r]
  BY DEF Linking!TypeOK
<1>2. [x EXCEPT !.phase = phase] \in Linking!Request
  BY DEF Linking!Request
<1>3. /\ [x EXCEPT !.phase = phase].phase = phase
      /\ [x EXCEPT !.phase = phase].next = x.next
      /\ [x EXCEPT !.phase = phase].user = x.user
      /\ [x EXCEPT !.phase = phase].address = x.address
      /\ [x EXCEPT !.phase = phase].nonce = x.nonce
  BY DEF Linking!Request
<1> QED
  BY <1>1, <1>2, <1>3 DEF Linking!Goto

LEMMA LinkDone ==
    ASSUME LinkInv, NEW r \in Requests, Linking!Done(r),
           UNCHANGED <<wallets, expired, signed, generated, used>>,
           challenges' \in [Users -> [Addresses -> 0..MaxChallenges]]
    PROVE  LinkInv'
<1>1. walletRequest' = [walletRequest EXCEPT ![r] = Linking!IdleRequest]
  BY DEF Linking!Done
<1>2. Linking!TypeOK'
  BY <1>1, IdleLinking DEF LinkInv, Linking!TypeOK, Linking!Nonces
<1> QED
  BY <1>1, <1>2, IdleLinking, SignedStays, LinkStep

LEMMA ChallengeAsked ==
    ASSUME LinkInv, NEW r \in Requests, NEW u \in Users, NEW a \in Addresses,
           Linking!GenerateSolanaWalletChallenge(r, u, a)
    PROVE  LinkInv'
<1>1. PICK q : q = [phase |-> "link", next |-> "challenge", user |-> u, address |-> a, nonce |-> 0]
  OBVIOUS
<1>2. q \in Linking!Request /\ ~ Marking(q)
  BY <1>1, SolanaAssumption
     DEF Linking!SolanaWalletsAssumption, Linking!Request, Linking!Phase, Marking
<1>3. walletRequest' = [walletRequest EXCEPT ![r] = q]
  BY <1>1 DEF Linking!GenerateSolanaWalletChallenge
<1>4. Linking!TypeOK'
  BY <1>2, <1>3
     DEF Linking!GenerateSolanaWalletChallenge, LinkInv, Linking!TypeOK, Linking!Nonces
<1> QED
  BY <1>2, <1>3, <1>4, SignedStays, LinkStep DEF Linking!GenerateSolanaWalletChallenge

LEMMA SignatureVerified ==
    ASSUME LinkInv, NEW r \in Requests, NEW u \in Users, NEW a \in Addresses,
           Linking!VerifySignature(r, u, a)
    PROVE  LinkInv'
<1>1. PICK n \in Linking!Nonces : n = challenges[u][a]
  BY SolanaAssumption
     DEF Linking!SolanaWalletsAssumption, Linking!VerifySignature, LinkInv, Linking!TypeOK,
         Linking!Nonces
<1>2. challenges' \in [Users -> [Addresses -> 0..MaxChallenges]]
  BY SolanaAssumption
     DEF Linking!SolanaWalletsAssumption, Linking!VerifySignature, LinkInv, Linking!TypeOK
<1>3. CASE UNCHANGED walletRequest
  BY <1>2, <1>3, SignedStays
     DEF Linking!VerifySignature, LinkInv, Linking!TypeOK, Linking!Nonces, Marking
<1>4. CASE /\ Linking!SignatureMatches(u, a, n)
           /\ walletRequest' = [walletRequest EXCEPT
                                  ![r] = [phase |-> "link", next |-> "mark",
                                          user |-> u, address |-> a, nonce |-> n]]
  <2>1. PICK q : q = [phase |-> "link", next |-> "mark", user |-> u, address |-> a, nonce |-> n]
    OBVIOUS
  <2>2. q \in Linking!Request
    BY <1>1, <2>1, SolanaAssumption
       DEF Linking!SolanaWalletsAssumption, Linking!Request, Linking!Phase, Linking!Nonces
  <2>3. walletRequest' = [walletRequest EXCEPT ![r] = q]
    BY <1>4, <2>1
  <2>4. Linking!TypeOK'
    BY <1>2, <2>2, <2>3 DEF Linking!VerifySignature, LinkInv, Linking!TypeOK, Linking!Nonces
  <2>5. q.nonce \in Linking!Nonces /\ <<q.user, q.address, q.nonce>> \in signed
    BY <1>1, <1>4, <2>1 DEF Linking!SignatureMatches
  <2> QED
    BY <2>2, <2>3, <2>4, <2>5, SignedStays, LinkStep DEF Linking!VerifySignature
<1> QED
  BY <1>1, <1>3, <1>4 DEF Linking!VerifySignature

LEMMA LinkKeeps ==
    ASSUME LinkInv, NEW r \in Requests, Linking!Link(r)
    PROVE  LinkInv'
<1>1. PICK phase \in Linking!Phase :
         /\ Linking!Goto(r, phase)
         /\ phase = "insert" \/ phase = walletRequest[r].next
  BY DEF Linking!Link, LinkInv, Linking!TypeOK, Linking!Request, Linking!Phase
<1>2. PICK q \in Linking!Request :
         /\ walletRequest' = [walletRequest EXCEPT ![r] = q]
         /\ q.phase = phase
         /\ q.next = walletRequest[r].next
         /\ q.user = walletRequest[r].user
         /\ q.address = walletRequest[r].address
         /\ q.nonce = walletRequest[r].nonce
  BY <1>1, GotoIs DEF LinkInv
<1>3. Marking(q) => Marking(walletRequest[r])
  BY <1>1, <1>2 DEF Marking, Linking!Link
<1>4. Linking!TypeOK'
  BY <1>2 DEF Linking!Link, LinkInv, Linking!TypeOK, Linking!Nonces
<1> QED
  BY <1>2, <1>3, <1>4, SignedStays, LinkStep DEF Linking!Link, LinkInv

LEMMA InsertKeeps ==
    ASSUME LinkInv, NEW r \in Requests, Linking!Insert(r)
    PROVE  LinkInv'
<1>1. PICK a \in Addresses, u \in Users : a = walletRequest[r].address /\ u = walletRequest[r].user
  BY DEF LinkInv, Linking!TypeOK, Linking!Request
<1>2. PICK phase \in Linking!Phase :
         /\ Linking!Goto(r, phase)
         /\ phase = "refused" \/ phase = walletRequest[r].next
  BY DEF Linking!Insert, LinkInv, Linking!TypeOK, Linking!Request, Linking!Phase
<1>3. PICK q \in Linking!Request :
         /\ walletRequest' = [walletRequest EXCEPT ![r] = q]
         /\ q.phase = phase
         /\ q.next = walletRequest[r].next
         /\ q.user = walletRequest[r].user
         /\ q.address = walletRequest[r].address
         /\ q.nonce = walletRequest[r].nonce
  BY <1>2, GotoIs DEF LinkInv
<1>4. Marking(q) => Marking(walletRequest[r])
  BY <1>2, <1>3 DEF Marking, Linking!Insert
<1>5. \/ UNCHANGED wallets
      \/ wallets' = [wallets EXCEPT ![a] = [user |-> u, verified |-> FALSE]]
  BY <1>1 DEF Linking!Insert
<1>6. wallets' \in [Addresses -> Linking!Wallet]
  <2>1. [user |-> u, verified |-> FALSE] \in Linking!Wallet
    BY DEF Linking!Wallet
  <2> QED
    BY <1>5, <2>1 DEF LinkInv, Linking!TypeOK
<1>7. Linking!TypeOK'
  BY <1>3, <1>6 DEF Linking!Insert, LinkInv, Linking!TypeOK, Linking!Nonces
<1>8. Linking!VerifiedWasSigned'
  <2>1. UNCHANGED signed
    BY DEF Linking!Insert
  <2>2. ASSUME NEW x \in Addresses, wallets'[x].verified
        PROVE  wallets'[x] = wallets[x]
    BY <1>5, <2>2 DEF LinkInv, Linking!TypeOK
  <2> QED
    BY <2>1, <2>2 DEF LinkInv, Linking!VerifiedWasSigned, Linking!Nonces
<1> QED
  BY <1>3, <1>4, <1>7, <1>8, LinkStep DEF Linking!Insert, LinkInv

LEMMA ConsumeKeeps ==
    ASSUME LinkInv, NEW r \in Requests,
           Linking!Refuse(r) \/ Linking!ConsumeChallenge(r) \/ Linking!Disconnect(r)
    PROVE  LinkInv'
<1>1. walletRequest[r] \in Linking!Request
  BY DEF LinkInv, Linking!TypeOK
<1>2. challenges' \in [Users -> [Addresses -> 0..MaxChallenges]]
  BY <1>1, SolanaAssumption
     DEF Linking!SolanaWalletsAssumption, LinkInv, Linking!TypeOK, Linking!Request, Linking!Refuse,
         Linking!ConsumeChallenge, Linking!Disconnect, Linking!DeleteChallenge
<1> QED
  BY <1>2, LinkDone DEF Linking!Refuse, Linking!ConsumeChallenge, Linking!Disconnect

LEMMA UpsertKeeps ==
    ASSUME LinkInv, NEW r \in Requests, Linking!UpsertChallenge(r)
    PROVE  LinkInv'
<1>1. walletRequest' = [walletRequest EXCEPT ![r] = Linking!IdleRequest]
  BY DEF Linking!UpsertChallenge, Linking!Done
<1>2. generated' \in 0..MaxChallenges /\ generated + 1 \in 0..MaxChallenges
  BY SolanaAssumption
     DEF Linking!SolanaWalletsAssumption, Linking!UpsertChallenge, LinkInv, Linking!TypeOK
<1>3. challenges' \in [Users -> [Addresses -> 0..MaxChallenges]]
  BY <1>2 DEF Linking!UpsertChallenge, LinkInv, Linking!TypeOK, Linking!Request
<1>4. Linking!TypeOK'
  BY <1>1, <1>2, <1>3, IdleLinking DEF Linking!UpsertChallenge, LinkInv, Linking!TypeOK, Linking!Nonces
<1> QED
  BY <1>1, <1>4, IdleLinking, SignedStays, LinkStep DEF Linking!UpsertChallenge

\* The one step that verifies: the statement names the owner, so that what the
\* request has seen signed is what the row says now.
LEMMA MarkKeeps ==
    ASSUME LinkInv, NEW r \in Requests, Linking!MarkVerified(r)
    PROVE  LinkInv'
<1>1. PICK a \in Addresses, u \in Users, n \in 0..MaxChallenges :
         a = walletRequest[r].address /\ u = walletRequest[r].user /\ n = walletRequest[r].nonce
  BY DEF LinkInv, Linking!TypeOK, Linking!Request
<1>2. n \in Linking!Nonces /\ <<u, a, n>> \in signed
  BY <1>1 DEF LinkInv, Marking, Linking!MarkVerified
<1>3. CASE wallets[a].user = u
  <2>1. /\ wallets' = [wallets EXCEPT ![a].verified = TRUE]
        /\ used' = [used EXCEPT ![n] = Linking!Once(@)]
        /\ Linking!Goto(r, "consume")
        /\ UNCHANGED <<challenges, expired, signed, generated>>
    BY <1>1, <1>3 DEF Linking!MarkVerified
  <2>2. PICK q \in Linking!Request :
           walletRequest' = [walletRequest EXCEPT ![r] = q] /\ q.phase = "consume"
    <3>1. PICK phase \in Linking!Phase : phase = "consume"
      BY DEF Linking!Phase
    <3> QED
      BY <2>1, <3>1, GotoIs DEF LinkInv
  <2>3. /\ wallets' \in [Addresses -> Linking!Wallet]
        /\ \A x \in Addresses : wallets'[x].user = wallets[x].user
        /\ \A x \in Addresses : x # a => wallets'[x].verified = wallets[x].verified
    BY <2>1 DEF LinkInv, Linking!TypeOK, Linking!Wallet
  <2>4. used' \in [Linking!Nonces -> 0..2]
    <3>1. \A x : Linking!Once(x) \in 0..2
      BY DEF Linking!Once
    <3> QED
      BY <2>1, <3>1 DEF LinkInv, Linking!TypeOK
  <2>5. Linking!TypeOK'
    BY <2>1, <2>2, <2>3, <2>4 DEF LinkInv, Linking!TypeOK, Linking!Nonces
  <2>6. Linking!VerifiedWasSigned'
    <3> SUFFICES ASSUME NEW x \in Addresses, wallets'[x].verified
                 PROVE  \E m \in Linking!Nonces : <<wallets'[x].user, x, m>> \in signed'
      BY DEF Linking!VerifiedWasSigned, Linking!Nonces
    <3>1. CASE x = a
      BY <1>2, <1>3, <2>1, <2>3, <3>1
    <3>2. CASE x # a
      BY <2>1, <2>3, <3>2 DEF LinkInv, Linking!VerifiedWasSigned
    <3> QED
      BY <3>1, <3>2
  <2> QED
    BY <2>1, <2>2, <2>5, <2>6, LinkStep DEF Marking
<1>4. CASE wallets[a].user # u
  BY <1>1, <1>4, LinkDone DEF Linking!MarkVerified, LinkInv, Linking!TypeOK
<1> QED
  BY <1>3, <1>4

LEMMA OthersKeep ==
    ASSUME LinkInv,
           \/ \E u \in Users, a \in Addresses :
                  Linking!DeleteSolanaWallet(u, a) \/ Linking!SignMessage(u, a)
           \/ \E n \in Linking!Nonces : Linking!ChallengeExpires(n)
    PROVE  LinkInv'
<1>1. ASSUME NEW u \in Users, NEW a \in Addresses, Linking!DeleteSolanaWallet(u, a)
      PROVE  LinkInv'
  <2>1. wallets' = [wallets EXCEPT ![a] = Linking!Unlinked]
    BY <1>1 DEF Linking!DeleteSolanaWallet
  <2>2. wallets' \in [Addresses -> Linking!Wallet]
    <3>1. wallets \in [Addresses -> Linking!Wallet]
      BY DEF LinkInv, Linking!TypeOK
    <3>2. Linking!Unlinked \in Linking!Wallet
      BY DEF Linking!Wallet, Linking!Unlinked
    <3>3. PICK x \in Linking!Wallet : x = Linking!Unlinked
      BY <3>2
    <3>4. wallets' = [wallets EXCEPT ![a] = x]
      BY <2>1, <3>3
    <3> QED
      BY <3>1, <3>4
  <2>3. Linking!VerifiedWasSigned'
    <3> SUFFICES ASSUME NEW x \in Addresses, wallets'[x].verified
                 PROVE  \E m \in Linking!Nonces : <<wallets'[x].user, x, m>> \in signed'
      BY DEF Linking!VerifiedWasSigned, Linking!Nonces
    <3>1. x # a /\ wallets'[x] = wallets[x]
      BY <2>1 DEF LinkInv, Linking!TypeOK, Linking!Unlinked
    <3>2. signed' = signed
      BY <1>1 DEF Linking!DeleteSolanaWallet
    <3> QED
      BY <3>1, <3>2 DEF LinkInv, Linking!VerifiedWasSigned
  <2> QED
    BY <1>1, <2>2, <2>3
       DEF Linking!DeleteSolanaWallet, LinkInv, Linking!TypeOK, Linking!Nonces, Marking
<1>2. ASSUME NEW u \in Users, NEW a \in Addresses, Linking!SignMessage(u, a)
      PROVE  LinkInv'
  <2>1. challenges[u][a] \in Linking!Nonces
    BY <1>2, SolanaAssumption
       DEF Linking!SolanaWalletsAssumption, Linking!SignMessage, LinkInv, Linking!TypeOK,
           Linking!Nonces
  <2>2. signed' \subseteq Users \X Addresses \X Linking!Nonces /\ signed \subseteq signed'
    BY <1>2, <2>1 DEF Linking!SignMessage, LinkInv, Linking!TypeOK
  <2> QED
    BY <1>2, <2>2, SignedStays
       DEF Linking!SignMessage, LinkInv, Linking!TypeOK, Linking!Nonces, Marking
<1>3. ASSUME NEW n \in Linking!Nonces, Linking!ChallengeExpires(n)
      PROVE  LinkInv'
  BY <1>3, SignedStays
     DEF Linking!ChallengeExpires, LinkInv, Linking!TypeOK, Linking!Nonces, Marking
<1> QED
  BY <1>1, <1>2, <1>3

LEMMA LinkNext == LinkInv /\ [Linking!Next]_walletVars => LinkInv'
<1> SUFFICES ASSUME LinkInv, [Linking!Next]_walletVars PROVE LinkInv'
  OBVIOUS
<1>1. CASE UNCHANGED walletVars
  <2>1. Linking!TypeOK'
    BY <1>1 DEF walletVars, LinkInv, Linking!TypeOK, Linking!Nonces
  <2>2. Linking!VerifiedWasSigned'
    BY <1>1, SignedStays DEF walletVars
  <2>3. ASSUME NEW r \in Requests, Marking(walletRequest'[r])
        PROVE  /\ walletRequest'[r].nonce \in Linking!Nonces
               /\ <<walletRequest'[r].user, walletRequest'[r].address, walletRequest'[r].nonce>>
                      \in signed'
    BY <1>1, <2>3 DEF walletVars, LinkInv
  <2> QED
    BY <2>1, <2>2, <2>3 DEF LinkInv, Linking!Nonces, Marking
<1>2. CASE Linking!Next
  <2>1. ASSUME NEW r \in Requests, Linking!Handle(r) \/ Linking!Disconnect(r) PROVE LinkInv'
    BY <2>1, LinkKeeps, InsertKeeps, ConsumeKeeps, UpsertKeeps, MarkKeeps DEF Linking!Handle
  <2>2. ASSUME NEW r \in Requests, NEW u \in Users, NEW a \in Addresses,
               \/ Linking!GenerateSolanaWalletChallenge(r, u, a)
               \/ Linking!VerifySignature(r, u, a)
        PROVE  LinkInv'
    BY <2>2, ChallengeAsked, SignatureVerified
  <2> QED
    BY <1>2, <2>1, <2>2, OthersKeep DEF Linking!Next
<1> QED
  BY <1>1, <1>2

\* Requests that come one at a time are requests.
LEMMA SerialLinkingIsLinking == SerialLinking!Next => Linking!Next
<1>1. ASSUME NEW r \in Requests, NEW u \in Users, NEW a \in Addresses,
             \/ SerialLinking!GenerateSolanaWalletChallenge(r, u, a)
             \/ SerialLinking!VerifySignature(r, u, a)
      PROVE  Linking!GenerateSolanaWalletChallenge(r, u, a) \/ Linking!VerifySignature(r, u, a)
  BY <1>1 DEF SerialLinking!GenerateSolanaWalletChallenge, SerialLinking!VerifySignature,
     SerialLinking!SignatureMatches, Linking!GenerateSolanaWalletChallenge,
     Linking!VerifySignature, Linking!SignatureMatches
<1>2. SerialLinking!IdleRequest = Linking!IdleRequest
  BY DEF SerialLinking!IdleRequest, Linking!IdleRequest
<1>3. ASSUME NEW r \in Requests
      PROVE  /\ SerialLinking!Done(r) = Linking!Done(r)
             /\ \A phase : SerialLinking!Goto(r, phase) = Linking!Goto(r, phase)
  BY <1>2 DEF SerialLinking!Done, SerialLinking!Goto, Linking!Done, Linking!Goto
<1>4. ASSUME NEW r \in Requests
      PROVE  /\ SerialLinking!Link(r) => Linking!Link(r)
             /\ SerialLinking!Insert(r) => Linking!Insert(r)
             /\ SerialLinking!Refuse(r) => Linking!Refuse(r)
  BY <1>3 DEF SerialLinking!Link, SerialLinking!Insert, SerialLinking!Refuse,
     SerialLinking!MayInsert, SerialLinking!Nobody, Linking!Link, Linking!Insert,
     Linking!Refuse, Linking!MayInsert, Linking!Nobody
<1>5. ASSUME NEW r \in Requests
      PROVE  /\ SerialLinking!UpsertChallenge(r) => Linking!UpsertChallenge(r)
             /\ SerialLinking!MarkVerified(r) => Linking!MarkVerified(r)
             /\ SerialLinking!ConsumeChallenge(r) => Linking!ConsumeChallenge(r)
  BY <1>3 DEF SerialLinking!UpsertChallenge, SerialLinking!MarkVerified,
     SerialLinking!ConsumeChallenge, SerialLinking!DeleteChallenge, SerialLinking!Once,
     Linking!UpsertChallenge, Linking!MarkVerified, Linking!ConsumeChallenge,
     Linking!DeleteChallenge, Linking!Once
<1>6. ASSUME NEW r \in Requests, SerialLinking!Handle(r) \/ SerialLinking!Disconnect(r)
      PROVE  Linking!Handle(r)
  BY <1>4, <1>5, <1>6 DEF SerialLinking!Handle, SerialLinking!Disconnect, Linking!Handle
<1>7. ASSUME NEW u \in Users, NEW a \in Addresses,
             SerialLinking!DeleteSolanaWallet(u, a) \/ SerialLinking!SignMessage(u, a)
      PROVE  Linking!DeleteSolanaWallet(u, a) \/ Linking!SignMessage(u, a)
  BY <1>7 DEF SerialLinking!DeleteSolanaWallet, SerialLinking!SignMessage,
     SerialLinking!Unlinked, SerialLinking!Nobody, Linking!DeleteSolanaWallet,
     Linking!SignMessage, Linking!Unlinked, Linking!Nobody
<1>8. ASSUME NEW n \in SerialLinking!Nonces, SerialLinking!ChallengeExpires(n)
      PROVE  n \in Linking!Nonces /\ Linking!ChallengeExpires(n)
  BY <1>8 DEF SerialLinking!ChallengeExpires, SerialLinking!Nonces,
     Linking!ChallengeExpires, Linking!Nonces
<1> QED
  BY <1>1, <1>6, <1>7, <1>8 DEF SerialLinking!Next, Linking!Next

\* A wallet that is verified has been signed for with a challenge of the account
\* that owns it, in every interleaving of requests of any accounts, deletions, new
\* and expiring challenges, and clients that leave half way.
THEOREM VerifiedIsSigned == MCSpec => []VerifiedWasSigned
<1>1. MCInit => LinkInv
  BY LinkBegins DEF MCInit
<1>2. LinkInv /\ [MCNext]_<<vars, walletVars, checkVars, part>> => LinkInv'
  <2>1. [MCNext]_<<vars, walletVars, checkVars, part>> => [Linking!Next]_walletVars
    BY SerialLinkingIsLinking DEF MCNext, walletVars
  <2> QED
    BY <2>1, LinkNext
<1>3. LinkInv => VerifiedWasSigned
  BY DEF LinkInv, VerifiedWasSigned
<1> QED
  BY <1>1, <1>2, <1>3, PTL DEF MCSpec

\* A wallet never passes from one account to another: it is deleted first.
THEOREM NobodyTakesOver == Linking!Spec => NoTakeover
<1>1. LinkInv /\ [Linking!Next]_walletVars
        => [\A a \in Addresses :
               wallets[a].user # Linking!Nobody /\ wallets'[a].user # wallets[a].user =>
                   wallets'[a].user = Linking!Nobody]_walletVars
  <2> SUFFICES ASSUME LinkInv, Linking!Next, NEW a \in Addresses,
                      wallets[a].user # Linking!Nobody, wallets'[a].user # wallets[a].user
               PROVE  wallets'[a].user = Linking!Nobody
    BY DEF walletVars
  <2>1. ASSUME NEW r \in Requests, Linking!Insert(r) PROVE FALSE
    BY <2>1 DEF Linking!Insert, Linking!MayInsert, LinkInv, Linking!TypeOK
  <2>2. ASSUME NEW r \in Requests, Linking!MarkVerified(r) PROVE FALSE
    BY <2>2 DEF Linking!MarkVerified, LinkInv, Linking!TypeOK, Linking!Wallet
  <2>3. ASSUME NEW u \in Users, NEW b \in Addresses, Linking!DeleteSolanaWallet(u, b)
        PROVE  wallets'[a].user = Linking!Nobody
    BY <2>3 DEF Linking!DeleteSolanaWallet, Linking!Unlinked, LinkInv, Linking!TypeOK
  <2> QED
    BY <2>1, <2>2, <2>3 DEF Linking!Next, Linking!Handle, Linking!GenerateSolanaWalletChallenge,
       Linking!VerifySignature, Linking!Link, Linking!Refuse, Linking!UpsertChallenge,
       Linking!ConsumeChallenge, Linking!Disconnect, Linking!SignMessage,
       Linking!ChallengeExpires
<1> QED
  BY <1>1, LinkBegins, LinkNext, PTL DEF Linking!Spec, Linking!vars, walletVars, NoTakeover, Linking!NoTakeover

-----------------------------------------------------------------------------
(* Payment intents                                                         *)

Landed(t, i) == chain[t].state = "landed" /\ chain[t].paid >= intent[i].expected

\* What a handler relies on between two statements: its intent exists, its
\* transfer is signed, one that was looked up by its reference was made for the
\* intent, and the chain has answered before it confirms and credits.
Held(q) ==
    q.phase # "idle" =>
        /\ q.intent \in Intents /\ intent[q.intent].status # Nothing
        /\ q.phase = "find" => q.intent \in PayIntents
        /\ q.phase \notin {"find", "fail"} =>
              /\ q.transfer \in Transfers /\ chain[q.transfer].state # "unused"
              /\ q.intent \in PayIntents => chain[q.transfer].for = q.intent
        /\ q.phase \in {"confirm", "credit"} => Landed(q.transfer, q.intent)

\* A transfer on chain is signed; a signature is stored with a final status.
SlotIsSigned == \A t \in Transfers : chain[t].slot > 0 => chain[t].state # "unused"

SignatureSettles ==
    \A i \in Intents : intent[i].signature # Nothing => intent[i].status \in {"confirmed", "failed"}

CreditedIsKnown ==
    \A t \in Transfers : credited[t] # Nothing => intent[credited[t]].status # Nothing

IntentInv ==
    /\ TypeOK
    /\ \A r \in Requests : Held(request[r])
    /\ SlotIsSigned
    /\ SignatureSettles
    /\ CreditedIsKnown
    /\ CreditedWasPaid

\* What no step takes back, of any request or of the wallet: an intent that exists
\* keeps its price, a signed transfer its content, and a landed one stays.
Lasts ==
    /\ \A i \in Intents :
          intent[i].status # Nothing =>
              intent'[i].status # Nothing /\ intent'[i].expected = intent[i].expected
    /\ \A t \in Transfers :
          chain[t].state # "unused" =>
              /\ chain'[t].state # "unused"
              /\ chain'[t].for = chain[t].for /\ chain'[t].paid = chain[t].paid
    /\ \A t \in Transfers : chain[t].state = "landed" => chain'[t].state = "landed"

LEMMA IdleIsHeld == Idle \in Request /\ Held(Idle) /\ Held(Idle)'
  BY DEF Idle, Request, Phase, Held

LEMMA HeldLasts ==
    ASSUME NEW q, Held(q), Lasts
    PROVE  Held(q)'
<1>1. q.phase \in {"confirm", "credit"} => q.phase # "find" /\ q.phase # "idle"
  OBVIOUS
<1> QED
  BY <1>1 DEF Held, Lasts, Landed

LEMMA CreditLasts ==
    ASSUME IntentInv, Lasts, UNCHANGED credited
    PROVE  CreditedIsKnown' /\ CreditedWasPaid'
<1> SUFFICES ASSUME NEW t \in Transfers, credited[t] # Nothing
             PROVE  /\ intent'[credited[t]].status # Nothing
                    /\ chain'[t].state = "landed"
                    /\ chain'[t].paid >= intent'[credited[t]].expected
                    /\ credited[t] \in PayIntents => chain'[t].for = credited[t]
  BY DEF CreditedIsKnown, CreditedWasPaid
<1>1. /\ credited[t] \in Intents /\ intent[credited[t]].status # Nothing
      /\ chain[t].state = "landed" /\ chain[t].state # "unused"
      /\ chain[t].paid >= intent[credited[t]].expected
      /\ credited[t] \in PayIntents => chain[t].for = credited[t]
  BY DEF IntentInv, TypeOK, CreditedIsKnown, CreditedWasPaid
<1> QED
  BY <1>1 DEF Lasts

\* A step of the wallet or of the chain, and one that only writes an intent.
LEMMA WorldKeeps ==
    ASSUME IntentInv, TypeOK', Lasts, UNCHANGED <<credited, request>>,
           SlotIsSigned', SignatureSettles'
    PROVE  IntentInv'
<1>1. ASSUME NEW r \in Requests PROVE Held(request[r])'
  <2>1. PICK q : q = request[r]
    OBVIOUS
  <2>2. Held(q)'
    BY <2>1, HeldLasts DEF IntentInv
  <2> QED
    BY <2>1, <2>2 DEF Held
<1> QED
  BY <1>1, CreditLasts DEF IntentInv

\* A step of one request.
LEMMA RequestKeeps ==
    ASSUME IntentInv, TypeOK', Lasts, NEW r \in Requests, NEW q,
           request' = [request EXCEPT ![r] = q], Held(q)',
           SlotIsSigned', SignatureSettles', CreditedIsKnown', CreditedWasPaid'
    PROVE  IntentInv'
<1>1. ASSUME NEW s \in Requests PROVE Held(request[s])'
  <2>1. CASE s = r
    BY <2>1 DEF IntentInv, TypeOK, Held
  <2>2. CASE s # r
    <3>1. PICK p : p = request[s]
      OBVIOUS
    <3>2. Held(p)' /\ request'[s] = p
      BY <2>2, <3>1, HeldLasts DEF IntentInv, TypeOK
    <3> QED
      BY <3>2 DEF Held
  <2> QED
    BY <2>1, <2>2
<1> QED
  BY <1>1 DEF IntentInv

\* The statements on an intent, whatever its state.
LEMMA MarksLast ==
    ASSUME IntentInv, NEW i \in Intents, NEW t \in Transfers \cup {Nothing},
           intent[i].status # Nothing,
           intent' \in {MarkProcessing(i), MarkConfirmed(i, t), MarkFailed(i)},
           UNCHANGED chain
    PROVE  /\ intent' \in [Intents -> Intent]
           /\ Lasts /\ SlotIsSigned' /\ SignatureSettles'
           /\ \A j \in Intents : intent'[j].expected = intent[j].expected
<1>1. PICK x \in Intent : x = intent[i]
  BY DEF IntentInv, TypeOK
<1>2. PICK y :
         /\ intent' = [intent EXCEPT ![i] = y]
         /\ y \in Intent /\ y.status # Nothing /\ y.expected = x.expected
         /\ y.signature # Nothing => y.status \in {"confirmed", "failed"}
  <2>1. CASE intent' = intent
    BY <1>1, <2>1 DEF IntentInv, TypeOK, SignatureSettles
  <2>2. CASE intent' = [intent EXCEPT ![i].status = "processing"] /\ x.status = "pending"
    <3>1. PICK y : y = [x EXCEPT !.status = "processing"]
      OBVIOUS
    <3>2. /\ y \in Intent /\ y.status = "processing" /\ y.expected = x.expected
          /\ y.signature = x.signature
      BY <3>1 DEF Intent, Nothing
    <3>3. x.signature = Nothing
      BY <1>1, <2>2 DEF IntentInv, SignatureSettles
    <3> QED
      BY <1>1, <2>2, <3>1, <3>2, <3>3 DEF Nothing
  <2>3. CASE intent' = [intent EXCEPT ![i].status = "failed"]
    <3>1. PICK y : y = [x EXCEPT !.status = "failed"]
      OBVIOUS
    <3>2. y \in Intent /\ y.status = "failed" /\ y.expected = x.expected
      BY <3>1 DEF Intent, Nothing
    <3> QED
      BY <1>1, <2>3, <3>1, <3>2 DEF Nothing
  <2>4. CASE intent' = [intent EXCEPT ![i].status = "confirmed", ![i].signature = t]
    <3>1. PICK z : z = [x EXCEPT !.status = "confirmed"]
      OBVIOUS
    <3>2. PICK y : y = [z EXCEPT !.signature = t]
      OBVIOUS
    <3>3. z \in Intent /\ z.status = "confirmed" /\ z.expected = x.expected
      BY <3>1 DEF Intent, Nothing
    <3>4. y \in Intent /\ y.status = "confirmed" /\ y.expected = x.expected
      BY <3>2, <3>3 DEF Intent, Nothing
    <3>5. [intent EXCEPT ![i] = z][i] = z
      BY DEF IntentInv, TypeOK
    <3>6. intent' = [[intent EXCEPT ![i] = z] EXCEPT ![i] = y]
      BY <1>1, <2>4, <3>1, <3>2, <3>5
    <3>7. intent' = [intent EXCEPT ![i] = y]
      BY <3>6 DEF IntentInv, TypeOK
    <3> QED
      BY <3>4, <3>7 DEF Nothing
  <2> QED
    BY <1>1, <2>1, <2>2, <2>3, <2>4 DEF MarkProcessing, MarkConfirmed, MarkFailed
<1>3. /\ intent' \in [Intents -> Intent]
      /\ \A j \in Intents : intent'[j] = IF j = i THEN y ELSE intent[j]
  BY <1>2 DEF IntentInv, TypeOK
<1>4. Lasts /\ \A j \in Intents : intent'[j].expected = intent[j].expected
  BY <1>1, <1>2, <1>3 DEF Lasts
<1>5. SlotIsSigned' /\ SignatureSettles'
  BY <1>2, <1>3 DEF IntentInv, SlotIsSigned, SignatureSettles
<1> QED
  BY <1>3, <1>4, <1>5

LEMMA IntentsBegin == Init => IntentInv
<1> SUFFICES ASSUME Init PROVE IntentInv
  OBVIOUS
<1>1. TypeOK
  BY IdleIsHeld DEF Init, TypeOK, Intent, Transfer
<1>2. (\A r \in Requests : Held(request[r])) /\ SlotIsSigned /\ SignatureSettles
      /\ CreditedIsKnown /\ CreditedWasPaid
  BY IdleIsHeld DEF Init, SlotIsSigned, SignatureSettles, CreditedIsKnown, CreditedWasPaid
<1> QED
  BY <1>1, <1>2 DEF IntentInv

LEMMA CreateKeeps ==
    ASSUME IntentInv, NEW i \in Intents, NEW asked \in Nat, NEW price \in Nat,
           intent[i].status = Nothing,
           intent' = [intent EXCEPT ![i].status = "pending", ![i].asked = asked,
                                    ![i].expected = price],
           UNCHANGED <<chain, credited, rows, request, subscribed, linked>>
    PROVE  IntentInv'
<1>1. PICK x \in Intent : x = intent[i]
  BY DEF IntentInv, TypeOK
<1>2. PICK y : y = [x EXCEPT !.status = "pending"]
  OBVIOUS
<1>3. PICK z : z = [y EXCEPT !.asked = asked]
  OBVIOUS
<1>4. PICK c : c = [z EXCEPT !.expected = price]
  OBVIOUS
<1>5. y \in Intent /\ y.status = "pending" /\ y.signature = x.signature
  BY <1>2 DEF Intent, Nothing
<1>6. z \in Intent /\ z.status = "pending" /\ z.signature = x.signature
  BY <1>3, <1>5 DEF Intent, Nothing
<1>7. c \in Intent /\ c.status = "pending" /\ c.signature = x.signature
  BY <1>4, <1>6 DEF Intent, Nothing
<1>8. intent' = [intent EXCEPT ![i] = c]
  <2>1. [intent EXCEPT ![i] = y][i] = y
    BY DEF IntentInv, TypeOK
  <2>2. [[intent EXCEPT ![i] = y] EXCEPT ![i] = z][i] = z
    BY DEF IntentInv, TypeOK
  <2>3. intent' = [[[intent EXCEPT ![i] = y] EXCEPT ![i] = z] EXCEPT ![i] = c]
    BY <1>1, <1>2, <1>3, <1>4, <2>1, <2>2
  <2> QED
    BY <2>3 DEF IntentInv, TypeOK
<1>9. intent' \in [Intents -> Intent] /\ \A j \in Intents : intent'[j] = IF j = i THEN c ELSE intent[j]
  <2>1. intent \in [Intents -> Intent] /\ c \in Intent
    BY <1>7 DEF IntentInv, TypeOK
  <2> QED
    BY <1>8, <2>1
<1>10. TypeOK'
  BY <1>9 DEF IntentInv, TypeOK
<1>11. Lasts
  BY <1>9 DEF Lasts
<1>12. SlotIsSigned' /\ SignatureSettles'
  BY <1>1, <1>7, <1>9 DEF IntentInv, SlotIsSigned, SignatureSettles, Nothing
<1> QED
  BY <1>10, <1>11, <1>12, WorldKeeps

LEMMA QuoteKeeps ==
    ASSUME IntentInv, NEW i \in Intents, GeneratePayment(i) \/ GenerateSolanaPayQR(i)
    PROVE  IntentInv'
<1>1. PICK asked \in Nat, price \in Nat :
         intent' = [intent EXCEPT ![i].status = "pending", ![i].asked = asked,
                                  ![i].expected = price]
  BY SolanaIntentsAssumption
     DEF GeneratePayment, GenerateSolanaPayQR, BuildPaymentTransaction, CreateIntent,
         CalculateTokenQuote
<1>2. /\ intent[i].status = Nothing
      /\ UNCHANGED <<chain, credited, rows, request, subscribed, linked>>
  BY DEF GeneratePayment, GenerateSolanaPayQR, MayPurchase
<1> QED
  BY <1>1, <1>2, CreateKeeps

LEMMA ExpireKeeps ==
    ASSUME IntentInv, NEW i \in Intents, Expire(i)
    PROVE  IntentInv'
<1>1. PICK x \in Intent : x = intent[i]
  BY DEF IntentInv, TypeOK
<1>2. PICK y : y = [x EXCEPT !.expired = TRUE]
  OBVIOUS
<1>3. /\ y \in Intent /\ y.status = x.status /\ y.expected = x.expected
      /\ y.signature = x.signature
  BY <1>2 DEF Intent
<1>4. intent' = [intent EXCEPT ![i] = y]
  BY <1>1, <1>2 DEF Expire
<1>5. intent' \in [Intents -> Intent] /\ \A j \in Intents : intent'[j] = IF j = i THEN y ELSE intent[j]
  BY <1>3, <1>4 DEF IntentInv, TypeOK
<1>6. TypeOK'
  BY <1>5 DEF Expire, IntentInv, TypeOK
<1>7. Lasts
  BY <1>1, <1>3, <1>5 DEF Expire, Lasts
<1>8. SlotIsSigned' /\ SignatureSettles'
  BY <1>1, <1>3, <1>5 DEF Expire, IntentInv, SlotIsSigned, SignatureSettles
<1> QED
  BY <1>6, <1>7, <1>8, WorldKeeps DEF Expire

\* A transfer goes on: the chain is the only one to say it has landed.
LEMMA ChainGoes ==
    ASSUME IntentInv, NEW t \in Transfers, NEW c \in Transfer,
           chain' = [chain EXCEPT ![t] = c],
           c.state # "unused", chain[t].state # "landed",
           chain[t].state # "unused" => c.for = chain[t].for /\ c.paid = chain[t].paid,
           UNCHANGED intent
    PROVE  /\ chain' \in [Transfers -> Transfer]
           /\ Lasts /\ SlotIsSigned' /\ SignatureSettles'
<1>1. chain' \in [Transfers -> Transfer] /\ \A u \in Transfers : chain'[u] = IF u = t THEN c ELSE chain[u]
  BY DEF IntentInv, TypeOK
<1>2. Lasts
  BY <1>1 DEF Lasts
<1>3. SlotIsSigned' /\ SignatureSettles'
  BY <1>1 DEF IntentInv, SlotIsSigned, SignatureSettles
<1> QED
  BY <1>1, <1>2, <1>3

LEMMA SignKeeps ==
    ASSUME IntentInv, NEW t \in Transfers, NEW i \in Intents, Sign(t, i)
    PROVE  IntentInv'
<1>1. PICK x \in Transfer, n \in Nat : x = chain[t] /\ n = intent[i].asked
  BY DEF IntentInv, TypeOK, Intent
<1>2. PICK y : y = [x EXCEPT !.state = "signed"]
  OBVIOUS
<1>3. PICK z : z = [y EXCEPT !.for = i]
  OBVIOUS
<1>4. PICK c : c = [z EXCEPT !.paid = n]
  OBVIOUS
<1>5. y \in Transfer /\ y.state = "signed"
  BY <1>2 DEF Transfer
<1>6. z \in Transfer /\ z.state = "signed"
  BY <1>3, <1>5 DEF Transfer
<1>7. c \in Transfer /\ c.state = "signed"
  BY <1>4, <1>6 DEF Transfer
<1>8. chain' = [chain EXCEPT ![t] = c]
  <2>1. [chain EXCEPT ![t] = y][t] = y
    BY DEF IntentInv, TypeOK
  <2>2. [[chain EXCEPT ![t] = y] EXCEPT ![t] = z][t] = z
    BY DEF IntentInv, TypeOK
  <2>3. chain' = [[[chain EXCEPT ![t] = y] EXCEPT ![t] = z] EXCEPT ![t] = c]
    BY <1>1, <1>2, <1>3, <1>4, <2>1, <2>2 DEF Sign
  <2> QED
    BY <2>3 DEF IntentInv, TypeOK
<1>9. /\ chain' \in [Transfers -> Transfer]
      /\ Lasts /\ SlotIsSigned' /\ SignatureSettles'
  BY <1>1, <1>7, <1>8, ChainGoes DEF Sign
<1> QED
  BY <1>9, WorldKeeps DEF Sign, IntentInv, TypeOK

\* Sent by the wallet, or by the handler the user gave the transaction to.
LEMMA SentGoes ==
    ASSUME IntentInv, NEW t \in Transfers, chain[t].state = "signed",
           chain' = [chain EXCEPT ![t].state = "sent"], UNCHANGED intent
    PROVE  /\ chain' \in [Transfers -> Transfer]
           /\ Lasts /\ SlotIsSigned' /\ SignatureSettles'
<1>1. PICK x \in Transfer : x = chain[t]
  BY DEF IntentInv, TypeOK
<1>2. PICK c : c = [x EXCEPT !.state = "sent"]
  OBVIOUS
<1>3. c \in Transfer /\ c.state = "sent" /\ c.for = x.for /\ c.paid = x.paid
  BY <1>2 DEF Transfer
<1>4. chain' = [chain EXCEPT ![t] = c]
  BY <1>1, <1>2
<1> QED
  BY <1>1, <1>3, <1>4, ChainGoes

LEMMA BroadcastKeeps ==
    ASSUME IntentInv, NEW t \in Transfers, Broadcast(t)
    PROVE  IntentInv'
<1>1. /\ chain' \in [Transfers -> Transfer]
      /\ Lasts /\ SlotIsSigned' /\ SignatureSettles'
  BY SentGoes DEF Broadcast
<1> QED
  BY <1>1, WorldKeeps DEF Broadcast, IntentInv, TypeOK

LEMMA LandKeeps ==
    ASSUME IntentInv, NEW t \in Transfers, Land(t)
    PROVE  IntentInv'
<1>1. PICK x \in Transfer : x = chain[t]
  BY DEF IntentInv, TypeOK
<1>2. PICK n : n = 1 + Cardinality({u \in Transfers : chain[u].slot > 0})
  OBVIOUS
<1>3. n \in Nat
  <2>1. Cardinality({u \in Transfers : chain[u].slot > 0}) \in Nat
    BY SolanaIntentsAssumption, FS_Subset, FS_CardinalityType
  <2> QED
    BY <1>2, <2>1
<1>4. PICK state \in {"landed", "reverted"} :
         chain' = [chain EXCEPT ![t].state = state, ![t].slot = n]
  BY <1>2 DEF Land
<1>5. PICK y : y = [x EXCEPT !.state = state]
  OBVIOUS
<1>6. PICK c : c = [y EXCEPT !.slot = n]
  OBVIOUS
<1>7. y \in Transfer /\ y.state = state /\ y.for = x.for /\ y.paid = x.paid
  BY <1>5 DEF Transfer
<1>8. c \in Transfer /\ c.state = state /\ c.for = x.for /\ c.paid = x.paid
  BY <1>6, <1>7, <1>3 DEF Transfer
<1>9. chain' = [chain EXCEPT ![t] = c]
  <2>1. [chain EXCEPT ![t] = y][t] = y
    BY DEF IntentInv, TypeOK
  <2>2. chain' = [[chain EXCEPT ![t] = y] EXCEPT ![t] = c]
    BY <1>1, <1>4, <1>5, <1>6, <2>1
  <2> QED
    BY <2>2 DEF IntentInv, TypeOK
<1>10. /\ chain' \in [Transfers -> Transfer]
      /\ Lasts /\ SlotIsSigned' /\ SignatureSettles'
  BY <1>1, <1>8, <1>9, ChainGoes DEF Land
<1> QED
  BY <1>10, WorldKeeps DEF Land, IntentInv, TypeOK

-----------------------------------------------------------------------------
(* The handlers                                                            *)

LEMMA StepIs ==
    ASSUME IntentInv, NEW r \in Requests, NEW phase \in Phase, Goto(r, phase)
    PROVE  \E q \in Request :
               /\ request' = [request EXCEPT ![r] = q]
               /\ q.phase = phase
               /\ q.intent = request[r].intent
               /\ q.transfer = request[r].transfer
<1>1. PICK x \in Request : x = request[r]
  BY DEF IntentInv, TypeOK
<1>2. PICK q : q = [x EXCEPT !.phase = phase]
  OBVIOUS
<1>3. q \in Request /\ q.phase = phase /\ q.intent = x.intent /\ q.transfer = x.transfer
  BY <1>2 DEF Request
<1> QED
  BY <1>1, <1>2, <1>3 DEF Goto

\* A handler that has a transfer goes on with it.
LEMMA GotoKeeps ==
    ASSUME IntentInv, NEW r \in Requests, NEW phase \in Phase \ {"idle", "find"}, Goto(r, phase),
           request[r].phase \notin {"idle", "find", "fail"},
           Lasts, intent' \in [Intents -> Intent], chain' \in [Transfers -> Transfer],
           credited' \in [Transfers -> Intents \cup {Nothing}],
           rows' \in [Transfers -> Transfers \cup {Nothing}], UNCHANGED <<subscribed, linked>>,
           SlotIsSigned', SignatureSettles', CreditedIsKnown', CreditedWasPaid',
           NEW t, NEW i, t = request[r].transfer, i = request[r].intent,
           phase \in {"confirm", "credit"} => Landed(t, i)'
    PROVE  IntentInv'
<1>1. PICK q \in Request :
         /\ request' = [request EXCEPT ![r] = q]
         /\ q.phase = phase /\ q.intent = i /\ q.transfer = t
  BY StepIs
<1>2. Held(q)'
  <2>1. Held(request[r])
    BY DEF IntentInv
  <2> QED
    BY <1>1, <2>1 DEF Held, Lasts, Landed
<1>3. TypeOK'
  BY <1>1 DEF IntentInv, TypeOK
<1> QED
  BY <1>1, <1>2, <1>3, RequestKeeps

LEMMA DoneKeeps ==
    ASSUME IntentInv, NEW r \in Requests, Done(r),
           Lasts, intent' \in [Intents -> Intent], UNCHANGED <<chain, credited, subscribed, linked>>,
           rows' \in [Transfers -> Transfers \cup {Nothing}],
           SlotIsSigned', SignatureSettles'
    PROVE  IntentInv'
<1>1. request' = [request EXCEPT ![r] = Idle]
  BY DEF Done
<1>2. TypeOK'
  BY <1>1, IdleIsHeld DEF IntentInv, TypeOK
<1> QED
  BY <1>1, <1>2, IdleIsHeld, CreditLasts, RequestKeeps

\* Nothing but the request and the rows changes.
LEMMA StillLasts ==
    ASSUME IntentInv, UNCHANGED <<intent, chain>>
    PROVE  /\ Lasts /\ SlotIsSigned' /\ SignatureSettles'
           /\ intent' \in [Intents -> Intent] /\ chain' \in [Transfers -> Transfer]
  BY DEF IntentInv, TypeOK, Lasts, SlotIsSigned, SignatureSettles

LEMMA SubmitPaymentKeeps ==
    ASSUME IntentInv, NEW r \in Requests, NEW i \in DirectIntents, NEW t \in Transfers,
           SubmitPayment(r, i, t)
    PROVE  IntentInv'
<1>1. i \in Intents /\ i \notin PayIntents /\ intent[i].status # Nothing
  BY SolanaIntentsAssumption DEF Intents, SubmitPayment, Nothing
<1>2. /\ intent' \in [Intents -> Intent]
      /\ Lasts /\ SlotIsSigned' /\ SignatureSettles'
  BY <1>1, MarksLast DEF SubmitPayment
<1>3. CASE request' = request
  BY <1>2, <1>3, WorldKeeps DEF SubmitPayment, IntentInv, TypeOK
<1>4. CASE request' = [request EXCEPT ![r] = [phase |-> "send", intent |-> i, transfer |-> t]]
  <2>1. PICK q : q = [phase |-> "send", intent |-> i, transfer |-> t]
    OBVIOUS
  <2>2. q \in Request /\ q.phase = "send" /\ q.intent = i /\ q.transfer = t
    BY <1>1, <2>1 DEF Request, Phase
  <2>3. Held(q)'
    BY <1>1, <1>2, <2>2 DEF Held, Lasts, SubmitPayment
  <2>4. request' = [request EXCEPT ![r] = q]
    BY <1>4, <2>1
  <2>5. TypeOK'
    BY <1>2, <2>2, <2>4 DEF SubmitPayment, IntentInv, TypeOK
  <2> QED
    BY <1>2, <2>3, <2>4, <2>5, CreditLasts, RequestKeeps DEF SubmitPayment
<1> QED
  BY <1>3, <1>4 DEF SubmitPayment

LEMMA CheckPaymentKeeps ==
    ASSUME IntentInv, NEW r \in Requests, NEW i \in PayIntents, CheckSolanaPayment(r, i)
    PROVE  IntentInv'
<1>1. i \in Intents /\ intent[i].status # Nothing
  BY DEF Intents, CheckSolanaPayment
<1>2. /\ intent' \in [Intents -> Intent]
      /\ Lasts /\ SlotIsSigned' /\ SignatureSettles'
  <2>1. CASE intent' = MarkProcessing(i)
    BY <1>1, <2>1, MarksLast DEF CheckSolanaPayment
  <2>2. CASE UNCHANGED intent
    BY <2>2, StillLasts DEF CheckSolanaPayment
  <2> QED
    BY <2>1, <2>2 DEF CheckSolanaPayment
<1>3. PICK q :
         /\ q = [phase |-> IF intent[i].expired THEN "fail" ELSE "find",
                 intent |-> i, transfer |-> Nothing]
         /\ request' = [request EXCEPT ![r] = q]
  BY DEF CheckSolanaPayment
<1>4. q \in Request /\ q.phase \in {"find", "fail"} /\ q.intent = i
  BY <1>1, <1>3 DEF Request, Phase
<1>5. Held(q)'
  BY <1>1, <1>2, <1>4 DEF Held, Lasts
<1>6. TypeOK'
  BY <1>2, <1>3, <1>4 DEF CheckSolanaPayment, IntentInv, TypeOK
<1> QED
  BY <1>2, <1>3, <1>5, <1>6, CreditLasts, RequestKeeps DEF CheckSolanaPayment

\* The newest transfer that names the reference is looked at.
LEMMA FindKeeps ==
    ASSUME IntentInv, NEW r \in Requests, GetSignaturesForAddress(r)
    PROVE  IntentInv'
<1>1. /\ Lasts /\ SlotIsSigned' /\ SignatureSettles'
      /\ intent' \in [Intents -> Intent] /\ chain' \in [Transfers -> Transfer]
  BY StillLasts DEF GetSignaturesForAddress
<1>2. CASE Done(r)
  BY <1>1, <1>2, DoneKeeps DEF GetSignaturesForAddress, IntentInv, TypeOK
<1>3. ASSUME NEW t \in Newest(request[r].intent),
             request' = [request EXCEPT ![r].phase = "verify", ![r].transfer = t]
      PROVE  IntentInv'
  <2>1. PICK x \in Request : x = request[r]
    BY DEF IntentInv, TypeOK
  <2>2. /\ x.intent \in PayIntents /\ x.intent \in Intents /\ intent[x.intent].status # Nothing
        /\ t \in Transfers /\ chain[t].state # "unused" /\ chain[t].for = x.intent
    BY <2>1 DEF GetSignaturesForAddress, Newest, Referencing, IntentInv, Held, SlotIsSigned
  <2>3. PICK y : y = [x EXCEPT !.phase = "verify"]
    OBVIOUS
  <2>4. PICK q : q = [y EXCEPT !.transfer = t]
    OBVIOUS
  <2>5. y \in Request /\ y.phase = "verify" /\ y.intent = x.intent
    BY <2>3 DEF Request, Phase
  <2>6. q \in Request /\ q.phase = "verify" /\ q.intent = x.intent /\ q.transfer = t
    BY <2>2, <2>4, <2>5 DEF Request
  <2>7. request' = [request EXCEPT ![r] = q]
    <3>1. [request EXCEPT ![r] = y][r] = y
      BY DEF IntentInv, TypeOK
    <3>2. request' = [[request EXCEPT ![r] = y] EXCEPT ![r] = q]
      BY <1>3, <2>1, <2>3, <2>4, <3>1
    <3> QED
      BY <3>2 DEF IntentInv, TypeOK
  <2>8. Held(q)'
    BY <2>2, <2>6, <1>1 DEF Held, Lasts
  <2>9. TypeOK'
    BY <2>6, <2>7 DEF GetSignaturesForAddress, IntentInv, TypeOK
  <2> QED
    BY <1>1, <2>7, <2>8, <2>9, CreditLasts, RequestKeeps DEF GetSignaturesForAddress
<1> QED
  BY <1>2, <1>3 DEF GetSignaturesForAddress

LEMMA SendKeeps ==
    ASSUME IntentInv, NEW r \in Requests, SendTransaction(r)
    PROVE  IntentInv'
<1>1. PICK t \in Transfers, i \in Intents : t = request[r].transfer /\ i = request[r].intent
  BY DEF SendTransaction, IntentInv, Held
<1>2. /\ Lasts /\ SlotIsSigned' /\ SignatureSettles'
      /\ chain' \in [Transfers -> Transfer]
  <2>1. CASE chain[t].state = "signed" /\ chain' = [chain EXCEPT ![t].state = "sent"]
    BY <2>1, SentGoes DEF SendTransaction
  <2>2. CASE UNCHANGED chain
    BY <2>2, StillLasts DEF SendTransaction
  <2> QED
    BY <1>1, <2>1, <2>2 DEF SendTransaction
<1>3. CreditedIsKnown' /\ CreditedWasPaid'
  BY <1>2, CreditLasts DEF SendTransaction
<1> QED
  BY <1>1, <1>2, <1>3, GotoKeeps DEF SendTransaction, Phase, IntentInv, TypeOK

\* Only a landed transfer of the expected amount goes on to be confirmed.
LEMMA VerifyKeeps ==
    ASSUME IntentInv, NEW r \in Requests, VerifyTransactionWithContent(r)
    PROVE  IntentInv'
<1>1. PICK t \in Transfers, i \in Intents : t = request[r].transfer /\ i = request[r].intent
  BY DEF VerifyTransactionWithContent, IntentInv, Held
<1>2. /\ Lasts /\ SlotIsSigned' /\ SignatureSettles'
      /\ intent' \in [Intents -> Intent] /\ chain' \in [Transfers -> Transfer]
      /\ CreditedIsKnown' /\ CreditedWasPaid'
  BY StillLasts, CreditLasts DEF VerifyTransactionWithContent
<1>3. CASE Done(r)
  BY <1>2, <1>3, DoneKeeps DEF VerifyTransactionWithContent, IntentInv, TypeOK
<1>4. CASE Accepts(t, i) /\ Goto(r, "confirm")
  <2>1. Landed(t, i)'
    <3>1. chain[t].paid \in Nat /\ intent[i].expected \in Nat
      BY DEF IntentInv, TypeOK, Transfer, Intent
    <3>2. Landed(t, i)
      BY <1>4, <3>1 DEF Accepts, Landed
    <3> QED
      BY <3>2 DEF Landed, VerifyTransactionWithContent
  <2> QED
    BY <1>1, <1>2, <1>4, <2>1, GotoKeeps
       DEF VerifyTransactionWithContent, Phase, IntentInv, TypeOK
<1>5. CASE Goto(r, "fail")
  BY <1>1, <1>2, <1>5, GotoKeeps DEF VerifyTransactionWithContent, Phase, IntentInv, TypeOK
<1> QED
  BY <1>1, <1>3, <1>4, <1>5 DEF VerifyTransactionWithContent

LEMMA ConfirmKeeps ==
    ASSUME IntentInv, NEW r \in Requests, ConfirmIntent(r)
    PROVE  IntentInv'
<1>1. PICK t \in Transfers, i \in Intents : t = request[r].transfer /\ i = request[r].intent
  BY DEF ConfirmIntent, IntentInv, Held
<1>2. intent[i].status # Nothing /\ Landed(t, i) /\ intent' = MarkConfirmed(i, t)
  BY <1>1 DEF ConfirmIntent, IntentInv, Held
<1>3. /\ intent' \in [Intents -> Intent]
      /\ Lasts /\ SlotIsSigned' /\ SignatureSettles'
      /\ \A j \in Intents : intent'[j].expected = intent[j].expected
  BY <1>2, MarksLast DEF ConfirmIntent
<1>4. CreditedIsKnown' /\ CreditedWasPaid'
  BY <1>3, CreditLasts DEF ConfirmIntent
<1>5. Landed(t, i)'
  BY <1>2, <1>3 DEF ConfirmIntent, Landed
<1> QED
  BY <1>1, <1>3, <1>4, <1>5, GotoKeeps DEF ConfirmIntent, Phase, IntentInv, TypeOK

\* The one step that credits, of a handler the chain has answered.
LEMMA SubmitKeeps ==
    ASSUME IntentInv, NEW r \in Requests, Submit(r)
    PROVE  IntentInv'
<1>1. PICK t \in Transfers, i \in Intents : t = request[r].transfer /\ i = request[r].intent
  BY DEF Submit, IntentInv, Held
<1>2. /\ Lasts /\ SlotIsSigned' /\ SignatureSettles'
      /\ intent' \in [Intents -> Intent] /\ chain' \in [Transfers -> Transfer]
  BY StillLasts DEF Submit
<1>3. CASE UNCHANGED <<credited, rows>>
  <2>1. CreditedIsKnown' /\ CreditedWasPaid'
    BY <1>2, <1>3, CreditLasts
  <2>2. Goto(r, "fail") \/ Goto(r, "record")
    BY <1>3 DEF Submit
  <2> QED
    BY <1>1, <1>2, <1>3, <2>1, <2>2, GotoKeeps DEF Submit, Phase, IntentInv, TypeOK
<1>4. CASE /\ credited' = [credited EXCEPT ![t] = i]
           /\ rows' = MarkConfirmedByUserAndAmount(t)
           /\ Goto(r, "record")
  <2>1. /\ intent[i].status # Nothing /\ Landed(t, i)
        /\ i \in PayIntents => chain[t].for = i
    BY <1>1 DEF Submit, IntentInv, Held
  <2>2. credited' \in [Transfers -> Intents \cup {Nothing}]
    BY <1>4 DEF IntentInv, TypeOK
  <2>3. rows' \in [Transfers -> Transfers \cup {Nothing}]
    BY <1>4 DEF MarkConfirmedByUserAndAmount, IntentInv, TypeOK
  <2>4. CreditedIsKnown' /\ CreditedWasPaid'
    BY <1>4, <2>1 DEF Submit, IntentInv, TypeOK, CreditedIsKnown, CreditedWasPaid, Landed
  <2> QED
    BY <1>1, <1>2, <1>4, <2>2, <2>3, <2>4, GotoKeeps DEF Submit, Phase
<1> QED
  BY <1>1, <1>3, <1>4 DEF Submit

LEMMA FailedKeeps ==
    ASSUME IntentInv, NEW r \in Requests, MarkIntentFailed(r)
    PROVE  IntentInv'
<1>1. PICK i \in Intents : i = request[r].intent
  BY DEF MarkIntentFailed, IntentInv, Held
<1>2. intent[i].status # Nothing /\ intent' = MarkFailed(i)
  BY <1>1 DEF MarkIntentFailed, IntentInv, Held
<1>3. /\ intent' \in [Intents -> Intent]
      /\ Lasts /\ SlotIsSigned' /\ SignatureSettles'
  BY <1>2, MarksLast DEF MarkIntentFailed
<1> QED
  BY <1>3, DoneKeeps DEF MarkIntentFailed, IntentInv, TypeOK

LEMMA RecordKeeps ==
    ASSUME IntentInv, NEW r \in Requests, RecordTransaction(r)
    PROVE  IntentInv'
<1>1. PICK t \in Transfers : t = request[r].transfer
  BY DEF RecordTransaction, IntentInv, Held
<1>2. rows' \in [Transfers -> Transfers \cup {Nothing}]
  BY <1>1 DEF RecordTransaction, Recorded, IntentInv, TypeOK
<1>3. /\ Lasts /\ SlotIsSigned' /\ SignatureSettles'
      /\ intent' \in [Intents -> Intent]
  BY StillLasts DEF RecordTransaction
<1> QED
  BY <1>2, <1>3, DoneKeeps DEF RecordTransaction

LEMMA DisconnectKeeps ==
    ASSUME IntentInv, NEW r \in Requests, Disconnect(r)
    PROVE  IntentInv'
<1>1. /\ Lasts /\ SlotIsSigned' /\ SignatureSettles'
      /\ intent' \in [Intents -> Intent]
  BY StillLasts DEF Disconnect
<1> QED
  BY <1>1, DoneKeeps DEF Disconnect, IntentInv, TypeOK

LEMMA UserKeeps ==
    ASSUME IntentInv, Subscribe \/ LinkOrUnlink \/ UNCHANGED vars
    PROVE  IntentInv'
<1>1. UNCHANGED <<intent, chain, credited, rows, request>> /\ subscribed' \in BOOLEAN
      /\ linked' \in BOOLEAN
  BY DEF Subscribe, LinkOrUnlink, vars, IntentInv, TypeOK
<1>2. TypeOK'
  BY <1>1 DEF IntentInv, TypeOK
<1> QED
  BY <1>1, <1>2, StillLasts, WorldKeeps

LEMMA IntentNext == IntentInv /\ [Next]_vars => IntentInv'
<1> SUFFICES ASSUME IntentInv, [Next]_vars PROVE IntentInv'
  OBVIOUS
<1>1. DirectIntents \subseteq Intents /\ PayIntents \subseteq Intents
  BY DEF Intents
<1>2. ASSUME NEW r \in Requests, Handle(r) PROVE IntentInv'
  BY <1>2, FindKeeps, SendKeeps, VerifyKeeps, ConfirmKeeps, SubmitKeeps, FailedKeeps, RecordKeeps
     DEF Handle
<1> QED
  BY <1>1, <1>2, QuoteKeeps, ExpireKeeps, SignKeeps, BroadcastKeeps, LandKeeps,
     SubmitPaymentKeeps, CheckPaymentKeeps, DisconnectKeeps, UserKeeps DEF Next

\* Every purchase that was credited has been paid on chain in full, a Solana Pay
\* intent by a transfer made for it, whatever else happened between verification,
\* confirmation and credit: for any number of intents, transfers and requests, any
\* quotes, and everything that Trouble may hold (solana_payment.go, Submit).
THEOREM CreditIsPaid == Spec => []CreditedWasPaid
<1>1. IntentInv => CreditedWasPaid
  BY DEF IntentInv
<1> QED
  BY <1>1, IntentsBegin, IntentNext, PTL DEF Spec

\* Final(i): what a step may not do to an intent that is settled.
Final(i) ==
    /\ intent[i].signature # Nothing => intent'[i].signature = intent[i].signature
    /\ intent[i].status = "failed" => intent'[i].status = "failed"

LEMMA MarksAreFinal ==
    ASSUME IntentInv, NEW i \in Intents, NEW t,
           intent' \in {MarkProcessing(i), MarkConfirmed(i, t), MarkFailed(i)}
    PROVE  \A j \in Intents : Final(j)
<1> SUFFICES ASSUME NEW j \in Intents PROVE Final(j)
  OBVIOUS
<1>1. CASE intent'[j] = intent[j]
  BY <1>1 DEF Final
<1>2. CASE j = i /\ intent' = [intent EXCEPT ![i].status = "failed"]
  BY <1>2 DEF Final, IntentInv, TypeOK, Intent
<1>3. CASE j = i /\ intent[i].status \in {"pending", "processing"}
  BY <1>3 DEF Final, IntentInv, SignatureSettles
<1> QED
  BY <1>1, <1>2, <1>3 DEF MarkProcessing, MarkConfirmed, MarkFailed, IntentInv, TypeOK

LEMMA CreationIsFinal ==
    ASSUME IntentInv, NEW i \in Intents, NEW asked,
           intent[i].status = Nothing, CreateIntent(i, asked)
    PROVE  \A j \in Intents : Final(j)
<1> SUFFICES ASSUME NEW j \in Intents PROVE Final(j)
  OBVIOUS
<1>1. CASE j = i
  BY <1>1 DEF Final, IntentInv, SignatureSettles, Nothing
<1>2. CASE j # i
  BY <1>2 DEF Final, CreateIntent, IntentInv, TypeOK
<1> QED
  BY <1>1, <1>2

\* However many requests race for an intent, the signature it was confirmed with
\* is never replaced, and one that has failed stays so.
THEOREM SignaturesAreFinal == Spec => SignatureIsFinal
<1>1. IntentInv /\ [Next]_vars => [\A i \in Intents : Final(i)]_vars
  <2> SUFFICES ASSUME IntentInv, Next PROVE \A i \in Intents : Final(i)
    OBVIOUS
  <2>1. CASE UNCHANGED intent
    BY <2>1 DEF Final
  <2>2. ASSUME NEW i \in Intents, GeneratePayment(i) \/ GenerateSolanaPayQR(i)
        PROVE  \A j \in Intents : Final(j)
    BY <2>2, CreationIsFinal
       DEF GeneratePayment, GenerateSolanaPayQR, BuildPaymentTransaction, MayPurchase
  <2>3. ASSUME NEW i \in Intents, Expire(i) PROVE \A j \in Intents : Final(j)
    BY <2>3 DEF Expire, Final, IntentInv, TypeOK, Intent
  <2>4. ASSUME NEW r \in Requests, NEW i \in Intents, NEW t \in Transfers,
               SubmitPayment(r, i, t)
        PROVE  \A j \in Intents : Final(j)
    BY <2>4, MarksAreFinal DEF SubmitPayment
  <2>5. ASSUME NEW r \in Requests, NEW i \in Intents, CheckSolanaPayment(r, i)
        PROVE  \A j \in Intents : Final(j)
    <3>1. UNCHANGED intent \/ intent' = MarkProcessing(i)
      BY <2>5 DEF CheckSolanaPayment
    <3> QED
      BY <2>1, <3>1, MarksAreFinal
  <2>6. ASSUME NEW r \in Requests, ConfirmIntent(r) \/ MarkIntentFailed(r)
        PROVE  \A j \in Intents : Final(j)
    <3>1. PICK i \in Intents : i = request[r].intent
      BY <2>6 DEF ConfirmIntent, MarkIntentFailed, IntentInv, Held
    <3>2. PICK t : t = request[r].transfer
      OBVIOUS
    <3> QED
      BY <2>6, <3>1, <3>2, MarksAreFinal DEF ConfirmIntent, MarkIntentFailed
  <2>7. ASSUME NEW r \in Requests, Handle(r) PROVE \A j \in Intents : Final(j)
    BY <2>1, <2>6, <2>7
       DEF Handle, SendTransaction, GetSignaturesForAddress, VerifyTransactionWithContent, Submit,
           RecordTransaction
  <2>8. ASSUME NEW t \in Transfers, Broadcast(t) \/ Land(t) \/ \E i \in Intents : Sign(t, i)
        PROVE  UNCHANGED intent
    BY <2>8 DEF Sign, Broadcast, Land
  <2>9. ASSUME NEW r \in Requests, Disconnect(r) PROVE UNCHANGED intent
    BY <2>9 DEF Disconnect
  <2>10. DirectIntents \subseteq Intents /\ PayIntents \subseteq Intents
    BY DEF Intents
  <2>11. CASE Subscribe \/ LinkOrUnlink
    BY <2>1, <2>11 DEF Subscribe, LinkOrUnlink
  <2> QED
    BY <2>1, <2>2, <2>3, <2>4, <2>5, <2>7, <2>8, <2>9, <2>10, <2>11 DEF Next
<1>2. IntentInv /\ [Next]_vars =>
         [\A i \in Intents :
             /\ intent[i].signature # Nothing =>
                    intent'[i].signature = intent[i].signature
             /\ intent[i].status = "failed" => intent'[i].status = "failed"]_vars
  BY <1>1 DEF Final
<1>3. Spec => []IntentInv /\ [][Next]_vars
  BY IntentsBegin, IntentNext, PTL DEF Spec
<1>4. []IntentInv /\ [][Next]_vars => SignatureIsFinal
  BY <1>2, PTL DEF SignatureIsFinal
<1> QED
  BY <1>3, <1>4, PTL

-----------------------------------------------------------------------------
(* One request at a time                                                   *)

\* Requests that come one at a time take the same steps, from quotes and with
\* troubles of their own; this is what matters of them.
WorldStep ==
    /\ UNCHANGED <<credited, rows, request>>
    /\ \/ UNCHANGED intent
       \/ \E i \in Intents, asked \in Nat, price \in Nat :
              intent' = [intent EXCEPT ![i].status = "pending", ![i].asked = asked,
                                       ![i].expected = price]
       \/ \E i \in Intents : intent' = [intent EXCEPT ![i].expired = TRUE]

Begins(r, i, phase, t) ==
    /\ request[r].phase = "idle"
    /\ intent[i].status # "confirmed"
    /\ intent' \in {MarkProcessing(i), intent}
    /\ \/ UNCHANGED request
       \/ request' = [request EXCEPT ![r] = [phase |-> phase, intent |-> i, transfer |-> t]]
    /\ UNCHANGED <<credited, rows>>

Sends(r) ==
    /\ request[r].phase = "send" /\ Goto(r, "verify")
    /\ UNCHANGED <<intent, credited, rows>>

Verifies(r) ==
    /\ request[r].phase = "verify"
    /\ Goto(r, "confirm") \/ Goto(r, "fail") \/ Done(r)
    /\ UNCHANGED <<intent, credited, rows>>

Submits(r) ==
    LET t == request[r].transfer
        i == request[r].intent
    IN
    /\ request[r].phase = "credit"
    /\ \/ Goto(r, "fail") /\ UNCHANGED <<credited, rows>>
       \/ /\ credited[t] = Nothing
          /\ credited' = [credited EXCEPT ![t] = i]
          /\ rows' = MarkConfirmedByUserAndAmount(t)
          /\ Goto(r, "record")
       \/ SignatureClash
    /\ UNCHANGED intent

SerialStep ==
    \/ WorldStep
    \/ \E r \in Requests, i \in Intents :
           \/ \E t \in Transfers : Begins(r, i, "send", t)
           \/ \E phase \in {"find", "fail"} : Begins(r, i, phase, Nothing)
    \/ \E r \in Requests :
           \/ Sends(r) \/ GetSignaturesForAddress(r) \/ Verifies(r)
           \/ ConfirmIntent(r) \/ Submits(r) \/ MarkIntentFailed(r) \/ RecordTransaction(r)

LEMMA SerialWorld ==
    ASSUME \/ \E i \in Serial!Intents :
                  Serial!GeneratePayment(i) \/ Serial!GenerateSolanaPayQR(i) \/ Serial!Expire(i)
           \/ \E t \in Transfers, i \in Intents : Serial!Sign(t, i)
           \/ \E t \in Transfers : Serial!Broadcast(t) \/ Serial!Land(t)
           \/ Serial!Subscribe \/ Serial!LinkOrUnlink
    PROVE  WorldStep
<1>1. ASSUME NEW i \in Intents,
             Serial!GeneratePayment(i) \/ Serial!GenerateSolanaPayQR(i) PROVE WorldStep
  <2>1. PICK asked \in SerialQuotes, price \in SerialQuotes :
           intent' = [intent EXCEPT ![i].status = "pending", ![i].asked = asked,
                                    ![i].expected = price]
    BY <1>1 DEF Serial!GeneratePayment, Serial!GenerateSolanaPayQR, Serial!BuildPaymentTransaction,
       Serial!CreateIntent, Serial!CalculateTokenQuote
  <2>2. asked \in Nat /\ price \in Nat
    BY SolanaAssumption
  <2>3. UNCHANGED <<credited, rows, request>>
    BY <1>1 DEF Serial!GeneratePayment, Serial!GenerateSolanaPayQR
  <2> QED
    BY <2>1, <2>2, <2>3 DEF WorldStep
<1>2. ASSUME NEW i \in Intents, Serial!Expire(i) PROVE WorldStep
  BY <1>2 DEF Serial!Expire, WorldStep
<1>3. ASSUME NEW t \in Transfers, NEW i \in Intents, Serial!Sign(t, i) PROVE WorldStep
  <2>1. UNCHANGED <<intent, credited, rows, request>>
    BY <1>3 DEF Serial!Sign
  <2> QED
    BY <2>1 DEF WorldStep
<1>4. ASSUME NEW t \in Transfers, Serial!Broadcast(t) \/ Serial!Land(t) PROVE WorldStep
  <2>1. UNCHANGED <<intent, credited, rows, request>>
    BY <1>4 DEF Serial!Broadcast, Serial!Land
  <2> QED
    BY <2>1 DEF WorldStep
<1>5. CASE Serial!Subscribe \/ Serial!LinkOrUnlink
  BY <1>5 DEF Serial!Subscribe, Serial!LinkOrUnlink, WorldStep
<1> QED
  BY <1>1, <1>2, <1>3, <1>4, <1>5 DEF Serial!Intents, Intents

LEMMA SerialHandles ==
    ASSUME NEW r \in Requests, Serial!Handle(r) \/ Serial!Disconnect(r)
    PROVE  \/ Sends(r) \/ GetSignaturesForAddress(r) \/ Verifies(r)
           \/ ConfirmIntent(r) \/ Submits(r) \/ MarkIntentFailed(r) \/ RecordTransaction(r)
<1>1. Serial!Idle = Idle
  BY DEF Serial!Idle, Idle, Serial!Nothing, Nothing
<1>2. ~ Serial!Disconnect(r)
  BY SolanaAssumption DEF Serial!Disconnect
<1>3. Serial!SendTransaction(r) => Sends(r)
  BY DEF Serial!SendTransaction, Sends, Serial!Goto, Goto
<1>4. Serial!GetSignaturesForAddress(r) => GetSignaturesForAddress(r)
  BY <1>1 DEF Serial!GetSignaturesForAddress, GetSignaturesForAddress, Serial!Referencing, Referencing,
     Serial!Newest, Newest, Serial!Done, Done
<1>5. Serial!VerifyTransactionWithContent(r) => Verifies(r)
  BY <1>1 DEF Serial!VerifyTransactionWithContent, Verifies, Serial!Goto, Goto, Serial!Done, Done
<1>6. Serial!ConfirmIntent(r) => ConfirmIntent(r)
  BY DEF Serial!ConfirmIntent, ConfirmIntent, Serial!Goto, Goto, Serial!MarkConfirmed, MarkConfirmed
<1>7. Serial!Submit(r) => Submits(r)
  BY SolanaAssumption DEF Serial!Submit, Submits, Serial!Goto, Goto, Serial!SignatureClash, SignatureClash,
     Serial!ExistingRows, ExistingRows, Serial!Nothing, Nothing,
     Serial!MarkConfirmedByUserAndAmount, MarkConfirmedByUserAndAmount
<1>8. Serial!MarkIntentFailed(r) => MarkIntentFailed(r)
  BY <1>1 DEF Serial!MarkIntentFailed, MarkIntentFailed, Serial!Done, Done, Serial!MarkFailed, MarkFailed
<1>9. Serial!RecordTransaction(r) => RecordTransaction(r)
  BY <1>1 DEF Serial!RecordTransaction, RecordTransaction, Serial!Done, Done, Serial!Recorded, Recorded
<1> QED
  BY <1>2, <1>3, <1>4, <1>5, <1>6, <1>7, <1>8, <1>9 DEF Serial!Handle

LEMMA SerialBegins ==
    ASSUME NEW r \in Requests
    PROVE  /\ \A i \in DirectIntents, t \in Transfers :
                 Serial!SubmitPayment(r, i, t) => Begins(r, i, "send", t)
           /\ \A i \in PayIntents :
                 Serial!CheckSolanaPayment(r, i) =>
                     \E phase \in {"find", "fail"} : Begins(r, i, phase, Nothing)
<1>1. ASSUME NEW i \in DirectIntents, NEW t \in Transfers, Serial!SubmitPayment(r, i, t)
      PROVE  Begins(r, i, "send", t)
  BY <1>1 DEF Serial!SubmitPayment, Begins, Serial!MarkProcessing, MarkProcessing
<1>2. ASSUME NEW i \in PayIntents, Serial!CheckSolanaPayment(r, i)
      PROVE  \E phase \in {"find", "fail"} : Begins(r, i, phase, Nothing)
  BY <1>2 DEF Serial!CheckSolanaPayment, Begins, Serial!MarkProcessing, MarkProcessing,
     Serial!Nothing, Nothing
<1> QED
  BY <1>1, <1>2

LEMMA SerialSteps == Serial!Next => SerialStep
<1> SUFFICES ASSUME Serial!Next PROVE SerialStep
  OBVIOUS
<1>1. DirectIntents \subseteq Intents /\ PayIntents \subseteq Intents /\ Serial!Intents = Intents
  BY DEF Intents, Serial!Intents
<1> QED
  BY <1>1, SerialWorld, SerialHandles, SerialBegins DEF Serial!Next, SerialStep

\* The types this part of the proof needs; the chain has none to offer.
SerialTypes ==
    /\ intent \in [Intents -> Intent]
    /\ credited \in [Transfers -> Intents \cup {Nothing}]
    /\ rows \in [Transfers -> Transfers \cup {Nothing}]
    /\ request \in [Requests -> Request]
    /\ \A r \in Requests :
          /\ request[r].phase # "idle" => request[r].intent \in Intents
          /\ request[r].phase \notin {"idle", "find", "fail"} =>
                 request[r].transfer \in Transfers

OneAtWork == \A q, r \in Requests : request[q] # Idle /\ request[r] # Idle => q = r

\* There is one row at most: a purchase rewrites the row of the one before
\* instead of inserting its own.
OneRow == \A u, v \in ExistingRows : u = v

Reported(r) ==
    request[r].phase = "record" =>
        /\ credited[request[r].transfer] # Nothing
        /\ \A u \in ExistingRows : rows[u] = request[r].transfer

\* A confirmed intent is credited, or its handler is about to do so or to take
\* the confirmation back.
Answered(i) ==
    intent[i].status = "confirmed" =>
        \/ Paying(i) # {}
        \/ \E r \in Requests : request[r].intent = i /\ request[r].phase \in {"credit", "fail"}

SerialIntentInv ==
    part = "serial intents" =>
        /\ SerialTypes
        /\ OneAtWork
        /\ OneRow
        /\ \A r \in Requests : Reported(r)
        /\ \A i \in Intents : Answered(i)

LEMMA SerialIntentsBegin == MCInit => SerialIntentInv
<1> SUFFICES ASSUME MCInit PROVE SerialIntentInv
  OBVIOUS
<1>1. SerialTypes
  BY IdleIsHeld DEF MCInit, Init, SerialTypes, Intent, Idle
<1>2. OneAtWork /\ OneRow /\ (\A r \in Requests : Reported(r)) /\ (\A i \in Intents : Answered(i))
  BY DEF MCInit, Init, OneAtWork, OneRow, ExistingRows, Reported, Answered, Idle, Nothing
<1> QED
  BY <1>1, <1>2 DEF SerialIntentInv

\* What is asked of a step, where OneAtWork comes from the requests being serial.
SerialKept ==
    /\ SerialTypes'
    /\ OneRow'
    /\ (\A r \in Requests : Reported(r))'
    /\ (\A i \in Intents : Answered(i))'

SerialBefore ==
    /\ SerialTypes
    /\ OneAtWork
    /\ OneRow
    /\ \A r \in Requests : Reported(r)
    /\ \A i \in Intents : Answered(i)

LEMMA SerialWorldKeeps == ASSUME SerialBefore, WorldStep PROVE SerialKept
<1>1. /\ intent' \in [Intents -> Intent]
      /\ \A j \in Intents : intent'[j].status = "confirmed" => intent[j].status = "confirmed"
  <2>1. CASE UNCHANGED intent
    BY <2>1 DEF SerialBefore, SerialTypes
  <2>2. ASSUME NEW i \in Intents, NEW asked \in Nat, NEW price \in Nat,
               intent' = [intent EXCEPT ![i].status = "pending", ![i].asked = asked,
                                        ![i].expected = price]
        PROVE  /\ intent' \in [Intents -> Intent]
               /\ \A j \in Intents : intent'[j].status = "confirmed" => intent[j].status = "confirmed"
    <3>1. PICK x \in Intent : x = intent[i]
      BY DEF SerialBefore, SerialTypes
    <3>2. PICK y : y = [x EXCEPT !.status = "pending"]
      OBVIOUS
    <3>3. PICK z : z = [y EXCEPT !.asked = asked]
      OBVIOUS
    <3>4. PICK c : c = [z EXCEPT !.expected = price]
      OBVIOUS
    <3>5. y \in Intent /\ y.status = "pending"
      BY <3>2 DEF Intent
    <3>6. z \in Intent /\ z.status = "pending"
      BY <3>3, <3>5 DEF Intent
    <3>7. c \in Intent /\ c.status = "pending"
      BY <3>4, <3>6 DEF Intent
    <3>8. [intent EXCEPT ![i] = y][i] = y
      BY DEF SerialBefore, SerialTypes
    <3>9. [[intent EXCEPT ![i] = y] EXCEPT ![i] = z][i] = z
      BY DEF SerialBefore, SerialTypes
    <3>10. intent' = [[[intent EXCEPT ![i] = y] EXCEPT ![i] = z] EXCEPT ![i] = c]
      BY <2>2, <3>1, <3>2, <3>3, <3>4, <3>8, <3>9
    <3> QED
      BY <3>7, <3>10 DEF SerialBefore, SerialTypes
  <2>3. ASSUME NEW i \in Intents, intent' = [intent EXCEPT ![i].expired = TRUE]
        PROVE  /\ intent' \in [Intents -> Intent]
               /\ \A j \in Intents : intent'[j].status = "confirmed" => intent[j].status = "confirmed"
    <3>1. PICK x \in Intent : x = intent[i]
      BY DEF SerialBefore, SerialTypes
    <3>2. PICK y : y = [x EXCEPT !.expired = TRUE]
      OBVIOUS
    <3>3. y \in Intent /\ y.status = x.status
      BY <3>2 DEF Intent
    <3>4. intent' = [intent EXCEPT ![i] = y]
      BY <2>3, <3>1, <3>2
    <3> QED
      BY <3>1, <3>3, <3>4 DEF SerialBefore, SerialTypes
  <2> QED
    BY <2>1, <2>2, <2>3 DEF WorldStep
<1>2. UNCHANGED <<credited, rows, request>>
  BY DEF WorldStep
<1>3. SerialTypes'
  BY <1>1, <1>2 DEF SerialBefore, SerialTypes
<1>4. OneRow' /\ (\A r \in Requests : Reported(r))'
  BY <1>2 DEF SerialBefore, OneRow, ExistingRows, Reported
<1>5. (\A i \in Intents : Answered(i))'
  BY <1>1, <1>2 DEF SerialBefore, Answered, Paying
<1> QED
  BY <1>3, <1>4, <1>5 DEF SerialKept

\* What the statements do to the status of an intent.
LEMMA StatusAfter ==
    ASSUME SerialTypes, NEW i \in Intents, NEW t \in Transfers \cup {Nothing},
           intent' \in {MarkProcessing(i), MarkConfirmed(i, t), MarkFailed(i)}
    PROVE  /\ intent' \in [Intents -> Intent]
           /\ \A j \in Intents : j # i => intent'[j] = intent[j]
           /\ intent' = MarkFailed(i) => intent'[i].status = "failed"
           /\ intent' = MarkProcessing(i) /\ intent[i].status # "confirmed"
                => intent'[i].status # "confirmed"
<1>1. PICK x \in Intent : x = intent[i]
  BY DEF SerialTypes
<1>2. PICK y \in Intent : intent' = [intent EXCEPT ![i] = y]
  <2>1. CASE intent' = intent
    BY <1>1, <2>1 DEF SerialTypes
  <2>2. CASE intent' = [intent EXCEPT ![i].status = "processing"]
    <3>1. [x EXCEPT !.status = "processing"] \in Intent
      BY DEF Intent
    <3> QED
      BY <1>1, <2>2, <3>1
  <2>3. CASE intent' = [intent EXCEPT ![i].status = "failed"]
    <3>1. [x EXCEPT !.status = "failed"] \in Intent
      BY DEF Intent
    <3> QED
      BY <1>1, <2>3, <3>1
  <2>4. CASE intent' = [intent EXCEPT ![i].status = "confirmed", ![i].signature = t]
    <3>1. PICK z : z = [x EXCEPT !.status = "confirmed"]
      OBVIOUS
    <3>2. PICK y : y = [z EXCEPT !.signature = t]
      OBVIOUS
    <3>3. z \in Intent
      BY <3>1 DEF Intent
    <3>4. y \in Intent
      BY <3>2, <3>3 DEF Intent
    <3>5. [intent EXCEPT ![i] = z][i] = z
      BY DEF SerialTypes
    <3>6. intent' = [[intent EXCEPT ![i] = z] EXCEPT ![i] = y]
      BY <1>1, <2>4, <3>1, <3>2, <3>5
    <3>7. intent' = [intent EXCEPT ![i] = y]
      BY <3>6 DEF SerialTypes
    <3> QED
      BY <3>4, <3>7
  <2> QED
    BY <2>1, <2>2, <2>3, <2>4 DEF MarkProcessing, MarkConfirmed, MarkFailed
<1>3. intent' \in [Intents -> Intent] /\ \A j \in Intents : j # i => intent'[j] = intent[j]
  BY <1>2 DEF SerialTypes
<1>4. ASSUME intent' = MarkFailed(i) PROVE intent'[i].status = "failed"
  BY <1>4 DEF MarkFailed, SerialTypes, Intent
<1>5. ASSUME intent' = MarkProcessing(i), intent[i].status # "confirmed"
      PROVE  intent'[i].status # "confirmed"
  BY <1>5 DEF MarkProcessing, SerialTypes, Intent
<1> QED
  BY <1>3, <1>4, <1>5

\* A step of the one request at work: it is enough to look at what it does next.
LEMMA OneRequestKeeps ==
    ASSUME SerialBefore, NEW r \in Requests, NEW q \in Request,
           request' = [request EXCEPT ![r] = q],
           \A s \in Requests : s # r => request[s] = Idle,
           q.phase # "idle" => q.intent \in Intents,
           q.phase \notin {"idle", "find", "fail"} => q.transfer \in Transfers,
           intent' \in [Intents -> Intent],
           credited' \in [Transfers -> Intents \cup {Nothing}],
           rows' \in [Transfers -> Transfers \cup {Nothing}],
           OneRow',
           q.phase = "record" =>
               /\ credited'[q.transfer] # Nothing
               /\ \A u \in Transfers : rows'[u] # Nothing => rows'[u] = q.transfer,
           \A j \in Intents :
               intent'[j].status = "confirmed" =>
                   \/ \E u \in Transfers : credited'[u] = j
                   \/ q.intent = j /\ q.phase \in {"credit", "fail"}
    PROVE  SerialKept
<1>1. request'[r] = q /\ \A s \in Requests : s # r => request'[s] = Idle
  BY DEF SerialBefore, SerialTypes
<1>2. SerialTypes'
  BY <1>1, IdleIsHeld DEF SerialBefore, SerialTypes, Idle
<1>3. (\A s \in Requests : Reported(s))'
  <2> SUFFICES ASSUME NEW s \in Requests PROVE Reported(s)'
    OBVIOUS
  <2>1. CASE s = r
    BY <1>1, <2>1 DEF Reported, ExistingRows
  <2>2. CASE s # r
    BY <1>1, <2>2 DEF Reported, Idle
  <2> QED
    BY <2>1, <2>2
<1>4. (\A i \in Intents : Answered(i))'
  BY <1>1 DEF Answered, Paying
<1> QED
  BY <1>2, <1>3, <1>4 DEF SerialKept

LEMMA CreditedBefore ==
    ASSUME SerialBefore, NEW r \in Requests, \A s \in Requests : s # r => request[s] = Idle,
           NEW j \in Intents, intent[j].status = "confirmed"
    PROVE  \/ \E u \in Transfers : credited[u] = j
           \/ request[r].intent = j /\ request[r].phase \in {"credit", "fail"}
  BY DEF SerialBefore, Answered, Paying, Idle

LEMMA SerialBeginsKeeps ==
    ASSUME SerialBefore, OneAtWork', NEW r \in Requests, NEW i \in Intents,
           NEW t \in Transfers \cup {Nothing},
           NEW phase \in {"send", "find", "fail"}, phase = "send" => t \in Transfers,
           Begins(r, i, phase, t)
    PROVE  SerialKept
<1>1. /\ intent' \in [Intents -> Intent]
      /\ \A j \in Intents : j # i => intent'[j] = intent[j]
      /\ intent'[i].status # "confirmed"
  <2>1. CASE intent' = MarkProcessing(i)
    BY <2>1, StatusAfter DEF Begins, SerialBefore
  <2>2. CASE UNCHANGED intent
    BY <2>2 DEF Begins, SerialBefore, SerialTypes
  <2> QED
    BY <2>1, <2>2 DEF Begins
<1>2. UNCHANGED <<credited, rows>>
  BY DEF Begins
<1>3. CASE UNCHANGED request
  <2>1. SerialTypes' /\ OneRow' /\ (\A s \in Requests : Reported(s))'
    BY <1>1, <1>2, <1>3 DEF SerialBefore, SerialTypes, OneRow, ExistingRows, Reported
  <2>2. (\A j \in Intents : Answered(j))'
    BY <1>1, <1>2, <1>3 DEF SerialBefore, Answered, Paying
  <2> QED
    BY <2>1, <2>2 DEF SerialKept
<1>4. CASE request' = [request EXCEPT ![r] = [phase |-> phase, intent |-> i, transfer |-> t]]
  <2>1. PICK q : q = [phase |-> phase, intent |-> i, transfer |-> t]
    OBVIOUS
  <2>2. q \in Request /\ q.phase = phase /\ q.intent = i /\ q.transfer = t /\ q # Idle
    BY <2>1 DEF Request, Phase, Idle
  <2>3. request' = [request EXCEPT ![r] = q]
    BY <1>4, <2>1
  <2>4. \A s \in Requests : s # r => request[s] = Idle
    BY <2>2, <2>3 DEF OneAtWork, SerialBefore, SerialTypes
  <2>5. request[r].phase = "idle"
    BY DEF Begins
  <2>6. \A j \in Intents : intent'[j].status = "confirmed" => \E u \in Transfers : credited'[u] = j
    BY <1>1, <1>2, <2>4, <2>5, CreditedBefore
  <2>7. OneRow'
    BY <1>2 DEF SerialBefore, OneRow, ExistingRows
  <2>8. /\ credited' \in [Transfers -> Intents \cup {Nothing}]
        /\ rows' \in [Transfers -> Transfers \cup {Nothing}]
    BY <1>2 DEF SerialBefore, SerialTypes
  <2> QED
    BY <1>1, <2>2, <2>3, <2>4, <2>6, <2>7, <2>8, OneRequestKeeps
<1> QED
  BY <1>3, <1>4 DEF Begins

\* The same for a step to another phase, or to the end.
LEMMA SerialMoves ==
    ASSUME SerialBefore, NEW r \in Requests, \A s \in Requests : s # r => request[s] = Idle,
           NEW phase \in Phase, Goto(r, phase) \/ (Done(r) /\ phase = "idle"),
           request[r].phase \notin {"idle", "find", "fail"}, phase # "find",
           intent' \in [Intents -> Intent],
           credited' \in [Transfers -> Intents \cup {Nothing}],
           rows' \in [Transfers -> Transfers \cup {Nothing}],
           OneRow',
           NEW t, NEW i, t = request[r].transfer, i = request[r].intent,
           phase = "record" =>
               /\ credited'[t] # Nothing
               /\ \A u \in Transfers : rows'[u] # Nothing => rows'[u] = t,
           \A j \in Intents :
               intent'[j].status = "confirmed" =>
                   \/ \E u \in Transfers : credited'[u] = j
                   \/ i = j /\ phase \in {"credit", "fail"}
    PROVE  SerialKept
<1>1. PICK x \in Request : x = request[r]
  BY DEF SerialBefore, SerialTypes
<1>2. x.intent \in Intents /\ x.transfer \in Transfers
  BY <1>1 DEF SerialBefore, SerialTypes
<1>3. CASE Goto(r, phase)
  <2>1. PICK q : q = [x EXCEPT !.phase = phase]
    OBVIOUS
  <2>2. q \in Request /\ q.phase = phase /\ q.intent = x.intent /\ q.transfer = x.transfer
    BY <2>1 DEF Request
  <2>3. request' = [request EXCEPT ![r] = q]
    BY <1>1, <1>3, <2>1 DEF Goto
  <2> QED
    BY <1>1, <1>2, <2>2, <2>3, OneRequestKeeps
<1>4. CASE Done(r) /\ phase = "idle"
  <2>1. request' = [request EXCEPT ![r] = Idle] /\ Idle \in Request /\ Idle.phase = "idle"
    BY <1>4, IdleIsHeld DEF Done, Idle
  <2> QED
    BY <1>4, <2>1, OneRequestKeeps
<1> QED
  BY <1>3, <1>4

LEMMA SerialHandlerKeeps ==
    ASSUME SerialBefore, NEW r \in Requests, \A s \in Requests : s # r => request[s] = Idle,
           Sends(r) \/ Verifies(r)
    PROVE  SerialKept
<1>1. /\ UNCHANGED <<intent, credited, rows>>
      /\ request[r].phase \in {"send", "verify"}
  BY DEF Sends, Verifies
<1>2. PICK phase \in Phase \ {"find", "record"} : Goto(r, phase) \/ (Done(r) /\ phase = "idle")
  BY DEF Sends, Verifies, Phase
<1>3. PICK t, i : t = request[r].transfer /\ i = request[r].intent
  OBVIOUS
<1>4. OneRow' /\ intent' \in [Intents -> Intent]
      /\ credited' \in [Transfers -> Intents \cup {Nothing}]
      /\ rows' \in [Transfers -> Transfers \cup {Nothing}]
  BY <1>1 DEF SerialBefore, SerialTypes, OneRow, ExistingRows
<1>5. \A j \in Intents : intent'[j].status = "confirmed" => \E u \in Transfers : credited'[u] = j
  BY <1>1, CreditedBefore
<1> QED
  BY <1>1, <1>2, <1>3, <1>4, <1>5, SerialMoves

LEMMA SerialFindKeeps ==
    ASSUME SerialBefore, NEW r \in Requests, \A s \in Requests : s # r => request[s] = Idle,
           GetSignaturesForAddress(r)
    PROVE  SerialKept
<1>1. UNCHANGED <<intent, credited, rows>> /\ request[r].phase = "find"
  BY DEF GetSignaturesForAddress
<1>2. OneRow' /\ intent' \in [Intents -> Intent]
      /\ credited' \in [Transfers -> Intents \cup {Nothing}]
      /\ rows' \in [Transfers -> Transfers \cup {Nothing}]
  BY <1>1 DEF SerialBefore, SerialTypes, OneRow, ExistingRows
<1>3. \A j \in Intents : intent'[j].status = "confirmed" => \E u \in Transfers : credited'[u] = j
  BY <1>1, CreditedBefore
<1>4. CASE Done(r)
  <2>1. request' = [request EXCEPT ![r] = Idle] /\ Idle \in Request /\ Idle.phase = "idle"
    BY <1>4, IdleIsHeld DEF Done, Idle
  <2> QED
    BY <1>2, <1>3, <2>1, OneRequestKeeps
<1>5. ASSUME NEW t \in Newest(request[r].intent),
             request' = [request EXCEPT ![r].phase = "verify", ![r].transfer = t]
      PROVE  SerialKept
  <2>1. PICK x \in Request : x = request[r]
    BY DEF SerialBefore, SerialTypes
  <2>2. x.intent \in Intents /\ t \in Transfers
    BY <1>1, <2>1 DEF Newest, Referencing, SerialBefore, SerialTypes
  <2>3. PICK y : y = [x EXCEPT !.phase = "verify"]
    OBVIOUS
  <2>4. PICK q : q = [y EXCEPT !.transfer = t]
    OBVIOUS
  <2>5. y \in Request /\ y.phase = "verify" /\ y.intent = x.intent
    BY <2>3 DEF Request, Phase
  <2>6. q \in Request /\ q.phase = "verify" /\ q.intent = x.intent /\ q.transfer = t
    BY <2>2, <2>4, <2>5 DEF Request
  <2>7. request' = [request EXCEPT ![r] = q]
    <3>1. [request EXCEPT ![r] = y][r] = y
      BY DEF SerialBefore, SerialTypes
    <3>2. request' = [[request EXCEPT ![r] = y] EXCEPT ![r] = q]
      BY <1>5, <2>1, <2>3, <2>4, <3>1
    <3> QED
      BY <3>2 DEF SerialBefore, SerialTypes
  <2> QED
    BY <1>2, <1>3, <2>2, <2>6, <2>7, OneRequestKeeps
<1> QED
  BY <1>4, <1>5 DEF GetSignaturesForAddress

LEMMA SerialConfirmKeeps ==
    ASSUME SerialBefore, NEW r \in Requests, \A s \in Requests : s # r => request[s] = Idle,
           ConfirmIntent(r)
    PROVE  SerialKept
<1>1. PICK t \in Transfers, i \in Intents : t = request[r].transfer /\ i = request[r].intent
  BY DEF ConfirmIntent, SerialBefore, SerialTypes
<1>2. /\ intent' \in [Intents -> Intent]
      /\ \A j \in Intents : j # i => intent'[j] = intent[j]
  BY <1>1, StatusAfter DEF ConfirmIntent, SerialBefore
<1>3. UNCHANGED <<credited, rows>> /\ request[r].phase = "confirm" /\ Goto(r, "credit")
  BY DEF ConfirmIntent
<1>4. \A j \in Intents :
         intent'[j].status = "confirmed" => (\E u \in Transfers : credited'[u] = j) \/ i = j
  BY <1>2, <1>3, CreditedBefore
<1>5. OneRow' /\ credited' \in [Transfers -> Intents \cup {Nothing}]
      /\ rows' \in [Transfers -> Transfers \cup {Nothing}]
  BY <1>3 DEF SerialBefore, SerialTypes, OneRow, ExistingRows
<1> QED
  BY <1>1, <1>2, <1>3, <1>4, <1>5, SerialMoves DEF Phase

\* The purchase: the row there may be gets the signature, and cannot clash.
LEMMA SerialSubmitKeeps ==
    ASSUME SerialBefore, NEW r \in Requests, \A s \in Requests : s # r => request[s] = Idle,
           Submits(r)
    PROVE  SerialKept
<1>1. PICK t \in Transfers, i \in Intents : t = request[r].transfer /\ i = request[r].intent
  BY DEF Submits, SerialBefore, SerialTypes
<1>2. ~ SignatureClash
  BY DEF SignatureClash, SerialBefore, OneRow
<1>3. UNCHANGED intent /\ intent' \in [Intents -> Intent] /\ request[r].phase = "credit"
  BY DEF Submits, SerialBefore, SerialTypes
<1>4. \A j \in Intents :
         intent'[j].status = "confirmed" => (\E u \in Transfers : credited[u] = j) \/ i = j
  BY <1>1, <1>3, CreditedBefore
<1>5. CASE Goto(r, "fail") /\ UNCHANGED <<credited, rows>>
  <2>1. OneRow' /\ credited' \in [Transfers -> Intents \cup {Nothing}]
        /\ rows' \in [Transfers -> Transfers \cup {Nothing}]
    BY <1>5 DEF SerialBefore, SerialTypes, OneRow, ExistingRows
  <2> QED
    BY <1>1, <1>3, <1>4, <1>5, <2>1, SerialMoves DEF Phase
<1>6. CASE /\ credited[t] = Nothing
           /\ credited' = [credited EXCEPT ![t] = i]
           /\ rows' = MarkConfirmedByUserAndAmount(t)
           /\ Goto(r, "record")
  <2>1. t # Nothing /\ i # Nothing /\ Nothing \notin Intents
    BY SolanaIntentsAssumption
  <2>2. /\ credited' \in [Transfers -> Intents \cup {Nothing}] /\ credited'[t] = i
        /\ \A u \in Transfers : u # t => credited'[u] = credited[u]
    BY <1>6 DEF SerialBefore, SerialTypes
  <2>3. \A j \in Intents : intent'[j].status = "confirmed" => \E u \in Transfers : credited'[u] = j
    BY <1>4, <1>6, <2>1, <2>2
  <2>4. /\ rows' \in [Transfers -> Transfers \cup {Nothing}]
        /\ \A u \in Transfers : rows'[u] # Nothing => u \in ExistingRows /\ rows'[u] = t
    BY <1>6, <2>1 DEF MarkConfirmedByUserAndAmount, ExistingRows, SerialBefore, SerialTypes
  <2>5. OneRow'
    BY <2>4 DEF OneRow, ExistingRows, SerialBefore
  <2> QED
    BY <1>1, <1>3, <1>6, <2>1, <2>2, <2>3, <2>4, <2>5, SerialMoves DEF Phase
<1> QED
  BY <1>1, <1>2, <1>5, <1>6 DEF Submits

LEMMA SerialFailedKeeps ==
    ASSUME SerialBefore, NEW r \in Requests, \A s \in Requests : s # r => request[s] = Idle,
           MarkIntentFailed(r)
    PROVE  SerialKept
<1>1. PICK i \in Intents : i = request[r].intent
  BY DEF MarkIntentFailed, SerialBefore, SerialTypes
<1>2. /\ intent' \in [Intents -> Intent]
      /\ \A j \in Intents : j # i => intent'[j] = intent[j]
      /\ intent'[i].status = "failed"
  BY <1>1, StatusAfter DEF MarkIntentFailed, SerialBefore
<1>3. UNCHANGED <<credited, rows>> /\ request[r].phase = "fail" /\ Done(r)
  BY DEF MarkIntentFailed
<1>4. \A j \in Intents : intent'[j].status = "confirmed" => \E u \in Transfers : credited'[u] = j
  BY <1>1, <1>2, <1>3, CreditedBefore
<1>5. OneRow' /\ credited' \in [Transfers -> Intents \cup {Nothing}]
      /\ rows' \in [Transfers -> Transfers \cup {Nothing}]
  BY <1>3 DEF SerialBefore, SerialTypes, OneRow, ExistingRows
<1>6. request' = [request EXCEPT ![r] = Idle] /\ Idle \in Request /\ Idle.phase = "idle"
  BY <1>3, IdleIsHeld DEF Done, Idle
<1> QED
  BY <1>2, <1>4, <1>5, <1>6, OneRequestKeeps

LEMMA SerialRecordKeeps ==
    ASSUME SerialBefore, NEW r \in Requests, \A s \in Requests : s # r => request[s] = Idle,
           RecordTransaction(r)
    PROVE  SerialKept
<1>1. PICK t \in Transfers, i \in Intents : t = request[r].transfer /\ i = request[r].intent
  BY DEF RecordTransaction, SerialBefore, SerialTypes
<1>2. UNCHANGED <<intent, credited>> /\ request[r].phase = "record" /\ Done(r)
  BY DEF RecordTransaction
<1>3. \A j \in Intents : intent'[j].status = "confirmed" => \E u \in Transfers : credited'[u] = j
  BY <1>1, <1>2, CreditedBefore
<1>4. rows' \in [Transfers -> Transfers \cup {Nothing}]
  BY <1>1 DEF RecordTransaction, Recorded, SerialBefore, SerialTypes
<1>5. OneRow'
  <2>1. CASE ExistingRows = {}
    <3>1. \A u \in Transfers : rows[u] = Nothing
      BY <2>1 DEF ExistingRows
    <3>2. \A u \in Transfers : u # t => rows'[u] = Nothing
      BY <1>1, <3>1 DEF RecordTransaction, Recorded, SerialBefore, SerialTypes
    <3> QED
      BY <3>2 DEF OneRow, ExistingRows
  <2>2. ASSUME NEW u \in ExistingRows PROVE OneRow'
    <3>1. u \in Transfers /\ rows[u] = t
      BY <1>1, <1>2, <2>2 DEF SerialBefore, Reported, ExistingRows
    <3>2. UNCHANGED rows
      BY <1>1, <3>1 DEF RecordTransaction, Recorded
    <3> QED
      BY <3>2 DEF OneRow, ExistingRows, SerialBefore
  <2> QED
    BY <2>1, <2>2
<1>6. /\ intent' \in [Intents -> Intent] /\ credited' \in [Transfers -> Intents \cup {Nothing}]
  BY <1>2 DEF SerialBefore, SerialTypes
<1>7. PICK phase \in Phase : phase = "idle"
  BY DEF Phase
<1> QED
  BY <1>1, <1>2, <1>3, <1>4, <1>5, <1>6, <1>7, SerialMoves

\* A set that has one member at most.
LEMMA AtMostOne ==
    ASSUME NEW S, IsFiniteSet(S), Cardinality(S) <= 1, NEW q \in S, NEW r \in S
    PROVE  q = r
<1> SUFFICES ASSUME q # r PROVE FALSE
  OBVIOUS
<1> DEFINE R == S \ {q}
<1>1. IsFiniteSet(R) /\ Cardinality(R) = Cardinality(S) - 1
  BY FS_RemoveElement
<1>2. r \in R
  OBVIOUS
<1>3. Cardinality(R) \in Nat /\ (Cardinality(R) = 0 <=> R = {}) /\ Cardinality(S) \in Nat
  BY <1>1, FS_CardinalityType, FS_EmptySet
<1> HIDE DEF R
<1> QED
  BY <1>1, <1>2, <1>3

LEMMA SerialIntentsKeep ==
    ASSUME SerialIntentInv, [MCNext]_<<vars, walletVars, checkVars, part>>
    PROVE  SerialIntentInv'
<1> SUFFICES ASSUME part = "serial intents", part' = "serial intents"
             PROVE  OneAtWork' /\ SerialKept
  BY DEF MCNext, SerialIntentInv, SerialKept
<1>1. SerialBefore
  BY DEF SerialIntentInv, SerialBefore
<1>2. CASE UNCHANGED vars
  <2>1. OneAtWork'
    BY <1>1, <1>2 DEF vars, SerialBefore, OneAtWork
  <2>2. WorldStep
    BY <1>2 DEF vars, WorldStep
  <2> QED
    BY <1>1, <2>1, <2>2, SerialWorldKeeps
<1>3. CASE Serial!Next /\ Cardinality({r \in Requests : request'[r] # Idle}) <= 1
  <2> DEFINE S == {r \in Requests : request'[r] # Idle}
  <2>1. OneAtWork'
    <3>1. IsFiniteSet(S) /\ Cardinality(S) <= 1
      BY <1>3, SolanaIntentsAssumption, FS_Subset
    <3> HIDE DEF S
    <3>2. \A q, r \in S : q = r
      BY <3>1, AtMostOne
    <3> QED
      BY <3>2 DEF S, OneAtWork, Idle, Nothing
  <2> HIDE DEF S
  <2>2. SerialStep
    BY <1>3, SerialSteps
  <2>3. ASSUME NEW r \in Requests,
               \/ Sends(r) \/ GetSignaturesForAddress(r) \/ Verifies(r)
               \/ ConfirmIntent(r) \/ Submits(r) \/ MarkIntentFailed(r) \/ RecordTransaction(r)
        PROVE  SerialKept
    <3>1. request[r].phase # "idle"
      <4>1. CASE Sends(r)
        BY <4>1 DEF Sends
      <4>2. CASE GetSignaturesForAddress(r)
        BY <4>2 DEF GetSignaturesForAddress
      <4>3. CASE Verifies(r)
        BY <4>3 DEF Verifies
      <4>4. CASE ConfirmIntent(r)
        BY <4>4 DEF ConfirmIntent
      <4>5. CASE Submits(r)
        BY <4>5 DEF Submits
      <4>6. CASE MarkIntentFailed(r)
        BY <4>6 DEF MarkIntentFailed
      <4>7. CASE RecordTransaction(r)
        BY <4>7 DEF RecordTransaction
      <4> QED
        BY <2>3, <4>1, <4>2, <4>3, <4>4, <4>5, <4>6, <4>7
    <3>2. \A s \in Requests : s # r => request[s] = Idle
      <4>1. Idle.phase = "idle"
        BY DEF Idle
      <4>2. request[r] # Idle
        BY <3>1, <4>1
      <4> QED
        BY <1>1, <4>2 DEF SerialBefore, OneAtWork
    <3> QED
      BY <1>1, <2>3, <3>2, SerialHandlerKeeps, SerialFindKeeps, SerialConfirmKeeps,
         SerialSubmitKeeps, SerialFailedKeeps, SerialRecordKeeps
  <2> QED
    BY <1>1, <2>1, <2>2, <2>3, SerialWorldKeeps, SerialBeginsKeeps DEF SerialStep
<1> QED
  BY <1>2, <1>3 DEF MCNext

\* With one request at a time, clients that do not hang up and notifications whose
\* inserts succeed, a purchase is never half done: an intent nobody works on is confirmed only if it was credited, and
\* what Submit has reported as recorded is there (solana_check.go:119).
THEOREM SerialPurchasesAreCredited == MCSpec => []SerialIsCredited
<1>1. SerialIntentInv => SerialIsCredited
  BY DEF SerialIntentInv, SerialIsCredited, Answered, Reported, ConfirmedIsCredited,
     SubmittedIsCredited, InProgress
<1> QED
  BY <1>1, SerialIntentsBegin, SerialIntentsKeep, PTL DEF MCSpec

=============================================================================
