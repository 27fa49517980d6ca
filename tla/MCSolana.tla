------------------------------ MODULE MCSolana ------------------------------
(***************************************************************************)
(* The Solana components for TLC: the payment intents (SolanaIntents), the *)
(* linking of wallets (SolanaWallets) and the check of a transaction       *)
(* (TransferCheck).  They share no state; the initial state picks the one  *)
(* that moves, and whether its requests come one at a time.                *)
(***************************************************************************)
EXTENDS SolanaIntents, TLC

CONSTANTS SerialQuotes, SerialTrouble, Users, Addresses, MaxChallenges,
          Amounts, MaxInstructions

VARIABLES wallets, challenges, expired, signed, generated, used, walletRequest
VARIABLES tx, expected, position, match, verdict
VARIABLE part  \* what moves

walletVars == <<wallets, challenges, expired, signed, generated, used, walletRequest>>
checkVars  == <<tx, expected, position, match, verdict>>

Serial == INSTANCE SolanaIntents WITH Quotes <- SerialQuotes, Trouble <- SerialTrouble

Linking == INSTANCE SolanaWallets WITH request <- walletRequest, MayFail <- TRUE

SerialLinking == INSTANCE SolanaWallets WITH request <- walletRequest, MayFail <- FALSE

Check == INSTANCE TransferCheck

ASSUME SolanaAssumption ==
    /\ Linking!SolanaWalletsAssumption /\ Check!TransferCheckAssumption
    /\ SerialQuotes \subseteq Nat
    /\ {"disconnect", "notice"} \cap SerialTrouble = {}

MCInit ==
    /\ Init /\ Linking!Init
    /\ \/ part = "check" /\ Check!Init
       \/ /\ part \in {"intents", "serial intents", "linking", "serial linking"}
          /\ tx = {} /\ expected = {} /\ position = 0 /\ match = {} /\ verdict = "none"

MCNext ==
    /\ \/ part = "intents" /\ Next /\ UNCHANGED <<walletVars, checkVars>>
       \/ /\ part = "serial intents" /\ Serial!Next
          /\ Cardinality({r \in Requests : request'[r] # Idle}) <= 1
          /\ UNCHANGED <<walletVars, checkVars>>
       \/ part = "linking" /\ Linking!Next /\ UNCHANGED <<vars, checkVars>>
       \/ /\ part = "serial linking" /\ SerialLinking!Next
          /\ Cardinality({r \in Requests : walletRequest'[r] # Linking!IdleRequest}) <= 1
          /\ UNCHANGED <<vars, checkVars>>
       \/ part = "check" /\ Check!Next /\ UNCHANGED <<vars, walletVars>>
    /\ UNCHANGED part

MCSpec == MCInit /\ [][MCNext]_<<vars, walletVars, checkVars, part>>

Symmetry == Permutations(Transfers) \cup Permutations(Requests)

-----------------------------------------------------------------------------
(* Properties                                                              *)

\* With one request at a time, no client that hangs up and no notification whose
\* insert fails, a purchase is never half done: an intent nobody works on is confirmed only if it was credited
\* (solana_check.go:119), and what Submit has reported as recorded is there.
SerialIsCredited == part = "serial intents" => ConfirmedIsCredited /\ SubmittedIsCredited

\* A verified wallet was signed for by its present owner's account, however
\* requests, deletions and new challenges interleave (solana_wallet.go).
VerifiedWasSigned == Linking!VerifiedWasSigned

\* What is accepted was paid, by one transfer of the expected payer's, whatever
\* other instructions the transaction has, and in the mint of the intent or in as
\* many units of the native coin (solana_transaction.go).
AcceptedWasPaid == part = "check" => Check!AcceptedWasPaid

\* A transaction that holds the transfer the server builds is accepted, unless
\* a larger transfer won and its tokens are gone.
BuiltIsAccepted == part = "check" => Check!BuiltIsAccepted

-----------------------------------------------------------------------------
(* Not asked of the run: further properties that hold, and claims TLC      *)
(* refutes                                                                 *)

\* Every variable has its type.
TypesOK == TypeOK /\ Linking!TypeOK /\ (part = "check" => Check!TypeOK)

\* A wallet never passes from one account to another; it is deleted first.
NoTakeover == Linking!NoTakeover

\* One request at a time: a signature verifies a wallet once, so a deleted
\* wallet needs a new challenge.
SignatureUsedOnce == part = "serial linking" => Linking!SignatureUsedOnce

\* What is accepted was paid in the mint of the intent ("expectedTokenMint").
PaidInMint == part = "check" => Check!PaidInMint

\* An account is refused an address only if another one has verified it.
RefusedIsVerified == Linking!RefusedIsVerified
=============================================================================
