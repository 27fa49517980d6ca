--------------------------- MODULE SolanaWallets ---------------------------
(***************************************************************************)
(* Linking a Solana wallet: the user asks for a challenge, signs it with   *)
(* the wallet, and sends the signature back.  An address belongs to at     *)
(* most one account, verified or not, by a unique index; a challenge is a  *)
(* row by account and address that the next one overwrites.  Every         *)
(* statement is a step of its own, and a request may end after any.        *)
(***************************************************************************)
EXTENDS Integers, FiniteSets

CONSTANTS
    Users,          \* accounts
    Addresses,      \* wallets
    Requests,       \* request handlers
    MaxChallenges,  \* bound on the challenges generated
    MayFail         \* whether requests may end half way

SolanaWalletsAssumption ==
    /\ Users # {} /\ Addresses # {}
    /\ MaxChallenges \in Nat /\ MayFail \in BOOLEAN

VARIABLES
    wallets,     \* billing.solana_wallets by address
    challenges,  \* billing.solana_wallet_challenges: the nonce, 0 for no row
    expired,     \* nonces past their time
    signed,      \* (account, address, nonce) the wallets have signed
    generated,   \* challenges so far
    used,        \* how often a signature over each nonce verified a wallet, to 2
    request      \* what each handler is doing

vars == <<wallets, challenges, expired, signed, generated, used, request>>

Nobody == "nobody"
Nonces == 1..MaxChallenges

Wallet == [user : Users \cup {Nobody}, verified : BOOLEAN]

Unlinked == [user |-> Nobody, verified |-> FALSE]

\* After linking, a request goes on to its own next statement.
Phase == {"idle", "link", "insert", "refused", "challenge", "mark", "consume"}

Request == [phase : Phase, next : {"challenge", "mark"}, user : Users,
            address : Addresses, nonce : 0..MaxChallenges]

TypeOK ==
    /\ wallets \in [Addresses -> Wallet]
    /\ challenges \in [Users -> [Addresses -> 0..MaxChallenges]]
    /\ expired \subseteq Nonces
    /\ signed \subseteq Users \X Addresses \X Nonces
    /\ generated \in 0..MaxChallenges
    /\ used \in [Nonces -> 0..2]
    /\ request \in [Requests -> Request]

IdleRequest ==
    [phase |-> "idle", next |-> "challenge", user |-> CHOOSE u \in Users : TRUE,
     address |-> CHOOSE a \in Addresses : TRUE, nonce |-> 0]

Init ==
    /\ wallets = [a \in Addresses |-> Unlinked]
    /\ challenges = [u \in Users |-> [a \in Addresses |-> 0]]
    /\ expired = {} /\ signed = {}
    /\ generated = 0
    /\ used = [n \in Nonces |-> 0]
    /\ request = [r \in Requests |-> IdleRequest]

Goto(r, phase) == request' = [request EXCEPT ![r].phase = phase]
Done(r)        == request' = [request EXCEPT ![r] = IdleRequest]

-----------------------------------------------------------------------------
(* POST /v1/wallet/solana/challenge and /verify. *)

GenerateSolanaWalletChallenge(r, u, a) ==
    /\ request[r].phase = "idle" /\ generated < MaxChallenges
    /\ request' = [request EXCEPT ![r] = [phase |-> "link", next |-> "challenge",
                                          user |-> u, address |-> a, nonce |-> 0]]
    /\ UNCHANGED <<wallets, challenges, expired, signed, generated, used>>

\* The signature is over the message of the stored challenge.
SignatureMatches(u, a, n) == <<u, a, n>> \in signed

\* An expired challenge is deleted and refuses the signature.
VerifySignature(r, u, a) ==
    LET n == challenges[u][a] IN
    /\ request[r].phase = "idle" /\ n # 0
    /\ \/ /\ n \in expired
          /\ challenges' = [challenges EXCEPT ![u][a] = 0]
          /\ UNCHANGED request
       \/ /\ n \notin expired /\ SignatureMatches(u, a, n)
          /\ request' = [request EXCEPT ![r] = [phase |-> "link", next |-> "mark",
                                                user |-> u, address |-> a, nonce |-> n]]
          /\ UNCHANGED challenges
    /\ UNCHANGED <<wallets, expired, signed, generated, used>>

-----------------------------------------------------------------------------
(* SolanaWalletService. *)

\* Link looks for the row of this user and this address.
Link(r) ==
    LET q == request[r] IN
    /\ q.phase = "link"
    /\ Goto(r, IF wallets[q.address].user = q.user THEN q.next ELSE "insert")
    /\ UNCHANGED <<wallets, challenges, expired, signed, generated, used>>

\* Both unique indexes, on the address and on user and address.
MayInsert(a) == wallets[a].user = Nobody

Insert(r) ==
    LET q == request[r] IN
    /\ q.phase = "insert"
    /\ IF MayInsert(q.address)
       THEN /\ wallets' = [wallets EXCEPT ![q.address] =
                              [user |-> q.user, verified |-> FALSE]]
            /\ Goto(r, q.next)
       ELSE Goto(r, "refused") /\ UNCHANGED wallets
    /\ UNCHANGED <<challenges, expired, signed, generated, used>>

Refuse(r) ==
    /\ request[r].phase = "refused"
    /\ Done(r)
    /\ UNCHANGED <<wallets, challenges, expired, signed, generated, used>>

\* The row of user and address is inserted or overwritten.
UpsertChallenge(r) ==
    LET q == request[r] IN
    /\ q.phase = "challenge"
    /\ generated < MaxChallenges
    /\ generated' = generated + 1
    /\ challenges' = [challenges EXCEPT ![q.user][q.address] = generated + 1]
    /\ Done(r)
    /\ UNCHANGED <<wallets, expired, signed, used>>

\* Counted up to two.
Once(n) == IF n = 0 THEN 1 ELSE 2

\* Faulty variant of MarkVerified: whoever has the wallet by now.
MarkUnconditionally(r) ==
    LET q == request[r] IN
    /\ q.phase = "mark"
    /\ wallets' = [wallets EXCEPT ![q.address].verified = TRUE]
    /\ used' = [used EXCEPT ![q.nonce] = Once(@)]
    /\ Goto(r, "consume")
    /\ UNCHANGED <<challenges, expired, signed, generated>>

\* No row is left to mark when the wallet was deleted meanwhile.
MarkVerified(r) ==
    LET q == request[r] IN
    /\ q.phase = "mark"
    /\ IF wallets[q.address].user = q.user
       THEN /\ wallets' = [wallets EXCEPT ![q.address].verified = TRUE]
            /\ used' = [used EXCEPT ![q.nonce] = Once(@)]
            /\ Goto(r, "consume")
       ELSE Done(r) /\ UNCHANGED <<wallets, used>>
    /\ UNCHANGED <<challenges, expired, signed, generated>>

\* Whatever challenge the user has for the address by now.
DeleteChallenge(q) == [challenges EXCEPT ![q.user][q.address] = 0]

ConsumeChallenge(r) ==
    /\ request[r].phase = "consume"
    /\ challenges' = DeleteChallenge(request[r])
    /\ Done(r)
    /\ UNCHANGED <<wallets, expired, signed, generated, used>>

\* DELETE /v1/wallet/solana.
DeleteSolanaWallet(u, a) ==
    /\ wallets[a].user = u
    /\ wallets' = [wallets EXCEPT ![a] = Unlinked]
    /\ UNCHANGED <<challenges, expired, signed, generated, used, request>>

-----------------------------------------------------------------------------
(* What the handlers do not control. *)

\* The holder of the wallet signs a challenge she was sent.
SignMessage(u, a) ==
    /\ challenges[u][a] # 0
    /\ signed' = signed \cup {<<u, a, challenges[u][a]>>}
    /\ UNCHANGED <<wallets, challenges, expired, generated, used, request>>

ChallengeExpires(n) ==
    /\ n <= generated /\ n \notin expired
    /\ expired' = expired \cup {n}
    /\ UNCHANGED <<wallets, challenges, signed, generated, used, request>>

Disconnect(r) ==
    /\ MayFail
    /\ request[r].phase # "idle"
    /\ Done(r)
    /\ UNCHANGED <<wallets, challenges, expired, signed, generated, used>>

Handle(r) ==
    \/ Link(r) \/ Insert(r) \/ Refuse(r)
    \/ UpsertChallenge(r) \/ MarkVerified(r) \/ ConsumeChallenge(r)

Next ==
    \/ \E r \in Requests, u \in Users, a \in Addresses :
           GenerateSolanaWalletChallenge(r, u, a) \/ VerifySignature(r, u, a)
    \/ \E r \in Requests : Handle(r) \/ Disconnect(r)
    \/ \E u \in Users, a \in Addresses : DeleteSolanaWallet(u, a) \/ SignMessage(u, a)
    \/ \E n \in Nonces : ChallengeExpires(n)

Spec == Init /\ [][Next]_vars

-----------------------------------------------------------------------------
(* Properties. *)

\* A verified wallet was signed for by its present owner's account: requests
\* of two accounts, deletions and new challenges interleave between the check
\* of the signature and the statement that marks the row.
VerifiedWasSigned ==
    \A a \in Addresses :
        wallets[a].verified =>
            \E n \in Nonces : <<wallets[a].user, a, n>> \in signed

\* A wallet never passes from one account to another; it is deleted first.
NoTakeover ==
    [][\A a \in Addresses :
         wallets[a].user # Nobody /\ wallets'[a].user # wallets[a].user =>
             wallets'[a].user = Nobody]_vars

\* One request at a time: a signature verifies a wallet once, so a deleted
\* wallet needs a new challenge.
SignatureUsedOnce == \A n \in Nonces : used[n] <= 1

\* An account is refused an address only if another one has verified it.
RefusedIsVerified ==
    \A r \in Requests :
        request[r].phase = "refused" => wallets[request[r].address].verified
=============================================================================
