------------------------------ MODULE MCProgress ------------------------------
(***************************************************************************)
(* Three components in which somebody waits, for TLC: the client that      *)
(* polls for a Solana payment (SolanaIntents), the pool that replays       *)
(* webhook files (Replay) and the monitor of Redis (Cache).  They share no *)
(* state; the initial state picks the one that moves, and only that one    *)
(* has to be fair.                                                         *)
(***************************************************************************)
EXTENDS SolanaIntents

CONSTANTS Files, Concurrent, Clients, Ttls, MaxTime, MaxSets, MaxOutages

VARIABLES work, results, worker, closed, caller, waited
VARIABLES now, store, backend, up, ping, call, got, sets, outages
VARIABLE part  \* what moves

replayVars == <<work, results, worker, closed, caller, waited>>
cacheVars  == <<now, store, backend, up, ping, call, got, sets, outages>>

Pool  == INSTANCE Replay WITH Delay <- TRUE
Store == INSTANCE Cache

ASSUME Pool!ReplayAssumption /\ Store!CacheAssumption

MCInit ==
    /\ Init /\ Pool!Init /\ Store!Init
    /\ part \in {"polling", "replay", "cache"}

MCNext ==
    /\ \/ part = "polling" /\ Next /\ UNCHANGED <<replayVars, cacheVars>>
       \/ part = "replay" /\ Pool!Next /\ UNCHANGED <<vars, cacheVars>>
       \/ part = "cache" /\ Store!Next /\ UNCHANGED <<vars, replayVars>>
    /\ UNCHANGED part

MCSpec ==
    /\ MCInit /\ [][MCNext]_<<vars, replayVars, cacheVars, part>>
    /\ part = "polling" => Fairness
    /\ part = "replay" => Pool!Fairness
    /\ part = "cache" => Store!Fairness

-----------------------------------------------------------------------------
(* Properties                                                              *)

\* The replay ends, whatever the number of workers and files.
ReplayReturns == part = "replay" => Pool!ReplayReturns

-----------------------------------------------------------------------------
(* Not asked of the run: further properties that hold, and a claim TLC     *)
(* refutes                                                                 *)

\* Every variable has its type.
TypesOK == TypeOK /\ Pool!TypeOK /\ Store!TypeOK

\* No worker of the replay sends on the closed channel, which would panic (the
\* goroutine after the workers closes it).
NoSendOnClosed == Pool!NoSendOnClosed

\* With one client, an item in memory that has not expired goes only by a Set,
\* Delete or Clear on it: neither Get nor the cleanup takes it.
KeptUntilExpired == Store!KeptUntilExpired

\* A Redis that keeps answering is used in the end, and one that stays away is
\* not (monitorRedis).
FollowsRedis == part = "cache" => Store!FollowsRedis

\* A worker of the replay waits before every request but its first.
DelayedAfterFirst == Pool!DelayedAfterFirst
=============================================================================
