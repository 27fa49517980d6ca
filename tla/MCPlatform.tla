----------------------------- MODULE MCPlatform -----------------------------
(***************************************************************************)
(* What the handlers stand on, for TLC: the analytics spool (Spool), the   *)
(* rate limiter (RateLimit), the cache (Cache), the delay between the      *)
(* attempts of a webhook (Backoff) and the pool that replays webhook files *)
(* (Replay).  They share no state; the initial state picks the one that    *)
(* moves, and the instance of it.  What is proved of an instance           *)
(* (PlatformProofs) is proved for every value of its parameters.           *)
(***************************************************************************)
EXTENDS Integers

CONSTANTS
    Writers, Writer,                              \* of the spools
    Sizes, MaxBytes, LowMark,                     \* of the failing spool
    MaxNames, MaxCrashes, MaxFailures,
    Requests, Limit, Minute, MaxLag, MaxTime,     \* of the limiter
    MaxServed, MaxFaults, MaxRestarts,
    OneRequest,                                   \* of the limiter in memory
    Clients, Ttls, MaxClock, MaxSets, MaxOutages, \* of the cache
    Width, Configured, MaxAttempts,               \* of the delays
    DefaultInitial, DefaultMax,
    Files, Concurrent, Delay                      \* of the replay

VARIABLES dir, named, task, trimmed, lost, crashes, failures
VARIABLES now, keys, counter, req, served, faults, restarts
VARIABLES clock, store, backend, up, ping, call, got, sets, outages
VARIABLES retry, attempts, delay, status
VARIABLES work, results, worker, closed, caller, waited
VARIABLE part  \* what moves

spoolVars   == <<dir, named, task, trimmed, lost, crashes, failures>>
limitVars   == <<now, keys, counter, req, served, faults, restarts>>
cacheVars   == <<clock, store, backend, up, ping, call, got, sets, outages>>
backoffVars == <<retry, attempts, delay, status>>
replayVars  == <<work, results, worker, closed, caller, waited>>

\* Two writers, one of which may crash, and a consumer.
SharedSpool == INSTANCE Spool WITH
    Sizes <- {2, 3, 5}, MaxBytes <- 10, LowMark <- 9, Consumer <- TRUE,
    MaxNames <- 4, MaxCrashes <- 1, MaxFailures <- 0

\* One writer that may crash twice.
OwnSpool == INSTANCE Spool WITH
    Writers <- {Writer}, Sizes <- {1, 2, 3}, MaxBytes <- 7, LowMark <- 6,
    Consumer <- FALSE, MaxNames <- 5, MaxCrashes <- 2, MaxFailures <- 0

\* One writer that may crash, and deletions that fail.
FailingSpool == INSTANCE Spool WITH Writers <- {Writer}, Consumer <- FALSE

\* The limiter; a limit of two; a Redis that fails most of the time.
Limiter == INSTANCE RateLimit

LimitOfTwo == INSTANCE RateLimit WITH
    Limit <- 2, Minute <- 2, MaxLag <- 1, MaxTime <- 4, MaxServed <- 5,
    MaxFaults <- 1, MaxRestarts <- 0

LimitInMemory == INSTANCE RateLimit WITH
    Requests <- {OneRequest}, Limit <- 1, Minute <- 3, MaxLag <- 0, MaxTime <- 6,
    MaxServed <- 4, MaxFaults <- 4, MaxRestarts <- 0

Store == INSTANCE Cache WITH
    now <- clock, MaxTime <- MaxClock

Retries == INSTANCE Backoff

Pool == INSTANCE Replay

ASSUME MCPlatformAssumption ==
    /\ SharedSpool!SpoolAssumption /\ OwnSpool!SpoolAssumption
    /\ FailingSpool!SpoolAssumption /\ \A size \in Sizes : 2 * size <= LowMark
    /\ Limiter!RateLimitAssumption /\ LimitOfTwo!RateLimitAssumption
    /\ LimitInMemory!RateLimitAssumption
    /\ Store!CacheAssumption /\ Retries!BackoffAssumption
    /\ Pool!ReplayAssumption

-----------------------------------------------------------------------------

\* Nothing of a component that is not there; the replay is always there.
NoSpool   == dir = 0 /\ named = 0 /\ task = 0 /\ trimmed = 0 /\ lost = 0
             /\ crashes = 0 /\ failures = 0
NoLimit   == now = 0 /\ keys = 0 /\ counter = 0 /\ req = 0 /\ served = 0
             /\ faults = 0 /\ restarts = 0
NoCache   == clock = 0 /\ store = 0 /\ backend = 0 /\ up = 0 /\ ping = 0
             /\ call = 0 /\ got = 0 /\ sets = 0 /\ outages = 0
NoRetries == retry = 0 /\ attempts = 0 /\ delay = 0 /\ status = 0

InitOthers ==
    \/ /\ \/ part = "shared spool"  /\ SharedSpool!Init
          \/ part = "own spool"     /\ OwnSpool!Init
          \/ part = "failing spool" /\ FailingSpool!Init
       /\ NoLimit /\ NoCache /\ NoRetries
    \/ /\ \/ part = "limiter"         /\ Limiter!Init
          \/ part = "limit of two"    /\ LimitOfTwo!Init
          \/ part = "limit in memory" /\ LimitInMemory!Init
       /\ NoSpool /\ NoCache /\ NoRetries
    \/ part = "cache" /\ Store!Init /\ NoSpool /\ NoLimit /\ NoRetries
    \/ part = "retries" /\ Retries!Init /\ NoSpool /\ NoLimit /\ NoCache
    \/ part = "replay" /\ NoSpool /\ NoLimit /\ NoCache /\ NoRetries

Init == InitOthers /\ Pool!Init

Next ==
    /\ \/ /\ \/ part = "shared spool"  /\ SharedSpool!Next
             \/ part = "own spool"     /\ OwnSpool!Next
             \/ part = "failing spool" /\ FailingSpool!Next
          /\ UNCHANGED <<limitVars, cacheVars, backoffVars, replayVars>>
       \/ /\ \/ part = "limiter"         /\ Limiter!Next
             \/ part = "limit of two"    /\ LimitOfTwo!Next
             \/ part = "limit in memory" /\ LimitInMemory!Next
          /\ UNCHANGED <<spoolVars, cacheVars, backoffVars, replayVars>>
       \/ /\ part = "cache" /\ Store!Next
          /\ UNCHANGED <<spoolVars, limitVars, backoffVars, replayVars>>
       \/ /\ part = "retries" /\ Retries!Next
          /\ UNCHANGED <<spoolVars, limitVars, cacheVars, replayVars>>
       \/ /\ part = "replay" /\ Pool!Next
          /\ UNCHANGED <<spoolVars, limitVars, cacheVars, backoffVars>>
    /\ UNCHANGED part

Spec == Init /\ [][Next]_<<spoolVars, limitVars, cacheVars, backoffVars, replayVars, part>>

-----------------------------------------------------------------------------
(* Properties                                                              *)

\* With one writer and no consumer, a record that fits twice below the mark is
\* never lost, whatever crashes and failed deletions left behind.
SmallIsStored == part = "failing spool" => FailingSpool!SmallIsStored

\* In a minute of the clock Redis admits at most twice the limit, and once more
\* the limit for each time it restarts empty (redisAllow).
WindowLimit == part = "limiter" => Limiter!WindowLimit

\* No call of Get returns a value that had expired before the call began, from
\* a backend that may be switched away and back (switchable_cache.go).
HitIsFresh == part = "cache" => Store!HitIsFresh

\* While the doubled delay fits the integer, it is the first delay doubled with
\* every attempt, up to the maximum (nextBackoff).
DoublesUpToMax == part = "retries" => Retries!DoublesUpToMax

\* However the workers and the caller of the replay interleave, each file is
\* counted once and the counts are returned after the last.
ImplementsTally == Pool!ImplementsTally

-----------------------------------------------------------------------------
(* Not asked of the run: further properties that hold ...                  *)

\* Every variable has its type.
TypeOK ==
    CASE part = "shared spool"    -> SharedSpool!TypeOK
      [] part = "own spool"       -> OwnSpool!TypeOK
      [] part = "failing spool"   -> FailingSpool!TypeOK
      [] part = "limiter"         -> Limiter!TypeOK
      [] part = "limit of two"    -> LimitOfTwo!TypeOK
      [] part = "limit in memory" -> LimitInMemory!TypeOK
      [] part = "cache"           -> Store!TypeOK
      [] part = "retries"         -> Retries!TypeOK
      [] part = "replay"          -> Pool!TypeOK

\* The records never exceed the capacity, however the writers' scans and
\* renames interleave and wherever one crashes (enforceCapacity), as long as
\* every deletion succeeds.
WithinCapacity == part = "shared spool" => SharedSpool!WithinCapacity

\* With one writer whose deletions succeed, what is deleted for room is older
\* than every record that is kept, a crash's temporary files included.
OldestGoFirst == part = "own spool" => OwnSpool!OldestGoFirst

\* Nobody is refused before the limit is used up, except that each answer Redis
\* loses after counting costs one admission of its minute.
RefusedIsOver == part = "limit of two" => LimitOfTwo!RefusedIsOver

\* The counter in memory admits at most twice the limit in any minute
\* (RateLimitStore.Allow).
MemoryLimit == part = "limit in memory" => LimitInMemory!MemoryLimit

(* ... and claims TLC refutes                                              *)

\* A record that fits is stored (spool.go).
FittingIsStored == part \in {"shared spool", "own spool"} => SharedSpool!FittingIsStored

\* The caps hold whatever deletion fails (spool.go).
CapHolds == part = "failing spool" => FailingSpool!CapHolds

\* A minute of the clock admits at most the limit (ratelimit.go).
FixedWindow == part = "limiter" => Limiter!FixedWindow

\* No minute admits more than the limit (endpoints.md).
PerMinute == part = "limit of two" => LimitOfTwo!PerMinute
=============================================================================
