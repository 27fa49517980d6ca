------------------------------ MODULE RateLimit ------------------------------
(***************************************************************************)
(* The rate limiter, for one address and one bucket: a counter in Redis    *)
(* for each minute of the clock and, whenever Redis answers with an error, *)
(* a counter in memory whose minute starts with its first request.         *)
(* Requests run concurrently; the command INCR may be made without its     *)
(* answer arriving, Redis may restart empty, and EXPIRE may be lost.       *)
(***************************************************************************)
EXTENDS Integers, FiniteSets, FiniteSetsExt

CONSTANTS
    Requests,   \* requests in flight at a time
    Limit,     \* effectiveLimit of the bucket
    Minute,    \* ticks of the clock in a minute
    MaxLag,    \* bound on the ticks a request takes to reach its counter
    MaxTime,   \* bound on the clock
    MaxServed, \* bound on the requests served
    MaxFaults,  \* bound on errors of Redis and lost answers
    MaxRestarts \* bound on restarts of Redis

RateLimitAssumption ==
    /\ Limit \in Nat \ {0}
    /\ Minute \in Nat \ {0}
    /\ MaxLag \in 0..(Minute - 1)
    /\ MaxTime \in Nat
    /\ MaxServed \in Nat
    /\ MaxFaults \in Nat
    /\ MaxRestarts \in Nat

VARIABLES
    now,     \* the clock
    keys,    \* the counters in Redis: window, count and expiry
    counter, \* the counter in memory: count and reset
    req,     \* what each request is doing
    served,  \* the decisions: by which counter, at what time, and which
    faults,  \* errors so far
    restarts \* restarts so far

vars == <<now, keys, counter, req, served, faults, restarts>>

Never  == MaxTime + Minute + 1
Window(t) == t \div Minute

Req   == [step : {"idle", "incr", "expire", "memory"}, since : 0..MaxTime]
Idle  == [step |-> "idle", since |-> 0]
Key   == [window : 0..Window(MaxTime), count : 1..MaxServed + MaxFaults, expires : 1..Never]

\* n: which of the requests it was.
Decision == [n : 1..MaxServed, by : {"redis", "memory"}, at : 0..MaxTime, allowed : BOOLEAN]

TypeOK ==
    /\ now \in 0..MaxTime
    /\ keys \subseteq Key
    /\ counter \in [count : 0..MaxServed, reset : -1..Never]
    /\ req \in [Requests -> Req]
    /\ served \subseteq Decision
    /\ faults \in 0..MaxFaults
    /\ restarts \in 0..MaxRestarts

Init ==
    /\ now = 0
    /\ keys = {}
    /\ counter = [count |-> 0, reset |-> -1]
    /\ req = [r \in Requests |-> Idle]
    /\ served = {}
    /\ faults = 0
    /\ restarts = 0

-----------------------------------------------------------------------------

InFlight == {r \in Requests : req[r] # Idle}

Go(r, q) == req' = [req EXCEPT ![r] = q]

Serve(by, at, allowed) ==
    served' = served \cup {[n |-> Cardinality(served) + 1, by |-> by, at |-> at, allowed |-> allowed]}

\* The minute is taken from the clock before Redis is asked.
Arrive(r) ==
    /\ req[r] = Idle
    /\ Cardinality(served) + Cardinality(InFlight) < MaxServed
    /\ Go(r, [step |-> "incr", since |-> now])
    /\ UNCHANGED <<now, keys, counter, served, faults, restarts>>

Count(w) == IF \E k \in keys : k.window = w THEN (CHOOSE k \in keys : k.window = w).count ELSE 0

Incremented(w) ==
    {k \in keys : k.window # w}
      \cup {[window |-> w, count |-> Count(w) + 1,
             expires |-> IF Count(w) = 0 THEN Never ELSE (CHOOSE k \in keys : k.window = w).expires]}

\* Faulty variant of Incr: off by one.
IncrLate(r) ==
    LET w == Window(req[r].since) IN
    /\ req[r].step = "incr"
    /\ keys' = Incremented(w)
    /\ Serve("redis", req[r].since, Count(w) <= Limit)
    /\ Go(r, IF Count(w) = 0 THEN [req[r] EXCEPT !.step = "expire"] ELSE Idle)
    /\ UNCHANGED <<now, counter, faults, restarts>>

\* The counter of the minute is created by its first request.
Incr(r) ==
    LET w == Window(req[r].since) IN
    /\ req[r].step = "incr"
    /\ keys' = Incremented(w)
    /\ Serve("redis", req[r].since, Count(w) + 1 <= Limit)
    /\ Go(r, IF Count(w) = 0 THEN [req[r] EXCEPT !.step = "expire"] ELSE Idle)
    /\ UNCHANGED <<now, counter, faults, restarts>>

\* Redis answers with an error, or its answer is lost: the client library sends
\* the command again, or gives up.
IncrFails(r) ==
    /\ req[r].step = "incr"
    /\ faults < MaxFaults
    /\ faults' = faults + 1
    /\ keys' \in {keys, Incremented(Window(req[r].since))}
    /\ \E step \in {"incr", "memory"} : Go(r, [req[r] EXCEPT !.step = step])
    /\ UNCHANGED <<now, counter, served, restarts>>

\* The result of EXPIRE is ignored.
Expire(r) ==
    /\ req[r].step = "expire"
    /\ \/ /\ keys' = {IF k.window = Window(req[r].since) THEN [k EXCEPT !.expires = now + Minute]
                      ELSE k : k \in keys}
          /\ UNCHANGED faults
       \/ /\ faults < MaxFaults /\ faults' = faults + 1
          /\ UNCHANGED keys
    /\ Go(r, Idle)
    /\ UNCHANGED <<now, counter, served, restarts>>

\* The fallback, under its lock.
AllowInMemory(r) ==
    LET c == IF now > counter.reset THEN [count |-> 1, reset |-> now + Minute]
             ELSE [counter EXCEPT !.count = @ + 1] IN
    /\ req[r].step = "memory"
    /\ counter' = c
    /\ Serve("memory", now, c.count <= Limit)
    /\ Go(r, Idle)
    /\ UNCHANGED <<now, keys, faults, restarts>>

RedisRestarts ==
    /\ keys # {}
    /\ restarts < MaxRestarts
    /\ restarts' = restarts + 1
    /\ keys' = {}
    /\ UNCHANGED <<now, counter, req, served, faults>>

\* The clock goes on, as long as no request takes longer than MaxLag; Redis
\* drops what has expired.
Tick ==
    /\ now < MaxTime
    /\ \A r \in InFlight : now - req[r].since < MaxLag
    /\ now' = now + 1
    /\ keys' = {k \in keys : k.expires > now + 1}
    /\ UNCHANGED <<counter, req, served, faults, restarts>>

Next ==
    \/ \E r \in Requests :
          Arrive(r) \/ Incr(r) \/ IncrFails(r) \/ Expire(r) \/ AllowInMemory(r)
    \/ RedisRestarts
    \/ Tick

Spec == Init /\ [][Next]_vars

-----------------------------------------------------------------------------
(* Properties                                                              *)

Admitted == {d \in served : d.allowed}
Within(S, t) == {d \in S : d.at \in t..(t + Minute - 1)}

RedisIn(w) == {d \in Admitted : d.by = "redis" /\ Window(d.at) = w}

\* In a minute of the clock Redis admits at most twice the limit, and once more
\* the limit for each time it restarts empty, also when requests reach it after
\* the minute, answers and EXPIREs are lost, or others fall back to memory
\* meanwhile.  Twice, because the counter lives for a minute from its first
\* request and the last requests of the minute may find it expired (redisAllow).
WindowLimit ==
    \A w \in 0..Window(MaxTime) : Cardinality(RedisIn(w)) <= Limit * (2 + restarts)

\* The counter in memory admits at most twice the limit in any minute, whatever
\* share of the requests it sees (RateLimitStore.Allow).
MemoryLimit ==
    \A t \in 0..MaxTime :
        Cardinality({d \in Within(Admitted, t) : d.by = "memory"}) <= 2 * Limit

\* The requests that the counter that decided d had admitted for its minute.
Before(d) ==
    {e \in Admitted : /\ e.n < d.n
                      /\ e.by = d.by
                      /\ IF d.by = "redis" THEN Window(e.at) = Window(d.at)
                         ELSE e.at \in (d.at - Minute)..d.at}

\* Nobody is refused before the limit is used up, except that each answer Redis
\* loses after counting costs one admission of its minute.
RefusedIsOver ==
    \A d \in served : ~ d.allowed =>
        Cardinality(Before(d)) >= IF d.by = "redis" THEN Limit - faults ELSE Limit

\* "redisAllow implements a per-IP, per-bucket fixed-window counter in Redis
\* (1-minute window)": a minute of the clock admits at most the limit.
FixedWindow ==
    \A w \in 0..Window(MaxTime) : Cardinality(RedisIn(w)) <= Limit

\* "`SubscribeLimit`: 10 requests/minute": no minute admits more than the limit.
PerMinute == \A t \in 0..MaxTime : Cardinality(Within(Admitted, t)) <= Limit
=============================================================================
