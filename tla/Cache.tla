-------------------------------- MODULE Cache --------------------------------
(***************************************************************************)
(* One key of the cache: the map in memory, Redis, and the monitor that    *)
(* pings Redis and switches between them.  A call takes the backend of the *)
(* moment and stays with it.  In memory every access holds the lock, but   *)
(* Get gives it up between finding an item, judging its age and deleting   *)
(* it.  An outage hides Redis and may lose its data.                       *)
(***************************************************************************)
EXTENDS Naturals

CONSTANTS
    Clients,   \* concurrent callers
    Ttls,      \* expirations asked for; 0 for none
    MaxTime,   \* bound on the clock
    MaxSets,   \* bound on the values set
    MaxOutages \* bound on outages of Redis

CacheAssumption ==
    /\ Ttls \subseteq Nat
    /\ MaxTime \in Nat
    /\ MaxSets \in Nat
    /\ MaxOutages \in Nat

VARIABLES
    now,     \* the clock
    store,   \* what each backend holds under the key
    backend, \* the backend of the switchable cache
    up,      \* whether Redis answers
    ping,    \* the answer the monitor has and has not acted on
    call,    \* what each client is doing
    got,     \* the last value each client got, and when it had asked
    sets,    \* values set so far
    outages  \* outages so far

vars == <<now, store, backend, up, ping, call, got, sets, outages>>

Backends == {"memory", "redis"}

\* exp: the time after which the item is stale; 0 for never.
Item == [v : 0..MaxSets, exp : Nat]
None == [v |-> 0, exp |-> 0]

Call == [step : {"idle", "read", "judge", "drop", "set", "delete"},
         on : Backends, item : Item, since : 0..MaxTime]
Idle == [step |-> "idle", on |-> "memory", item |-> None, since |-> 0]

TypeOK ==
    /\ now \in 0..MaxTime
    /\ store \in [Backends -> Item]
    /\ backend \in Backends
    /\ up \in BOOLEAN
    /\ ping \in {"none", "ok", "failed"}
    /\ call \in [Clients -> Call]
    /\ got \in [Clients -> [item : Item, since : 0..MaxTime]]
    /\ sets \in 0..MaxSets
    /\ outages \in 0..MaxOutages

Init ==
    /\ now = 0
    /\ store = [b \in Backends |-> None]
    /\ up \in BOOLEAN
    /\ backend = IF up THEN "redis" ELSE "memory"
    /\ ping = "none"
    /\ call = [c \in Clients |-> Idle]
    /\ got = [c \in Clients |-> [item |-> None, since |-> 0]]
    /\ sets = 0
    /\ outages = 0

-----------------------------------------------------------------------------

Go(c, k)     == call' = [call EXCEPT ![c] = k]
Expired(i)   == i.exp # 0 /\ now > i.exp
Reaches(k)   == k.on = "memory" \/ up
Return(c, i) == got' = [got EXCEPT ![c] = [item |-> i, since |-> call[c].since]]

Get(c) ==
    /\ call[c] = Idle
    /\ Go(c, [Idle EXCEPT !.step = "read", !.on = backend, !.since = now])
    /\ UNCHANGED <<now, store, backend, up, ping, got, sets, outages>>

\* Redis judges the age itself, and answers with an error when it is down.
Read(c) ==
    LET k == call[c] IN
    /\ k.step = "read"
    /\ IF k.on = "redis" \/ store[k.on] = None
       THEN /\ Go(c, Idle)
            /\ IF Reaches(k) THEN Return(c, store[k.on]) ELSE UNCHANGED got
       ELSE /\ Go(c, [k EXCEPT !.step = "judge", !.item = store[k.on]])
            /\ UNCHANGED got
    /\ UNCHANGED <<now, store, backend, up, ping, sets, outages>>

\* Faulty variant of Judge: the age is not looked at.
JudgeNothing(c) ==
    /\ call[c].step = "judge"
    /\ Go(c, Idle)
    /\ Return(c, call[c].item)
    /\ UNCHANGED <<now, store, backend, up, ping, sets, outages>>

Judge(c) ==
    LET k == call[c] IN
    /\ k.step = "judge"
    /\ IF Expired(k.item)
       THEN Go(c, [k EXCEPT !.step = "drop"]) /\ UNCHANGED got
       ELSE Go(c, Idle) /\ Return(c, k.item)
    /\ UNCHANGED <<now, store, backend, up, ping, sets, outages>>

\* Get deletes the key, whatever it holds by now.
Drop(c) ==
    /\ call[c].step = "drop"
    /\ store' = [store EXCEPT !["memory"] = None]
    /\ Go(c, Idle)
    /\ Return(c, None)
    /\ UNCHANGED <<now, backend, up, ping, sets, outages>>

Set(c, ttl) ==
    /\ call[c] = Idle
    /\ sets < MaxSets
    /\ sets' = sets + 1
    /\ Go(c, [step |-> "set", on |-> backend, since |-> now,
              item |-> [v |-> sets + 1, exp |-> IF ttl = 0 THEN 0 ELSE now + ttl]])
    /\ UNCHANGED <<now, store, backend, up, ping, got, outages>>

Delete(c) ==
    /\ call[c] = Idle
    /\ Go(c, [Idle EXCEPT !.step = "delete", !.on = backend, !.since = now])
    /\ UNCHANGED <<now, store, backend, up, ping, got, sets, outages>>

\* The expiration counts from before the lock in memory, from the command in Redis.
Stored(k) ==
    IF k.on = "redis" /\ k.item.exp # 0 THEN [k.item EXCEPT !.exp = @ + now - k.since] ELSE k.item

\* The write of a Set, a Delete or a Clear; an unreachable Redis keeps what it has.
Write(c) ==
    LET k == call[c] IN
    /\ k.step \in {"set", "delete"}
    /\ store' = IF Reaches(k) THEN [store EXCEPT ![k.on] = Stored(k)] ELSE store
    /\ Go(c, Idle)
    /\ UNCHANGED <<now, backend, up, ping, got, sets, outages>>

\* Once a minute.
CleanupExpired ==
    /\ Expired(store["memory"])
    /\ store' = [store EXCEPT !["memory"] = None]
    /\ UNCHANGED <<now, backend, up, ping, call, got, sets, outages>>

\* Every ten seconds.
Ping ==
    /\ ping = "none"
    /\ ping' = IF up THEN "ok" ELSE "failed"
    /\ UNCHANGED <<now, store, backend, up, call, got, sets, outages>>

SetBackend ==
    /\ ping # "none"
    /\ backend' = IF ping = "ok" THEN "redis" ELSE "memory"
    /\ ping' = "none"
    /\ UNCHANGED <<now, store, up, call, got, sets, outages>>

Outage ==
    /\ up /\ outages < MaxOutages
    /\ outages' = outages + 1
    /\ up' = FALSE
    /\ UNCHANGED <<now, store, backend, ping, call, got, sets>>

Recovery ==
    /\ ~ up
    /\ up' = TRUE
    /\ \E i \in {store["redis"], None} : store' = [store EXCEPT !["redis"] = i]
    /\ UNCHANGED <<now, backend, ping, call, got, sets, outages>>

\* Redis drops an item when its time is over.
Tick ==
    /\ now < MaxTime
    /\ now' = now + 1
    /\ store' = IF store["redis"].exp = now + 1 THEN [store EXCEPT !["redis"] = None] ELSE store
    /\ UNCHANGED <<backend, up, ping, call, got, sets, outages>>

Next ==
    \/ \E c \in Clients :
          \/ Get(c) \/ Read(c) \/ Judge(c) \/ Drop(c)
          \/ \E ttl \in Ttls : Set(c, ttl)
          \/ Delete(c) \/ Write(c)
    \/ CleanupExpired \/ Ping \/ SetBackend \/ Outage \/ Recovery \/ Tick

\* The monitor goes on until the program ends.
Fairness == WF_vars(Ping) /\ WF_vars(SetBackend)

Spec == Init /\ [][Next]_vars /\ Fairness

-----------------------------------------------------------------------------
(* Properties                                                              *)

\* No call of Get returns a value that had expired before the call began,
\* although the item is found, judged and deleted under three locks, from a
\* backend that may be switched away and back with what it held.
HitIsFresh ==
    \A c \in Clients : got[c].item.exp = 0 \/ got[c].since <= got[c].item.exp

\* With one client, an item in memory that has not expired goes only by a Set,
\* Delete or Clear on it: neither Get nor the cleanup takes it.
KeptUntilExpired ==
    [][LET i == store["memory"] IN
       i # None /\ ~ Expired(i) /\ store'["memory"] # i =>
         \E c \in Clients : call[c].step \in {"set", "delete"} /\ call'[c] = Idle]_vars

\* A Redis that keeps answering is used in the end, and one that stays away is
\* not (monitorRedis).
FollowsRedis ==
    /\ <>[]up => <>[](backend = "redis")
    /\ <>[](~ up) => <>[](backend = "memory")
=============================================================================
