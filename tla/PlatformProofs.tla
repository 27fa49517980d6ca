--------------------------- MODULE PlatformProofs ---------------------------
(***************************************************************************)
(* Proofs about what the handlers stand on: the cache, for any number of   *)
(* callers, expirations and outages; the rate limiter, for any limit,      *)
(* length of a minute, lag shorter than that and number of restarts, and   *)
(* each decision on the counter that made it; the replay, for any number   *)
(* of files and workers; the spool of a single writer, for any capacity    *)
(* and sizes that fit it twice; and the delays between attempts, for any   *)
(* configuration and width of an integer.                                  *)
(***************************************************************************)
EXTENDS MCPlatform, FiniteSetTheorems, TLAPS

-----------------------------------------------------------------------------
(* The cache                                                               *)

\* What Redis holds has time left, a Set has, and no call began in the future.
CacheInv ==
    part = "cache" =>
        /\ Store!TypeOK
        /\ Store!HitIsFresh
        /\ store["redis"].exp = 0 \/ clock < store["redis"].exp
        /\ \A c \in Clients :
              /\ call[c].since <= clock
              /\ call[c].step \in {"set", "delete"} =>
                    call[c].item.exp = 0 \/ call[c].since < call[c].item.exp

LEMMA CacheBegins == InitOthers => CacheInv
<1> SUFFICES ASSUME part = "cache", Store!Init
             PROVE  CacheInv
  BY DEF InitOthers, CacheInv
<1>1. Store!None \in Store!Item /\ Store!None.exp = 0 /\ Store!Idle \in Store!Call
      /\ Store!Idle.since = 0 /\ Store!Idle.step = "idle"
  BY MCPlatformAssumption
     DEF Store!CacheAssumption, Store!None, Store!Item, Store!Idle, Store!Call, Store!Backends
<1>2. Store!TypeOK
  BY <1>1, MCPlatformAssumption
     DEF Store!CacheAssumption, Store!Init, Store!TypeOK, Store!Backends
<1>3. Store!HitIsFresh
  BY <1>1 DEF Store!Init, Store!HitIsFresh
<1> QED
  BY <1>1, <1>2, <1>3 DEF CacheInv, Store!Init, Store!Backends

\* What a caller got is as it asked for it, and the rest of the cache may move on.
LEMMA CacheHits ==
    ASSUME Store!TypeOK, Store!HitIsFresh, NEW c \in Clients, NEW i \in Store!Item,
           Store!Return(c, i), i.exp = 0 \/ call[c].since <= i.exp
    PROVE  Store!HitIsFresh' /\ got' \in [Clients -> [item : Store!Item, since : 0..MaxClock]]
<1>1. PICK g : g = [item |-> i, since |-> call[c].since]
  OBVIOUS
<1>2. call[c].since \in 0..MaxClock
  BY DEF Store!TypeOK, Store!Call
<1>3. g \in [item : Store!Item, since : 0..MaxClock] /\ g.item = i /\ g.since = call[c].since
  BY <1>1, <1>2
<1>4. got' = [got EXCEPT ![c] = g]
  BY <1>1 DEF Store!Return
<1> QED
  BY <1>3, <1>4 DEF Store!TypeOK, Store!HitIsFresh

LEMMA CacheNext ==
    ASSUME CacheInv, part = "cache", Store!Next, UNCHANGED part
    PROVE  CacheInv'
<1>1. /\ Store!TypeOK /\ Store!HitIsFresh
      /\ store["redis"].exp = 0 \/ clock < store["redis"].exp
      /\ \A c \in Clients :
            /\ call[c].since <= clock
            /\ call[c].step \in {"set", "delete"} => call[c].item.exp = 0 \/ call[c].since < call[c].item.exp
  BY DEF CacheInv
<1>2. MaxClock \in Nat /\ MaxSets \in Nat /\ MaxOutages \in Nat /\ Ttls \subseteq Nat
  BY MCPlatformAssumption DEF Store!CacheAssumption
<1>3. /\ clock \in Nat /\ store["redis"].exp \in Nat /\ store["memory"].exp \in Nat
      /\ store["redis"] \in Store!Item /\ store["memory"] \in Store!Item
      /\ store \in [{"memory", "redis"} -> Store!Item]
      /\ \A c \in Clients : /\ call[c] \in Store!Call
                            /\ call[c].since \in Nat /\ call[c].item \in Store!Item
                            /\ call[c].item.exp \in Nat /\ call[c].on \in {"memory", "redis"}
  BY <1>1, <1>2 DEF Store!TypeOK, Store!Item, Store!Call, Store!Backends
<1>4. Store!None \in Store!Item /\ Store!None.exp = 0 /\ Store!Idle \in Store!Call
      /\ Store!Idle.since = 0 /\ Store!Idle.step = "idle"
  BY <1>2 DEF Store!None, Store!Item, Store!Idle, Store!Call, Store!Backends
\* One caller goes on; the store changes at most for what has time left.
<1>5. ASSUME NEW c \in Clients, NEW k \in Store!Call, Store!Go(c, k), k.since <= clock,
             k.step \in {"set", "delete"} => k.item.exp = 0 \/ k.since < k.item.exp,
             store' \in [{"memory", "redis"} -> Store!Item],
             store'["redis"].exp = 0 \/ clock < store'["redis"].exp,
             sets' \in 0..MaxSets, UNCHANGED <<clock, backend, up, ping, outages>>,
             \/ UNCHANGED got
             \/ \E i \in Store!Item :
                   Store!Return(c, i) /\ (i.exp = 0 \/ call[c].since <= i.exp)
      PROVE  CacheInv'
  <2>1. Store!HitIsFresh' /\ got' \in [Clients -> [item : Store!Item, since : 0..MaxClock]]
    <3>1. CASE UNCHANGED got
      BY <1>1, <3>1 DEF Store!HitIsFresh, Store!TypeOK
    <3>2. CASE \E i \in Store!Item :
                  Store!Return(c, i) /\ (i.exp = 0 \/ call[c].since <= i.exp)
      BY <1>1, <3>2, CacheHits
    <3> QED
      BY <1>5, <3>1, <3>2
  <2>2. /\ call' \in [Clients -> Store!Call]
        /\ \A d \in Clients :
              /\ call'[d].since <= clock
              /\ call'[d].step \in {"set", "delete"} =>
                    call'[d].item.exp = 0 \/ call'[d].since < call'[d].item.exp
    BY <1>1, <1>5 DEF Store!TypeOK, Store!Go
  <2>3. Store!TypeOK'
    BY <1>1, <1>5, <2>1, <2>2 DEF Store!TypeOK, Store!Backends, Store!Item, Store!Call
  <2> QED
    BY <1>5, <2>1, <2>2, <2>3 DEF CacheInv
\* The clock, Redis and the monitor move.
<1>6. ASSUME UNCHANGED <<call, got, sets>>, clock' \in clock..MaxClock,
             store' \in [{"memory", "redis"} -> Store!Item],
             store'["redis"].exp = 0 \/ clock' < store'["redis"].exp,
             backend' \in {"memory", "redis"}, up' \in BOOLEAN,
             ping' \in {"none", "ok", "failed"}, outages' \in 0..MaxOutages
      PROVE  CacheInv'
  <2>1. Store!HitIsFresh'
    BY <1>1, <1>6 DEF Store!HitIsFresh
  <2>2. \A c \in Clients : call'[c].since <= clock'
    BY <1>1, <1>2, <1>3, <1>6
  <2>3. Store!TypeOK'
    BY <1>1, <1>2, <1>3, <1>6 DEF Store!TypeOK, Store!Backends, Store!Item, Store!Call
  <2> QED
    BY <1>1, <1>6, <2>1, <2>2, <2>3 DEF CacheInv
<1>7. ASSUME NEW c \in Clients, Store!Get(c) \/ Store!Delete(c)
      PROVE  CacheInv'
  <2>1. PICK k : Store!Go(c, k) /\ k.step \in {"read", "delete"} /\ k.since = clock
                 /\ k.item = Store!None /\ k \in Store!Call
    <3>1. \A step \in {"read", "delete"} :
             LET k == [Store!Idle EXCEPT !.step = step, !.on = backend, !.since = clock]
             IN  /\ k.step = step /\ k.since = clock
                 /\ k.item = Store!None /\ k \in Store!Call
      BY <1>1, <1>2, <1>4 DEF Store!Idle, Store!Call, Store!TypeOK
    <3> QED
      BY <1>7, <3>1 DEF Store!Get, Store!Delete
  <2>2. UNCHANGED <<clock, store, backend, up, ping, got, sets, outages>>
    BY <1>7 DEF Store!Get, Store!Delete
  <2> QED
    BY <1>1, <1>3, <1>4, <1>5, <2>1, <2>2 DEF Store!TypeOK
<1>8. ASSUME NEW c \in Clients, Store!Read(c)
      PROVE  CacheInv'
  <2>1. UNCHANGED <<clock, store, backend, up, ping, sets, outages>> /\ call[c].step = "read"
    BY <1>8 DEF Store!Read
  <2>2. CASE Store!Go(c, Store!Idle)
             /\ (UNCHANGED got \/ Store!Return(c, store[call[c].on]))
             /\ (call[c].on = "redis" \/ store[call[c].on] = Store!None)
    <3>1. PICK i \in Store!Item : i = store[call[c].on]
      BY <1>3
    <3>2. i.exp = 0 \/ call[c].since <= i.exp
      BY <1>1, <1>3, <1>4, <2>2, <3>1
    <3> QED
      BY <1>1, <1>3, <1>4, <1>5, <2>1, <2>2, <3>1, <3>2 DEF Store!TypeOK
  <2>3. CASE Store!Go(c, [call[c] EXCEPT !.step = "judge", !.item = store[call[c].on]])
             /\ UNCHANGED got
    <3>1. PICK k : k = [call[c] EXCEPT !.step = "judge", !.item = store[call[c].on]]
      OBVIOUS
    <3>2. k \in Store!Call /\ k.step = "judge" /\ k.since = call[c].since
      <4>1. store[call[c].on] \in Store!Item
        BY <1>3
      <4> QED
        BY <1>3, <3>1, <4>1 DEF Store!Call
    <3> QED
      BY <1>1, <1>3, <1>5, <2>1, <2>3, <3>1, <3>2 DEF Store!TypeOK
  <2> QED
    BY <1>8, <2>2, <2>3 DEF Store!Read
<1>9. ASSUME NEW c \in Clients, Store!Judge(c)
      PROVE  CacheInv'
  <2>1. UNCHANGED <<clock, store, backend, up, ping, sets, outages>>
    BY <1>9 DEF Store!Judge
  <2>2. CASE Store!Expired(call[c].item)
    <3>1. PICK k : k = [call[c] EXCEPT !.step = "drop"]
      OBVIOUS
    <3>2. k \in Store!Call /\ k.step = "drop" /\ k.since = call[c].since
      BY <1>3, <3>1 DEF Store!Call
    <3>3. Store!Go(c, k) /\ UNCHANGED got
      BY <1>9, <2>2, <3>1 DEF Store!Judge
    <3> QED
      BY <1>1, <1>3, <1>5, <2>1, <3>2, <3>3 DEF Store!TypeOK
  <2>3. CASE ~ Store!Expired(call[c].item)
    <3>1. PICK i \in Store!Item : i = call[c].item
      BY <1>3
    <3>2. i.exp = 0 \/ call[c].since <= i.exp
      BY <1>1, <1>3, <2>3, <3>1 DEF Store!Expired
    <3>3. Store!Go(c, Store!Idle) /\ Store!Return(c, i)
      BY <1>9, <2>3, <3>1 DEF Store!Judge
    <3> QED
      BY <1>1, <1>3, <1>4, <1>5, <2>1, <3>2, <3>3 DEF Store!TypeOK
  <2> QED
    BY <2>2, <2>3
<1>10. ASSUME NEW c \in Clients, Store!Drop(c)
       PROVE  CacheInv'
  <2>1. /\ store' = [store EXCEPT !["memory"] = Store!None]
        /\ Store!Go(c, Store!Idle) /\ Store!Return(c, Store!None)
        /\ UNCHANGED <<clock, backend, up, ping, sets, outages>>
    BY <1>10 DEF Store!Drop
  <2>2. store' \in [{"memory", "redis"} -> Store!Item] /\ store'["redis"] = store["redis"]
    BY <1>3, <1>4, <2>1
  <2> QED
    BY <1>1, <1>3, <1>4, <1>5, <2>1, <2>2 DEF Store!TypeOK
<1>11. ASSUME NEW c \in Clients, NEW ttl \in Ttls, Store!Set(c, ttl)
       PROVE  CacheInv'
  <2>1. /\ sets < MaxSets /\ sets' = sets + 1
        /\ Store!Go(c, [step |-> "set", on |-> backend, since |-> clock,
                        item |-> [v |-> sets + 1, exp |-> IF ttl = 0 THEN 0 ELSE clock + ttl]])
        /\ UNCHANGED <<clock, store, backend, up, ping, got, outages>>
    BY <1>11 DEF Store!Set
  <2>2. PICK i : i = [v |-> sets + 1, exp |-> IF ttl = 0 THEN 0 ELSE clock + ttl]
    OBVIOUS
  <2>3. sets \in Nat /\ sets + 1 \in 0..MaxSets /\ ttl \in Nat
    BY <1>1, <1>2, <2>1 DEF Store!TypeOK
  <2>4. i \in Store!Item /\ (i.exp = 0 \/ clock < i.exp)
    BY <1>3, <2>2, <2>3 DEF Store!Item
  <2>5. PICK k : k = [step |-> "set", on |-> backend, since |-> clock, item |-> i]
    OBVIOUS
  <2>6. k \in Store!Call /\ k.since = clock /\ k.item = i
    BY <1>1, <2>4, <2>5 DEF Store!Call, Store!TypeOK
  <2> QED
    BY <1>1, <1>3, <1>5, <2>1, <2>2, <2>3, <2>4, <2>5, <2>6
<1>12. ASSUME NEW c \in Clients, Store!Write(c)
       PROVE  CacheInv'
  <2> DEFINE k == call[c]
             i == Store!Stored(k)
  <2>1. /\ k.step \in {"set", "delete"}
        /\ store' = [store EXCEPT ![k.on] = i] \/ UNCHANGED store
        /\ Store!Go(c, Store!Idle)
        /\ UNCHANGED <<clock, backend, up, ping, got, sets, outages>>
    BY <1>12 DEF Store!Write
  <2>2. k \in Store!Call /\ k.item \in Store!Item /\ k.item.exp \in Nat /\ k.since \in Nat
        /\ k.on \in {"memory", "redis"} /\ k.since <= clock
    BY <1>1, <1>3
  <2>3. k.item.exp + clock - k.since \in Nat
    BY <1>3, <2>2
  <2>4. i \in Store!Item
    <3>1. [k.item EXCEPT !.exp = k.item.exp + clock - k.since] \in Store!Item
      BY <2>2, <2>3 DEF Store!Item
    <3> HIDE DEF k
    <3> QED
      BY <2>2, <3>1 DEF Store!Stored
  <2>5. ASSUME k.on = "redis"
        PROVE  i.exp = 0 \/ clock < i.exp
    <3>1. CASE k.item.exp = 0
      BY <2>2, <3>1 DEF Store!Stored
    <3>2. CASE k.item.exp # 0
      <4>1. i = [k.item EXCEPT !.exp = k.item.exp + clock - k.since]
        BY <2>5, <3>2 DEF Store!Stored
      <4>2. i.exp = k.item.exp + clock - k.since
        BY <2>2, <4>1 DEF Store!Item
      <4>3. k.since < k.item.exp
        BY <1>1, <2>1, <3>2
      <4> QED
        BY <1>3, <2>2, <4>2, <4>3
    <3> QED
      BY <3>1, <3>2
  <2>6. store' \in [{"memory", "redis"} -> Store!Item]
        /\ (store'["redis"].exp = 0 \/ clock < store'["redis"].exp)
    <3> HIDE DEF i, k
    <3> QED
      BY <1>1, <1>3, <2>1, <2>2, <2>4, <2>5
  <2> QED
    BY <1>1, <1>3, <1>4, <1>5, <2>1, <2>6 DEF Store!TypeOK
<1>13. ASSUME Store!CleanupExpired \/ Store!Ping \/ Store!SetBackend \/ Store!Outage
       PROVE  CacheInv'
  <2>1. /\ UNCHANGED <<call, got, sets, clock>>
        /\ store' = store \/ store' = [store EXCEPT !["memory"] = Store!None]
        /\ backend' \in {"memory", "redis"} /\ up' \in BOOLEAN
        /\ ping' \in {"none", "ok", "failed"} /\ outages' \in 0..MaxOutages
    <3>1. CASE Store!CleanupExpired \/ Store!Ping \/ Store!SetBackend
      <4>1. /\ backend \in {"memory", "redis"} /\ up \in BOOLEAN
            /\ ping \in {"none", "ok", "failed"} /\ outages \in 0..MaxOutages
        BY <1>1 DEF Store!TypeOK, Store!Backends
      <4>2. CASE Store!CleanupExpired
        BY <4>1, <4>2 DEF Store!CleanupExpired
      <4>3. CASE Store!Ping
        BY <4>1, <4>3 DEF Store!Ping
      <4>4. CASE Store!SetBackend
        BY <4>1, <4>4 DEF Store!SetBackend
      <4> QED
        BY <3>1, <4>2, <4>3, <4>4
    <3>2. CASE Store!Outage
      <4>1. outages + 1 \in 0..MaxOutages
        BY <1>1, <1>2, <3>2 DEF Store!Outage, Store!TypeOK
      <4> QED
        BY <1>1, <3>2, <4>1 DEF Store!Outage, Store!TypeOK, Store!Backends
    <3> QED
      BY <1>13, <3>1, <3>2
  <2>2. store' \in [{"memory", "redis"} -> Store!Item] /\ store'["redis"] = store["redis"]
    BY <1>3, <1>4, <2>1
  <2>3. clock' \in clock..MaxClock
    BY <1>1, <1>2, <2>1 DEF Store!TypeOK
  <2> QED
    BY <1>1, <1>6, <2>1, <2>2, <2>3
<1>14. ASSUME Store!Recovery
       PROVE  CacheInv'
  <2>1. PICK i \in {store["redis"], Store!None} : store' = [store EXCEPT !["redis"] = i]
    BY <1>14 DEF Store!Recovery
  <2>2. /\ UNCHANGED <<clock, backend, ping, call, got, sets, outages>> /\ up' = TRUE
    BY <1>14 DEF Store!Recovery
  <2>3. store' \in [{"memory", "redis"} -> Store!Item]
        /\ (store'["redis"].exp = 0 \/ clock < store'["redis"].exp)
    BY <1>1, <1>3, <1>4, <2>1
  <2>4. clock' \in clock..MaxClock
    BY <1>1, <1>2, <2>2 DEF Store!TypeOK
  <2> QED
    BY <1>1, <1>6, <2>2, <2>3, <2>4 DEF Store!TypeOK, Store!Backends
<1>15. ASSUME Store!Tick
       PROVE  CacheInv'
  <2>1. /\ clock < MaxClock /\ clock' = clock + 1
        /\ store' = IF store["redis"].exp = clock + 1 THEN [store EXCEPT !["redis"] = Store!None]
                    ELSE store
        /\ UNCHANGED <<backend, up, ping, call, got, sets, outages>>
    BY <1>15 DEF Store!Tick
  <2>2. store' \in [{"memory", "redis"} -> Store!Item]
        /\ (store'["redis"].exp = 0 \/ clock' < store'["redis"].exp)
    BY <1>1, <1>3, <1>4, <2>1
  <2>3. clock' \in clock..MaxClock
    BY <1>2, <1>3, <2>1
  <2> QED
    BY <1>1, <1>6, <2>1, <2>2, <2>3 DEF Store!TypeOK, Store!Backends
<1> QED
  BY <1>7, <1>8, <1>9, <1>10, <1>11, <1>12, <1>13, <1>14, <1>15 DEF Store!Next

LEMMA CacheKeeps ==
    ASSUME CacheInv,
           [Next]_<<spoolVars, limitVars, cacheVars, backoffVars, replayVars, part>>
    PROVE  CacheInv'
<1>1. CASE UNCHANGED cacheVars /\ UNCHANGED part
  BY <1>1 DEF cacheVars, CacheInv, Store!TypeOK, Store!HitIsFresh
<1>2. CASE part = "cache" /\ Store!Next /\ UNCHANGED part
  BY <1>2, CacheNext
<1> QED
  BY <1>1, <1>2 DEF Next

\* Get never returns a value that had expired before the call began, although the
\* item is found, judged and deleted under three locks and the backend is switched
\* away and back with what it held.
THEOREM HitsAreFresh == Spec => []HitIsFresh
<1>1. CacheInv => HitIsFresh
  BY DEF CacheInv, HitIsFresh
<1>2. Init => CacheInv
  BY CacheBegins DEF Init
<1> QED
  BY <1>1, <1>2, CacheKeeps, PTL DEF Spec

-----------------------------------------------------------------------------
(* The replay                                                              *)

\* Whether a worker has the file: received, and not sent as a result yet.
Has(t, f) == t.step \in {"delay", "request", "send"} /\ t.file = f

\* Each file is in exactly one place: waiting, with one worker, among the results
\* with one outcome, or counted.
InOnePlace ==
    /\ \A f \in work : /\ f \notin caller.counted
                       /\ \A w \in Pool!Workers : ~ Has(worker[w], f)
                       /\ \A r \in results : r.file # f
    /\ \A f \in Files : \A w \in Pool!Workers :
          Has(worker[w], f) => /\ f \notin caller.counted
                               /\ \A v \in Pool!Workers : Has(worker[v], f) => v = w
                               /\ \A r \in results : r.file # f
    /\ \A r \in results : /\ r.file \notin caller.counted
                          /\ \A q \in results : q.file = r.file => q = r
    /\ \A f \in Files : \/ f \in work \/ f \in caller.counted
                        \/ \E w \in Pool!Workers : Has(worker[w], f)
                        \/ \E r \in results : r.file = f

\* A worker is done when nothing waits, and the channel is closed when all are.
DoneInOrder ==
    /\ \A w \in Pool!Workers : worker[w].step = "done" => work = {}
    /\ closed => \A w \in Pool!Workers : worker[w].step = "done"

\* The types the argument needs: not how often a worker has sent.
PoolWorker == [step : {"receive", "delay", "request", "send", "done"},
               file : Files \cup {Pool!NoFile}, success : BOOLEAN, sent : Nat]

PoolTypes ==
    /\ work \subseteq Files
    /\ results \subseteq Pool!Outcome
    /\ worker \in [Pool!Workers -> PoolWorker]
    /\ caller \in [counted : SUBSET Files, successes : Nat, failures : Nat, returned : BOOLEAN]
    /\ \A w \in Pool!Workers :
          worker[w].step \in {"delay", "request", "send"} => worker[w].file \in Files

PoolInv == PoolTypes /\ InOnePlace /\ DoneInOrder

\* The instances count as this module does.
LEMMA SameCount ==
    /\ \A S : Pool!IsFiniteSet(S) <=> IsFiniteSet(S)
    /\ \A S : Pool!Cardinality(S) = Cardinality(S)
<1>1. \A S : Pool!IsFiniteSet(S) <=> IsFiniteSet(S)
  BY DEF Pool!IsFiniteSet, IsFiniteSet
<1>2. \A S : Pool!Cardinality(S) = Cardinality(S)
  BY DEF Pool!Cardinality, Cardinality
<1> QED
  BY <1>1, <1>2

LEMMA SomebodyWorks == 0 \in Pool!Workers
<1>1. Cardinality(Files) \in Nat /\ Cardinality(Files) # 0 /\ Concurrent \in Nat
  <2>1. IsFiniteSet(Files) /\ Files # {} /\ Concurrent \in Nat
    BY MCPlatformAssumption, SameCount DEF Pool!ReplayAssumption
  <2> QED
    BY <2>1, FS_CardinalityType, FS_EmptySet
<1>2. Pool!NumWorkers \in Nat \ {0}
  BY <1>1, SameCount DEF Pool!NumWorkers
<1> QED
  BY <1>2 DEF Pool!Workers

LEMMA PoolBegins == Pool!Init => PoolInv
  BY SomebodyWorks DEF Pool!Init, PoolInv, PoolTypes, PoolWorker, InOnePlace, DoneInOrder, Has,
     Pool!NoFile

\* When every worker is done and no result is left, every file has been counted.
LEMMA AllCounted ==
    ASSUME PoolInv, closed, results = {}
    PROVE  Files \ caller.counted = {}
<1>1. work = {} /\ \A w \in Pool!Workers : worker[w].step = "done"
  BY SomebodyWorks DEF PoolInv, DoneInOrder
<1> QED
  BY <1>1 DEF PoolInv, InOnePlace, Has

LEMMA PoolStepTallies ==
    ASSUME PoolInv, Pool!Next
    PROVE  Pool!Tally!Next \/ UNCHANGED Pool!Tally!vars
<1>1. ASSUME NEW r \in results, Pool!Collect(r)
      PROVE  Pool!Tally!Count(r.file) /\ r.file \in Files
  <2>1. r.file \in Files \ caller.counted /\ r.success \in BOOLEAN
    BY DEF PoolInv, PoolTypes, InOnePlace, Pool!Outcome
  <2>2. caller' = [caller EXCEPT !.counted = @ \cup {r.file},
                                 !.successes = IF r.success THEN @ + 1 ELSE @,
                                 !.failures = IF r.success THEN @ ELSE @ + 1]
    BY <1>1 DEF Pool!Collect
  <2>3. /\ caller'.counted = caller.counted \cup {r.file}
        /\ caller'.successes = IF r.success THEN caller.successes + 1 ELSE caller.successes
        /\ caller'.failures = IF r.success THEN caller.failures ELSE caller.failures + 1
        /\ caller'.returned = caller.returned
    BY <2>2 DEF PoolInv, PoolTypes
  <2> QED
    BY <2>1, <2>3 DEF Pool!Tally!Count
<1>2. ASSUME Pool!Return
      PROVE  Pool!Tally!Return
  <2>1. Files \ caller.counted = {}
    BY <1>2, AllCounted DEF Pool!Return
  <2>2. /\ caller'.counted = caller.counted /\ caller'.successes = caller.successes
        /\ caller'.failures = caller.failures /\ caller'.returned = TRUE
    BY <1>2 DEF Pool!Return, PoolInv, PoolTypes
  <2> QED
    BY <1>2, <2>1, <2>2 DEF Pool!Return, Pool!Tally!Return
<1>3. ASSUME UNCHANGED caller
      PROVE  UNCHANGED Pool!Tally!vars
  BY <1>3 DEF Pool!Tally!vars
<1>4. ASSUME NEW w \in Pool!Workers, NEW f \in work,
             Pool!Receive(w, f) \/ Pool!Sleep(w) \/ Pool!Request(w) \/ Pool!Send(w) \/ Pool!Exit(w)
      PROVE  UNCHANGED caller
  BY <1>4 DEF Pool!Receive, Pool!Sleep, Pool!Request, Pool!Send, Pool!Exit
<1>5. Pool!CloseResults => UNCHANGED caller
  BY DEF Pool!CloseResults
<1> QED
  BY <1>1, <1>2, <1>3, <1>4, <1>5 DEF Pool!Next, Pool!Tally!Next, Pool!Sleep, Pool!Request,
     Pool!Send, Pool!Exit

\* Whatever a worker does, the others hold what they held.
LEMMA PoolGo ==
    ASSUME PoolTypes, NEW w \in Pool!Workers, NEW t \in PoolWorker, Pool!Go(w, t)
    PROVE  /\ worker' \in [Pool!Workers -> PoolWorker]
           /\ worker'[w] = t
           /\ \A v \in Pool!Workers : v # w => worker'[v] = worker[v]
  BY DEF PoolTypes, Pool!Go

\* A worker goes on with its file, in another step.
LEMMA PoolGoesOn ==
    ASSUME PoolInv, NEW w \in Pool!Workers, NEW t \in PoolWorker, Pool!Go(w, t),
           worker[w].step \in {"delay", "request"}, t.step \in {"request", "send"},
           t.file = worker[w].file, UNCHANGED <<work, results, closed, caller>>
    PROVE  PoolInv'
<1>1. /\ worker' \in [Pool!Workers -> PoolWorker] /\ worker'[w] = t
      /\ \A v \in Pool!Workers : v # w => worker'[v] = worker[v]
  BY PoolGo DEF PoolInv
<1>2. \A v \in Pool!Workers : \A f : Has(worker'[v], f) <=> Has(worker[v], f)
  BY <1>1 DEF Has
<1>3. PoolTypes'
  BY <1>1 DEF PoolInv, PoolTypes
<1>4. InOnePlace'
  BY <1>2 DEF PoolInv, InOnePlace
<1>5. DoneInOrder'
  BY <1>1 DEF PoolInv, DoneInOrder
<1> QED
  BY <1>3, <1>4, <1>5 DEF PoolInv

LEMMA PoolReceives ==
    ASSUME PoolInv, NEW w \in Pool!Workers, NEW f \in work, Pool!Receive(w, f)
    PROVE  PoolInv'
<1>1. /\ worker[w].step = "receive" /\ work' = work \ {f}
      /\ UNCHANGED <<results, closed, caller>>
  BY DEF Pool!Receive
<1>2. PICK t : t = [worker[w] EXCEPT !.file = f,
                                     !.step = IF Pool!Delays(w) THEN "delay" ELSE "request"]
  OBVIOUS
<1>3. t \in PoolWorker /\ t.file = f /\ t.step \in {"delay", "request"} /\ f \in Files
  BY <1>2 DEF PoolInv, PoolTypes, PoolWorker
<1>4. /\ worker' \in [Pool!Workers -> PoolWorker] /\ worker'[w] = t
      /\ \A v \in Pool!Workers : v # w => worker'[v] = worker[v]
  BY <1>2, <1>3, PoolGo DEF PoolInv, Pool!Receive
<1>5. \A v \in Pool!Workers : \A g : Has(worker'[v], g) <=> Has(worker[v], g) \/ (v = w /\ g = f)
  BY <1>1, <1>3, <1>4 DEF Has
<1>6. PoolTypes'
  BY <1>1, <1>3, <1>4 DEF PoolInv, PoolTypes
<1>7. /\ f \notin caller.counted /\ \A v \in Pool!Workers : ~ Has(worker[v], f)
      /\ \A r \in results : r.file # f
      /\ \A g : ~ Has(worker[w], g)
  BY <1>1 DEF PoolInv, InOnePlace, Has
<1>8. InOnePlace'
  <2>1. ASSUME NEW g \in work'
        PROVE  /\ g \notin caller'.counted
               /\ \A v \in Pool!Workers : ~ Has(worker'[v], g)
               /\ \A r \in results' : r.file # g
    BY <1>1, <1>5, <2>1 DEF PoolInv, InOnePlace
  <2>2. ASSUME NEW g \in Files, NEW v \in Pool!Workers, Has(worker'[v], g)
        PROVE  /\ g \notin caller'.counted
               /\ \A u \in Pool!Workers : Has(worker'[u], g) => u = v
               /\ \A r \in results' : r.file # g
    <3>1. CASE Has(worker[v], g)
      BY <1>1, <1>5, <1>7, <3>1 DEF PoolInv, InOnePlace
    <3>2. CASE v = w /\ g = f
      BY <1>1, <1>5, <1>7, <3>2
    <3> QED
      BY <1>5, <2>2, <3>1, <3>2
  <2>3. \A g \in Files : \/ g \in work' \/ g \in caller'.counted
                         \/ \E v \in Pool!Workers : Has(worker'[v], g)
                         \/ \E r \in results' : r.file = g
    BY <1>1, <1>5 DEF PoolInv, InOnePlace
  <2>4. \A r \in results' : /\ r.file \notin caller'.counted
                            /\ \A q \in results' : q.file = r.file => q = r
    BY <1>1 DEF PoolInv, InOnePlace
  <2> QED
    BY <2>1, <2>2, <2>3, <2>4 DEF InOnePlace
<1>9. DoneInOrder'
  BY <1>1, <1>3, <1>4 DEF PoolInv, DoneInOrder
<1> QED
  BY <1>6, <1>8, <1>9 DEF PoolInv

LEMMA PoolSends ==
    ASSUME PoolInv, NEW w \in Pool!Workers, Pool!Send(w)
    PROVE  PoolInv'
<1>1. /\ worker[w].step = "send" /\ UNCHANGED <<work, closed, caller>>
      /\ results' = results \cup {[file |-> worker[w].file, success |-> worker[w].success]}
  BY DEF Pool!Send
<1>2. PICK t : t = [worker[w] EXCEPT !.step = "receive"]
  OBVIOUS
<1>3. t \in PoolWorker /\ t.step = "receive"
  BY <1>2 DEF PoolInv, PoolTypes, PoolWorker
<1>4. /\ worker' \in [Pool!Workers -> PoolWorker] /\ worker'[w] = t
      /\ \A v \in Pool!Workers : v # w => worker'[v] = worker[v]
  BY <1>2, <1>3, PoolGo DEF PoolInv, Pool!Send
<1>5. PICK r : r = [file |-> worker[w].file, success |-> worker[w].success]
  OBVIOUS
<1>6. r \in Pool!Outcome /\ r.file = worker[w].file /\ r.file \in Files
      /\ results' = results \cup {r}
  BY <1>1, <1>5 DEF PoolInv, PoolTypes, PoolWorker, Pool!Outcome
<1>7. /\ Has(worker[w], r.file)
      /\ \A v \in Pool!Workers : \A g : Has(worker'[v], g) <=> Has(worker[v], g) /\ v # w
      /\ \A g : Has(worker[w], g) <=> g = r.file
  BY <1>1, <1>3, <1>4, <1>6 DEF Has
<1>8. PoolTypes'
  BY <1>1, <1>3, <1>4, <1>6 DEF PoolInv, PoolTypes
<1>9. InOnePlace'
  BY <1>1, <1>6, <1>7 DEF PoolInv, InOnePlace
<1>10. DoneInOrder'
  BY <1>1, <1>3, <1>4 DEF PoolInv, DoneInOrder
<1> QED
  BY <1>8, <1>9, <1>10 DEF PoolInv

LEMMA PoolNext ==
    ASSUME PoolInv, Pool!Next
    PROVE  PoolInv'
<1>1. ASSUME NEW w \in Pool!Workers, Pool!Sleep(w) \/ Pool!Request(w)
      PROVE  PoolInv'
  <2>1. worker[w] \in PoolWorker /\ worker[w].sent + 1 \in Nat
    BY DEF PoolInv, PoolTypes, PoolWorker
  <2>2. CASE Pool!Sleep(w)
    <3>1. PICK t : t = [worker[w] EXCEPT !.step = "request"]
      OBVIOUS
    <3>2. t \in PoolWorker /\ t.step = "request" /\ t.file = worker[w].file
      BY <2>1, <3>1 DEF PoolWorker
    <3> QED
      BY <2>2, <3>1, <3>2, PoolGoesOn DEF Pool!Sleep
  <2>3. CASE Pool!Request(w)
    <3>1. PICK ok \in BOOLEAN :
             Pool!Go(w, [worker[w] EXCEPT !.step = "send", !.success = ok, !.sent = @ + 1])
      BY <2>3 DEF Pool!Request
    <3>2. PICK t : t = [worker[w] EXCEPT !.step = "send", !.success = ok, !.sent = @ + 1]
      OBVIOUS
    <3>3. t \in PoolWorker /\ t.step = "send" /\ t.file = worker[w].file
      BY <2>1, <3>2 DEF PoolWorker
    <3> QED
      BY <2>3, <3>1, <3>2, <3>3, PoolGoesOn DEF Pool!Request
  <2> QED
    BY <1>1, <2>2, <2>3
<1>2. ASSUME NEW w \in Pool!Workers, Pool!Exit(w)
      PROVE  PoolInv'
  <2>1. /\ worker[w].step = "receive" /\ work = {}
        /\ UNCHANGED <<work, results, closed, caller>>
    BY <1>2 DEF Pool!Exit
  <2>2. PICK t : t = [worker[w] EXCEPT !.step = "done"]
    OBVIOUS
  <2>3. t \in PoolWorker /\ t.step = "done"
    BY <2>2 DEF PoolInv, PoolTypes, PoolWorker
  <2>4. /\ worker' \in [Pool!Workers -> PoolWorker] /\ worker'[w] = t
        /\ \A v \in Pool!Workers : v # w => worker'[v] = worker[v]
    BY <1>2, <2>2, <2>3, PoolGo DEF PoolInv, Pool!Exit
  <2>5. \A v \in Pool!Workers : \A f : Has(worker'[v], f) <=> Has(worker[v], f)
    BY <2>1, <2>3, <2>4 DEF Has
  <2>6. PoolTypes'
    BY <2>1, <2>3, <2>4 DEF PoolInv, PoolTypes
  <2>7. InOnePlace'
    BY <2>1, <2>5 DEF PoolInv, InOnePlace
  <2>8. DoneInOrder'
    BY <2>1, <2>3, <2>4 DEF PoolInv, DoneInOrder
  <2> QED
    BY <2>6, <2>7, <2>8 DEF PoolInv
<1>3. ASSUME Pool!CloseResults
      PROVE  PoolInv'
  BY <1>3 DEF Pool!CloseResults, PoolInv, PoolTypes, InOnePlace, DoneInOrder
<1>4. ASSUME NEW r \in results, Pool!Collect(r)
      PROVE  PoolInv'
  <2>1. /\ results' = results \ {r} /\ UNCHANGED <<work, worker, closed>>
        /\ caller' = [caller EXCEPT !.counted = @ \cup {r.file},
                                    !.successes = IF r.success THEN @ + 1 ELSE @,
                                    !.failures = IF r.success THEN @ ELSE @ + 1]
    BY <1>4 DEF Pool!Collect
  <2>2. r.file \in Files
    BY DEF PoolInv, PoolTypes, Pool!Outcome
  <2>3. /\ caller'.counted = caller.counted \cup {r.file}
        /\ caller' \in [counted : SUBSET Files, successes : Nat, failures : Nat,
                        returned : BOOLEAN]
    <3>1. caller \in [counted : SUBSET Files, successes : Nat, failures : Nat,
                      returned : BOOLEAN]
      BY DEF PoolInv, PoolTypes
    <3>2. PICK s, n : /\ s = IF r.success THEN caller.successes + 1 ELSE caller.successes
                      /\ n = IF r.success THEN caller.failures ELSE caller.failures + 1
      OBVIOUS
    <3>3. s \in Nat /\ n \in Nat /\ caller.counted \cup {r.file} \in SUBSET Files
      BY <2>2, <3>1, <3>2
    <3>4. caller' = [caller EXCEPT !.counted = caller.counted \cup {r.file},
                                   !.successes = s, !.failures = n]
      BY <2>1, <3>2
    <3> QED
      BY <3>1, <3>3, <3>4
  <2>4. PoolTypes'
    BY <2>1, <2>3 DEF PoolInv, PoolTypes
  <2>5. InOnePlace'
    <3>1. /\ r.file \notin work
          /\ \A w \in Pool!Workers : ~ Has(worker[w], r.file)
          /\ \A q \in results' : q.file # r.file
      BY <2>1, <2>2 DEF PoolInv, InOnePlace
    <3>2. \A f \in work' : /\ f \notin caller'.counted
                           /\ \A w \in Pool!Workers : ~ Has(worker'[w], f)
                           /\ \A q \in results' : q.file # f
      BY <2>1, <2>3, <3>1 DEF PoolInv, InOnePlace
    <3>3. \A f \in Files : \A w \in Pool!Workers :
             Has(worker'[w], f) => /\ f \notin caller'.counted
                                   /\ \A v \in Pool!Workers : Has(worker'[v], f) => v = w
                                   /\ \A q \in results' : q.file # f
      BY <2>1, <2>3, <3>1 DEF PoolInv, InOnePlace
    <3>4. \A q \in results' : /\ q.file \notin caller'.counted
                              /\ \A p \in results' : p.file = q.file => p = q
      BY <2>1, <2>3, <3>1 DEF PoolInv, InOnePlace
    <3>5. \A f \in Files : \/ f \in work' \/ f \in caller'.counted
                           \/ \E w \in Pool!Workers : Has(worker'[w], f)
                           \/ \E q \in results' : q.file = f
      BY <2>1, <2>3 DEF PoolInv, InOnePlace
    <3> QED
      BY <3>2, <3>3, <3>4, <3>5 DEF InOnePlace
  <2>6. DoneInOrder'
    BY <2>1 DEF PoolInv, DoneInOrder
  <2> QED
    BY <2>4, <2>5, <2>6 DEF PoolInv
<1>5. ASSUME Pool!Return
      PROVE  PoolInv'
  <2>1. /\ caller'.counted = caller.counted
        /\ caller' \in [counted : SUBSET Files, successes : Nat, failures : Nat,
                        returned : BOOLEAN]
        /\ UNCHANGED <<work, results, worker, closed>>
    BY <1>5 DEF Pool!Return, PoolInv, PoolTypes
  <2> QED
    BY <2>1 DEF PoolInv, PoolTypes, InOnePlace, DoneInOrder
<1> QED
  BY <1>1, <1>2, <1>3, <1>4, <1>5, PoolReceives, PoolSends DEF Pool!Next

LEMMA PoolKeeps ==
    ASSUME PoolInv,
           [Next]_<<spoolVars, limitVars, cacheVars, backoffVars, replayVars, part>>
    PROVE  PoolInv' /\ [Pool!Tally!Next]_(Pool!Tally!vars)
<1>1. CASE UNCHANGED replayVars
  BY <1>1 DEF replayVars, PoolInv, PoolTypes, InOnePlace, DoneInOrder, Pool!Tally!vars
<1>2. CASE Pool!Next
  BY <1>2, PoolNext, PoolStepTallies
<1> QED
  BY <1>1, <1>2 DEF Next

\* The pool implements the tally: however the workers, the closing goroutine and the
\* caller interleave, each file is counted exactly once and the counts are returned
\* after the last.
THEOREM ReplayTallies == Spec => ImplementsTally
<1>1. Init => PoolInv /\ Pool!Tally!Init
  <2>1. Pool!Init => Pool!Tally!Init
    BY DEF Pool!Init, Pool!Tally!Init
  <2> QED
    BY <2>1, PoolBegins DEF Init
<1> QED
  BY <1>1, PoolKeeps, PTL DEF Spec, ImplementsTally, Pool!ImplementsTally, Pool!Tally!Spec

\* No worker sends on the closed channel, which would panic: it is closed when every
\* worker is done, and a worker that is done stays so (NoSendOnClosed).
THEOREM NobodySendsOnClosed == Spec => []Pool!NoSendOnClosed
<1>1. Init => PoolInv
  BY PoolBegins DEF Init
<1>2. PoolInv => Pool!NoSendOnClosed
  BY DEF PoolInv, DoneInOrder, Pool!NoSendOnClosed
<1> QED
  BY <1>1, <1>2, PoolKeeps, PTL DEF Spec

-----------------------------------------------------------------------------
(* The limiter.  In every minute of the clock the counter has at most two  *)
(* lives, and one more for each restart: one until it expires, after the   *)
(* minute is over, and one for the requests that reach Redis after that.   *)
(* RateInv bounds what Redis admitted by the lives that are over and what  *)
(* the counter that lives has counted.                                     *)

\* When minute w of the clock begins.
Opens(w) == w * Minute

\* What a counter admits until it stands at c.
Spent(c) == IF c < Limit THEN c ELSE Limit

\* What Redis admitted of minute w.
Passed(w) == Limiter!Cardinality(Limiter!RedisIn(w))

RateTypes ==
    /\ now \in 0..MaxTime
    /\ keys \subseteq [window : Nat, count : Nat \ {0}, expires : Nat]
    /\ req \in [Requests -> Limiter!Req]
    /\ Limiter!IsFiniteSet(served)
    /\ restarts \in Nat

\* A minute has one counter.
OneKey == \A k, l \in keys : k.window = l.window => k = l

\* Whoever is on the way came no longer than MaxLag ago.
InTime == \A r \in Requests : req[r] # Limiter!Idle =>
             req[r].since <= now /\ now <= req[r].since + MaxLag

\* A counter that expires does so after its minute, and has not yet.
KeysLast == \A k \in keys : k.expires # Limiter!Never =>
               Opens(k.window + 1) <= k.expires /\ now < k.expires

\* A counter is the first of its minute, but for restarts, as long as the minute goes
\* on, and when it expires in the minute after: it was there when its own ended.
IsFirst(k) == \/ now < Opens(k.window + 1)
              \/ k.expires # Limiter!Never /\ k.expires < Opens(k.window + 2)

WithKey == \A k \in keys :
    /\ Passed(k.window) <= Limit * (1 + restarts) + Spent(k.count)
    /\ IsFirst(k) => Passed(k.window) <= Limit * restarts + Spent(k.count)

WithoutKey == \A w \in Nat : (\A k \in keys : k.window # w) =>
    /\ now < Opens(w + 1) => Passed(w) <= Limit * restarts
    /\ now < Opens(w + 2) => Passed(w) <= Limit * (1 + restarts)
    /\ Passed(w) <= Limit * (2 + restarts)

RateInv == RateTypes /\ OneKey /\ InTime /\ KeysLast /\ WithKey /\ WithoutKey

\* What the instance counts as it is counted here.
LEMMA SameLimit ==
    /\ \A S : Limiter!IsFiniteSet(S) <=> IsFiniteSet(S)
    /\ \A S : Limiter!Cardinality(S) = Cardinality(S)
<1>1. \A S : Limiter!IsFiniteSet(S) <=> IsFiniteSet(S)
  BY DEF Limiter!IsFiniteSet, IsFiniteSet
<1>2. \A S : Limiter!Cardinality(S) = Cardinality(S)
  BY DEF Limiter!Cardinality, Cardinality
<1> QED
  BY <1>1, <1>2

LEMMA RateConstants ==
    /\ Limit \in Nat \ {0} /\ Minute \in Nat \ {0}
    /\ MaxLag \in Nat /\ MaxLag < Minute /\ MaxTime \in Nat
    /\ Limiter!Never = MaxTime + Minute + 1
  BY MCPlatformAssumption DEF Limiter!RateLimitAssumption, Limiter!Never

\* The minutes of the clock follow each other, and every time is in one.
LEMMA Minutes ==
    /\ \A w \in Nat : /\ Opens(w) \in Nat
                      /\ Opens(w + 1) = Opens(w) + Minute
                      /\ Opens(w + 2) = Opens(w) + Minute + Minute
    /\ \A t \in Nat : /\ Limiter!Window(t) \in Nat
                      /\ Opens(Limiter!Window(t)) <= t
                      /\ t < Opens(Limiter!Window(t) + 1)
<1>1. \A w \in Nat : /\ Opens(w) \in Nat
                     /\ Opens(w + 1) = Opens(w) + Minute
                     /\ Opens(w + 2) = Opens(w) + Minute + Minute
  BY RateConstants DEF Opens
<1>2. ASSUME NEW t \in Nat
      PROVE  /\ Limiter!Window(t) \in Nat
             /\ Opens(Limiter!Window(t)) <= t
             /\ t < Opens(Limiter!Window(t) + 1)
  BY RateConstants DEF Opens, Limiter!Window
<1> QED
  BY <1>1, <1>2

\* What the lives of a counter may admit.
LEMMA Budgets ==
    \A r \in Nat : /\ Limit * r \in Nat
                   /\ Limit * (1 + r) = Limit * r + Limit
                   /\ Limit * (2 + r) = Limit * r + Limit + Limit
                   /\ Limit * (r + 1) = Limit * r + Limit
                   /\ Limit * (1 + (r + 1)) = Limit * r + Limit + Limit
                   /\ Limit * (2 + (r + 1)) = Limit * r + Limit + Limit + Limit
  BY RateConstants

LEMMA Spending ==
    \A c \in Nat : /\ Spent(c) \in Nat /\ Spent(c) <= Limit /\ Spent(c) <= Spent(c + 1)
                   /\ c + 1 <= Limit => Spent(c + 1) = Spent(c) + 1
  BY RateConstants DEF Spent

\* The requests served are finitely many, so those admitted can be counted.
LEMMA PassedCounts ==
    ASSUME Limiter!IsFiniteSet(served)
    PROVE  \A w : IsFiniteSet(Limiter!RedisIn(w)) /\ Passed(w) \in Nat
<1> SUFFICES ASSUME NEW w
             PROVE  IsFiniteSet(Limiter!RedisIn(w)) /\ Passed(w) \in Nat
  OBVIOUS
<1>1. IsFiniteSet(served) /\ Limiter!RedisIn(w) \subseteq served
  BY SameLimit DEF Limiter!RedisIn, Limiter!Admitted
<1>2. IsFiniteSet(Limiter!RedisIn(w))
  BY <1>1, FS_Subset
<1> QED
  BY <1>2, FS_CardinalityType, SameLimit DEF Passed

\* A decision admits at most one request, of the minute it is about, and Redis none
\* when the decision is to refuse or is made in memory.
LEMMA ServesOne ==
    ASSUME Limiter!IsFiniteSet(served),
           NEW by, NEW at, NEW allowed \in BOOLEAN, Limiter!Serve(by, at, allowed)
    PROVE  /\ Limiter!IsFiniteSet(served')
           /\ \A w : Passed(w)' \in Nat
           /\ \A w : Passed(w)' <= Passed(w) + 1
           /\ \A w : by # "redis" \/ ~ allowed \/ w # Limiter!Window(at) => Passed(w)' = Passed(w)
<1>1. PICK d : /\ d = [n |-> Limiter!Cardinality(served) + 1, by |-> by, at |-> at,
                       allowed |-> allowed]
               /\ served' = served \cup {d}
  BY DEF Limiter!Serve
<1>2. d.by = by /\ d.at = at /\ d.allowed = allowed
  BY <1>1
<1>3. IsFiniteSet(served')
  BY <1>1, SameLimit, FS_AddElement
<1>4. Limiter!IsFiniteSet(served')
  BY <1>3, SameLimit
<1>5. ASSUME NEW w
      PROVE  /\ Passed(w)' \in Nat /\ Passed(w)' <= Passed(w) + 1
             /\ by # "redis" \/ ~ allowed \/ w # Limiter!Window(at) => Passed(w)' = Passed(w)
  <2>1. PICK A, B : A = Limiter!RedisIn(w) /\ B = Limiter!RedisIn(w)'
    OBVIOUS
  <2>2. Passed(w) = Cardinality(A) /\ Passed(w)' = Cardinality(B)
    BY <2>1, SameLimit DEF Passed
  <2>3. IsFiniteSet(A) /\ Cardinality(A) \in Nat
    BY <2>1, <2>2, PassedCounts
  <2>4. B = A \/ B = A \cup {d}
    BY <1>1, <2>1 DEF Limiter!RedisIn, Limiter!Admitted
  <2>5. by # "redis" \/ ~ allowed \/ w # Limiter!Window(at) => B = A
    <3>1. A = {x \in served : x.allowed /\ x.by = "redis" /\ Limiter!Window(x.at) = w}
      BY <2>1 DEF Limiter!RedisIn, Limiter!Admitted
    <3>2. B = {x \in served \cup {d} :
                x.allowed /\ x.by = "redis" /\ Limiter!Window(x.at) = w}
      BY <1>1, <2>1 DEF Limiter!RedisIn, Limiter!Admitted
    <3> SUFFICES ASSUME by # "redis" \/ ~ allowed \/ w # Limiter!Window(at)
                 PROVE  B = A
      OBVIOUS
    <3>3. ~ (d.allowed /\ d.by = "redis" /\ Limiter!Window(d.at) = w)
      BY <1>2
    <3>4. \A x : x \in A <=> x \in B
      BY <3>1, <3>2, <3>3
    <3>5. \A C, D : (\A x : x \in C <=> x \in D) => D = C
      OBVIOUS
    <3> QED
      BY <3>4, <3>5
  <2>6. /\ Cardinality(A \cup {d}) \in Nat
        /\ Cardinality(A \cup {d}) <= Cardinality(A) + 1
    <3>1. Cardinality(A \cup {d}) = IF d \in A THEN Cardinality(A) ELSE Cardinality(A) + 1
      BY <2>3, FS_AddElement
    <3>2. PICK a, b : a = Cardinality(A) /\ b = Cardinality(A \cup {d})
      OBVIOUS
    <3>3. a \in Nat /\ (b = a \/ b = a + 1)
      BY <2>3, <3>1, <3>2
    <3> QED
      BY <3>2, <3>3
  <2>7. Cardinality(B) \in Nat /\ Cardinality(B) <= Cardinality(A) + 1
    BY <2>3, <2>4, <2>6
  <2>8. B = A => Cardinality(B) = Cardinality(A)
    OBVIOUS
  <2> QED
    BY <2>2, <2>5, <2>7, <2>8
<1> QED
  BY <1>4, <1>5

\* Nothing is counted: neither the clock, the counters nor what Redis admitted change.
LEMMA RateStands ==
    ASSUME RateInv, UNCHANGED <<now, keys, restarts>>, Limiter!IsFiniteSet(served'),
           \A w : Passed(w)' = Passed(w),
           req' \in [Requests -> Limiter!Req], InTime'
    PROVE  RateInv'
<1>1. RateTypes' /\ OneKey' /\ KeysLast'
  BY DEF RateInv, RateTypes, OneKey, KeysLast, Limiter!Never, Opens
<1>2. WithKey'
  BY DEF RateInv, WithKey, IsFirst, Opens, Spent, Limiter!Never
<1>3. WithoutKey'
  BY DEF RateInv, WithoutKey, Opens
<1> QED
  BY <1>1, <1>2, <1>3 DEF RateInv

\* A request counts in its minute, and is admitted only if the counter then stands
\* within the limit.
LEMMA RateCounts ==
    ASSUME RateInv, NEW r \in Requests, req[r] # Limiter!Idle,
           NEW w, w = Limiter!Window(req[r].since),
           keys' = Limiter!Incremented(w), UNCHANGED <<now, restarts>>,
           Limiter!IsFiniteSet(served'),
           \A v : Passed(v)' \in Nat /\ Passed(v)' <= Passed(v) + 1,
           \A v : v # w \/ ~ (Limiter!Count(w) + 1 <= Limit) => Passed(v)' <= Passed(v),
           req' \in [Requests -> Limiter!Req], InTime'
    PROVE  RateInv'
<1>1. /\ w \in Nat /\ now \in Nat /\ now < Opens(w + 2)
      /\ Opens(w) \in Nat /\ Opens(w + 1) = Opens(w) + Minute
      /\ Opens(w + 2) = Opens(w) + Minute + Minute
  <2>1. PICK t : t = req[r].since
    OBVIOUS
  <2>2. t \in Nat /\ t <= now /\ now <= t + MaxLag /\ now \in Nat
    BY <2>1, RateConstants DEF RateInv, RateTypes, InTime, Limiter!Req
  <2>3. w = Limiter!Window(t)
    BY <2>1
  <2>4. w \in Nat /\ t < Opens(w + 1)
    BY <2>2, <2>3, Minutes
  <2>5. /\ Opens(w) \in Nat /\ Opens(w + 1) = Opens(w) + Minute
        /\ Opens(w + 2) = Opens(w) + Minute + Minute
    BY <2>4, Minutes
  <2> QED
    BY <2>2, <2>4, <2>5, RateConstants
<1>2. PICK n : /\ n = [window |-> w, count |-> Limiter!Count(w) + 1,
                       expires |-> IF Limiter!Count(w) = 0 THEN Limiter!Never
                                   ELSE (CHOOSE k \in keys : k.window = w).expires]
               /\ keys' = {k \in keys : k.window # w} \cup {n}
  BY DEF Limiter!Incremented
<1>3. n.window = w /\ n.count = Limiter!Count(w) + 1
  BY <1>2
<1>4. \/ (\A k \in keys : k.window # w) /\ n.count = 1 /\ n.expires = Limiter!Never
      \/ \E k \in keys : k.window = w /\ n.count = k.count + 1 /\ n.expires = k.expires
  <2>1. CASE \A k \in keys : k.window # w
    <3>1. Limiter!Count(w) = 0
      BY <2>1 DEF Limiter!Count
    <3> QED
      BY <1>2, <2>1, <3>1
  <2>2. CASE \E k \in keys : k.window = w
    <3>1. PICK k : k = CHOOSE l \in keys : l.window = w
      OBVIOUS
    <3>2. k \in keys /\ k.window = w /\ Limiter!Count(w) = k.count
      BY <2>2, <3>1 DEF Limiter!Count
    <3>3. Limiter!Count(w) # 0
      BY <3>2 DEF RateInv, RateTypes
    <3>4. n.expires = k.expires
      BY <1>2, <3>1, <3>3
    <3> QED
      BY <1>3, <3>2, <3>4
  <2> QED
    BY <2>1, <2>2
<1>5. n \in [window : Nat, count : Nat \ {0}, expires : Nat]
  <2>1. n.count \in Nat \ {0} /\ n.expires \in Nat
    BY <1>4, RateConstants DEF RateInv, RateTypes
  <2> QED
    BY <1>1, <1>2, <1>3, <2>1
<1>6. \A v \in Nat : Passed(v) \in Nat
  BY PassedCounts DEF RateInv, RateTypes
<1>7. RateTypes'
  BY <1>2, <1>5 DEF RateInv, RateTypes
<1>8. OneKey'
  BY <1>2, <1>3 DEF RateInv, OneKey
<1>9. \A k \in keys : k.expires # Limiter!Never =>
         Opens(k.window + 1) <= k.expires /\ now < k.expires
  BY DEF RateInv, KeysLast
<1>10. n.expires # Limiter!Never => Opens(n.window + 1) <= n.expires /\ now < n.expires
  BY <1>3, <1>4, <1>9
<1>11. KeysLast'
  BY <1>2, <1>9, <1>10 DEF KeysLast, Opens, Limiter!Never
<1>12. PICK b \in Nat : /\ b = Limit * restarts
                        /\ Limit * (1 + restarts) = b + Limit
                        /\ Limit * (2 + restarts) = b + Limit + Limit
  <2>1. restarts \in Nat
    BY DEF RateInv, RateTypes
  <2> QED
    BY <2>1, Budgets
<1>13. \A k \in keys : /\ Passed(k.window) <= b + Limit + Spent(k.count)
                       /\ IsFirst(k) => Passed(k.window) <= b + Spent(k.count)
  BY <1>12 DEF RateInv, WithKey
<1>14. \A v \in Nat : (\A k \in keys : k.window # v) =>
          /\ now < Opens(v + 1) => Passed(v) <= b
          /\ now < Opens(v + 2) => Passed(v) <= b + Limit
          /\ Passed(v) <= b + Limit + Limit
  BY <1>12 DEF RateInv, WithoutKey
<1>15. /\ Passed(w)' <= b + Limit + Spent(n.count)
       /\ IsFirst(n) => Passed(w)' <= b + Spent(n.count)
  <2>1. PICK p, q : p = Passed(w) /\ q = Passed(w)'
    OBVIOUS
  <2>2. p \in Nat /\ q \in Nat /\ q <= p + 1 /\ (~ (n.count <= Limit) => q <= p)
    BY <1>1, <1>3, <1>6, <2>1
  <2>3. CASE (\A k \in keys : k.window # w) /\ n.count = 1 /\ n.expires = Limiter!Never
    <3>1. p <= b + Limit /\ (now < Opens(w + 1) => p <= b)
      BY <1>1, <1>14, <2>1, <2>3
    <3>2. IsFirst(n) => now < Opens(w + 1)
      BY <1>3, <2>3 DEF IsFirst
    <3>3. Spent(n.count) = 1
      BY <2>3, RateConstants DEF Spent
    <3> QED
      BY <2>1, <2>2, <3>1, <3>2, <3>3, <1>12, RateConstants
  <2>4. ASSUME NEW k \in keys, k.window = w, n.count = k.count + 1, n.expires = k.expires
        PROVE  /\ Passed(w)' <= b + Limit + Spent(n.count)
               /\ IsFirst(n) => Passed(w)' <= b + Spent(n.count)
    <3>1. p <= b + Limit + Spent(k.count) /\ (IsFirst(k) => p <= b + Spent(k.count))
      BY <1>13, <2>1, <2>4
    <3>2. IsFirst(n) => IsFirst(k)
      BY <1>3, <2>4 DEF IsFirst
    <3>3. k.count \in Nat
      BY DEF RateInv, RateTypes
    <3>4. /\ Spent(k.count) \in Nat /\ Spent(n.count) \in Nat
          /\ Spent(k.count) <= Spent(n.count)
          /\ n.count <= Limit => Spent(n.count) = Spent(k.count) + 1
      BY <2>4, <3>3, Spending
    <3> QED
      BY <2>1, <2>2, <3>1, <3>2, <3>4, <1>12, RateConstants
  <2> QED
    BY <1>4, <2>3, <2>4
<1>16. \A v \in Nat : v # w => Passed(v)' <= Passed(v) /\ Passed(v)' \in Nat /\ Passed(v) \in Nat
  BY <1>6
<1>17. ASSUME NEW k \in keys'
       PROVE  /\ Passed(k.window)' <= b + Limit + Spent(k.count)
              /\ IsFirst(k) => Passed(k.window)' <= b + Spent(k.count)
  <2>1. CASE k = n
    BY <1>3, <1>15, <2>1
  <2>2. CASE k \in keys /\ k.window # w
    <3>1. PICK v, s : v = k.window /\ s = Spent(k.count)
      OBVIOUS
    <3>2. v \in Nat /\ s \in Nat /\ v # w
      BY <2>2, <3>1, Spending DEF RateInv, RateTypes
    <3>3. Passed(v) <= b + Limit + s /\ (IsFirst(k) => Passed(v) <= b + s)
      BY <1>13, <2>2, <3>1
    <3>4. PICK p, q : p = Passed(v) /\ q = Passed(v)'
      OBVIOUS
    <3>5. q <= p /\ q \in Nat /\ p \in Nat
      BY <1>16, <3>2, <3>4
    <3>6. q <= b + Limit + s /\ (IsFirst(k) => q <= b + s)
      BY <3>2, <3>3, <3>4, <3>5, <1>12, RateConstants
    <3> QED
      BY <3>1, <3>4, <3>6
  <2> QED
    BY <1>2, <2>1, <2>2
<1>18. WithKey'
  BY <1>12, <1>17 DEF WithKey, IsFirst, Spent, Opens, Limiter!Never
<1>19. WithoutKey'
  <2>1. ASSUME NEW v \in Nat, \A k \in keys' : k.window # v
        PROVE  /\ now < Opens(v + 1) => Passed(v)' <= b
               /\ now < Opens(v + 2) => Passed(v)' <= b + Limit
               /\ Passed(v)' <= b + Limit + Limit
    <3>1. v # w /\ \A k \in keys : k.window # v
      BY <1>2, <1>3, <2>1
    <3>2. PICK p, q : p = Passed(v) /\ q = Passed(v)'
      OBVIOUS
    <3>3. q <= p /\ q \in Nat /\ p \in Nat
      BY <1>16, <3>1, <3>2
    <3>4. /\ now < Opens(v + 1) => p <= b
          /\ now < Opens(v + 2) => p <= b + Limit
          /\ p <= b + Limit + Limit
      BY <1>14, <3>1, <3>2
    <3>5. /\ now < Opens(v + 1) => q <= b
          /\ now < Opens(v + 2) => q <= b + Limit
          /\ q <= b + Limit + Limit
      BY <3>3, <3>4, <1>12, RateConstants
    <3> QED
      BY <3>2, <3>5
  <2> QED
    BY <1>12, <2>1 DEF WithoutKey, Opens
<1> QED
  BY <1>7, <1>8, <1>11, <1>18, <1>19 DEF RateInv

\* A request that goes on, or whose work is done, is no later than it was.
LEMMA RateGo ==
    ASSUME RateInv, NEW r \in Requests, NEW q, Limiter!Go(r, q), UNCHANGED now,
           q \in Limiter!Req, q # Limiter!Idle => q.since <= now /\ now <= q.since + MaxLag
    PROVE  req' \in [Requests -> Limiter!Req] /\ InTime'
<1>1. /\ req' \in [Requests -> Limiter!Req] /\ req'[r] = q
      /\ \A s \in Requests : s # r => req'[s] = req[s]
  BY DEF Limiter!Go, RateInv, RateTypes
<1>2. InTime'
  BY <1>1 DEF RateInv, InTime, Limiter!Idle
<1> QED
  BY <1>1, <1>2

\* EXPIRE puts the end of the counter after the minute; if it puts it before the end
\* of the next one, the minute still goes on.
LEMMA RateExpires ==
    ASSUME RateInv, NEW r \in Requests, req[r] # Limiter!Idle,
           NEW w, w = Limiter!Window(req[r].since),
           keys' = {IF k.window = w THEN [k EXCEPT !.expires = now + Minute] ELSE k : k \in keys},
           UNCHANGED <<now, served, restarts>>,
           req' \in [Requests -> Limiter!Req], InTime'
    PROVE  RateInv'
<1>1. /\ w \in Nat /\ now \in Nat /\ Opens(w) <= now
      /\ Opens(w) \in Nat /\ Opens(w + 1) = Opens(w) + Minute
      /\ Opens(w + 2) = Opens(w) + Minute + Minute
  <2>1. PICK t : t = req[r].since
    OBVIOUS
  <2>2. t \in Nat /\ t <= now /\ now \in Nat
    BY <2>1, RateConstants DEF RateInv, RateTypes, InTime, Limiter!Req
  <2>3. w \in Nat /\ Opens(w) <= t
    BY <2>1, <2>2, Minutes
  <2>4. /\ Opens(w) \in Nat /\ Opens(w + 1) = Opens(w) + Minute
        /\ Opens(w + 2) = Opens(w) + Minute + Minute
    BY <2>3, Minutes
  <2> QED
    BY <2>2, <2>3, <2>4
<1>2. \A k \in keys : k \in [window : Nat, count : Nat \ {0}, expires : Nat]
  BY DEF RateInv, RateTypes
<1>3. ASSUME NEW l \in keys'
      PROVE  \E k \in keys : /\ l \in [window : Nat, count : Nat \ {0}, expires : Nat]
                             /\ l.window = k.window /\ l.count = k.count
                             /\ l.expires = IF k.window = w THEN now + Minute ELSE k.expires
                             /\ k.window # w => l = k
  <2>1. PICK k \in keys : l = IF k.window = w THEN [k EXCEPT !.expires = now + Minute] ELSE k
    OBVIOUS
  <2> QED
    BY <1>1, <1>2, <2>1, RateConstants
<1>4. \A k \in keys : \E l \in keys' : l.window = k.window
  <2> SUFFICES ASSUME NEW k \in keys
               PROVE  \E l \in keys' : l.window = k.window
    OBVIOUS
  <2>1. PICK l : l = IF k.window = w THEN [k EXCEPT !.expires = now + Minute] ELSE k
    OBVIOUS
  <2>2. l \in keys' /\ l.window = k.window
    BY <1>2, <2>1
  <2> QED
    BY <2>2
<1>5. RateTypes'
  BY <1>3 DEF RateInv, RateTypes
<1>6. OneKey'
  <2> SUFFICES ASSUME NEW l \in keys', NEW m \in keys', l.window = m.window
               PROVE  l = m
    BY DEF OneKey
  <2>1. PICK j \in keys : l = IF j.window = w THEN [j EXCEPT !.expires = now + Minute] ELSE j
    OBVIOUS
  <2>2. PICK k \in keys : m = IF k.window = w THEN [k EXCEPT !.expires = now + Minute] ELSE k
    OBVIOUS
  <2>3. l.window = j.window /\ m.window = k.window
    BY <1>2, <2>1, <2>2
  <2>4. j = k
    BY <2>3 DEF RateInv, OneKey
  <2> QED
    BY <2>1, <2>2, <2>4
<1>7. KeysLast'
  <2> SUFFICES ASSUME NEW l \in keys', l.expires # Limiter!Never
               PROVE  Opens(l.window + 1) <= l.expires /\ now < l.expires
    BY DEF KeysLast, Opens, Limiter!Never
  <2>1. PICK k \in keys : /\ l.window = k.window
                          /\ l.expires = IF k.window = w THEN now + Minute ELSE k.expires
    BY <1>3
  <2>2. CASE k.window = w
    BY <1>1, <2>1, <2>2, RateConstants
  <2>3. CASE k.window # w
    BY <2>1, <2>3 DEF RateInv, KeysLast
  <2> QED
    BY <2>2, <2>3
<1>8. ASSUME NEW l \in keys'
      PROVE  \E k \in keys : /\ l.window = k.window /\ l.count = k.count
                             /\ IsFirst(l) => IsFirst(k)
  <2>1. PICK k \in keys : /\ l.window = k.window /\ l.count = k.count
                          /\ l.expires = IF k.window = w THEN now + Minute ELSE k.expires
    BY <1>3
  <2>2. CASE k.window = w
    <3>1. IsFirst(l) => now < Opens(k.window + 1)
      BY <1>1, <2>1, <2>2, RateConstants DEF IsFirst
    <3> QED
      BY <2>1, <3>1 DEF IsFirst
  <2>3. CASE k.window # w
    BY <2>1, <2>3 DEF IsFirst
  <2> QED
    BY <2>2, <2>3
<1>9. \A v : Passed(v)' = Passed(v)
  BY DEF Passed, Limiter!RedisIn, Limiter!Admitted
<1>10. WithKey'
  <2> SUFFICES ASSUME NEW l \in keys'
               PROVE  /\ Passed(l.window)' <= Limit * (1 + restarts) + Spent(l.count)
                      /\ IsFirst(l) => Passed(l.window)' <= Limit * restarts + Spent(l.count)
    BY DEF WithKey, IsFirst, Spent, Opens, Limiter!Never
  <2>1. PICK k \in keys : /\ l.window = k.window /\ l.count = k.count
                          /\ IsFirst(l) => IsFirst(k)
    BY <1>8
  <2>2. /\ Passed(k.window) <= Limit * (1 + restarts) + Spent(k.count)
        /\ IsFirst(k) => Passed(k.window) <= Limit * restarts + Spent(k.count)
    BY DEF RateInv, WithKey
  <2> QED
    BY <1>9, <2>1, <2>2
<1>11. WithoutKey'
  BY <1>4, <1>9 DEF RateInv, WithoutKey, Opens
<1> QED
  BY <1>5, <1>6, <1>7, <1>10, <1>11 DEF RateInv

\* A restart loses the counters, and gives every minute one life more.
LEMMA RateRestarts ==
    ASSUME RateInv, Limiter!RedisRestarts
    PROVE  RateInv'
<1>1. /\ keys' = {} /\ restarts' = restarts + 1 /\ UNCHANGED <<now, req, served>>
      /\ restarts \in Nat
  BY DEF Limiter!RedisRestarts, RateInv, RateTypes
<1>2. RateTypes' /\ OneKey' /\ InTime' /\ KeysLast' /\ WithKey'
  BY <1>1 DEF RateInv, RateTypes, OneKey, InTime, KeysLast, WithKey
<1>3. \A v : Passed(v)' = Passed(v)
  BY <1>1 DEF Passed, Limiter!RedisIn, Limiter!Admitted
<1>4. PICK b \in Nat : /\ Limit * restarts = b /\ Limit * restarts' = b + Limit
                       /\ Limit * (1 + restarts) = b + Limit
                       /\ Limit * (1 + restarts') = b + Limit + Limit
                       /\ Limit * (2 + restarts) = b + Limit + Limit
                       /\ Limit * (2 + restarts') = b + Limit + Limit + Limit
  <2>1. PICK x \in Nat : x = restarts /\ restarts' = x + 1
    BY <1>1
  <2> QED
    BY <2>1, Budgets
<1>5. ASSUME NEW v \in Nat
      PROVE  /\ now < Opens(v + 1) => Passed(v) <= b + Limit
             /\ Passed(v) <= b + Limit + Limit
  <2>1. Passed(v) \in Nat
    BY PassedCounts DEF RateInv, RateTypes
  <2>2. CASE \A k \in keys : k.window # v
    BY <1>4, <2>1, <2>2, RateConstants DEF RateInv, WithoutKey
  <2>3. ASSUME NEW k \in keys, k.window = v
        PROVE  /\ now < Opens(v + 1) => Passed(v) <= b + Limit
               /\ Passed(v) <= b + Limit + Limit
    <3>1. Spent(k.count) \in Nat /\ Spent(k.count) <= Limit
      BY Spending DEF RateInv, RateTypes
    <3>2. /\ Passed(v) <= b + Limit + Spent(k.count)
          /\ now < Opens(v + 1) => Passed(v) <= b + Spent(k.count)
      BY <1>4, <2>3 DEF RateInv, WithKey, IsFirst
    <3> QED
      BY <1>4, <2>1, <3>1, <3>2, RateConstants
  <2> QED
    BY <2>2, <2>3
<1>6. WithoutKey'
  <2> SUFFICES ASSUME NEW v \in Nat
               PROVE  /\ now < Opens(v + 1) => Passed(v)' <= b + Limit
                      /\ now < Opens(v + 2) => Passed(v)' <= b + Limit + Limit
                      /\ Passed(v)' <= b + Limit + Limit + Limit
    BY <1>1, <1>4 DEF WithoutKey, Opens
  <2>1. Passed(v) \in Nat /\ Passed(v)' = Passed(v)
    BY <1>3, PassedCounts DEF RateInv, RateTypes
  <2> QED
    BY <1>4, <1>5, <2>1, RateConstants
<1> QED
  BY <1>2, <1>6 DEF RateInv

\* As the clock goes on a counter expires after its minute; if before the end of the
\* next one, it was the first of its minute.
LEMMA RateTicks ==
    ASSUME RateInv, Limiter!Tick
    PROVE  RateInv'
<1>1. /\ now \in Nat /\ now' = now + 1 /\ now' \in 0..MaxTime
      /\ keys' = {k \in keys : k.expires > now + 1}
      /\ UNCHANGED <<req, served, restarts>>
  BY RateConstants DEF Limiter!Tick, RateInv, RateTypes
<1>2. RateTypes' /\ OneKey'
  BY <1>1 DEF RateInv, RateTypes, OneKey
<1>3. InTime'
  <2> SUFFICES ASSUME NEW r \in Requests, req[r] # Limiter!Idle
               PROVE  req[r].since <= now + 1 /\ now + 1 <= req[r].since + MaxLag
    BY <1>1 DEF InTime, Limiter!Idle
  <2>1. req[r].since <= now /\ now - req[r].since < MaxLag
    BY DEF RateInv, InTime, Limiter!Tick, Limiter!InFlight
  <2>2. req[r].since \in Nat
    BY RateConstants DEF RateInv, RateTypes, Limiter!Req
  <2> QED
    BY <1>1, <2>1, <2>2, RateConstants
<1>4. \A k \in keys : /\ k.window \in Nat /\ k.count \in Nat /\ k.expires \in Nat
                      /\ Opens(k.window + 1) \in Nat /\ Opens(k.window + 2) \in Nat
  <2> SUFFICES ASSUME NEW k \in keys
               PROVE  /\ k.window \in Nat /\ k.count \in Nat /\ k.expires \in Nat
                      /\ Opens(k.window + 1) \in Nat /\ Opens(k.window + 2) \in Nat
    OBVIOUS
  <2>1. k.window \in Nat /\ k.count \in Nat /\ k.expires \in Nat
    BY DEF RateInv, RateTypes
  <2>2. Opens(k.window + 1) \in Nat /\ Opens(k.window + 2) \in Nat
    <3>1. PICK v \in Nat : v = k.window
      BY <2>1
    <3>2. v + 1 \in Nat /\ v + 2 \in Nat
      OBVIOUS
    <3>3. Opens(v + 1) \in Nat /\ Opens(v + 2) \in Nat
      BY <3>2, Minutes
    <3> QED
      BY <3>1, <3>3
  <2> QED
    BY <2>1, <2>2
<1>5. KeysLast'
  BY <1>1, <1>4 DEF RateInv, KeysLast, Opens, Limiter!Never
<1>6. \A v : Passed(v)' = Passed(v)
  BY <1>1 DEF Passed, Limiter!RedisIn, Limiter!Admitted
<1>7. WithKey'
  <2> SUFFICES ASSUME NEW k \in keys'
               PROVE  /\ Passed(k.window)' <= Limit * (1 + restarts) + Spent(k.count)
                      /\ IsFirst(k)' => Passed(k.window)' <= Limit * restarts + Spent(k.count)
    BY <1>1 DEF WithKey, Spent, IsFirst, Opens, Limiter!Never
  <2>1. k \in keys /\ (IsFirst(k)' => IsFirst(k))
    BY <1>1, <1>4 DEF IsFirst, Opens, Limiter!Never
  <2> QED
    BY <1>6, <2>1 DEF RateInv, WithKey
<1>8. PICK b \in Nat : /\ b = Limit * restarts
                       /\ Limit * (1 + restarts) = b + Limit
                       /\ Limit * (2 + restarts) = b + Limit + Limit
  <2>1. restarts \in Nat
    BY DEF RateInv, RateTypes
  <2> QED
    BY <2>1, Budgets
<1>9. ASSUME NEW v \in Nat, \A k \in keys' : k.window # v
      PROVE  /\ now + 1 < Opens(v + 1) => Passed(v) <= b
             /\ now + 1 < Opens(v + 2) => Passed(v) <= b + Limit
             /\ Passed(v) <= b + Limit + Limit
  <2>1. Passed(v) \in Nat /\ Opens(v + 1) \in Nat /\ Opens(v + 2) \in Nat
    <3>1. Limiter!IsFiniteSet(served) /\ v + 1 \in Nat /\ v + 2 \in Nat
      BY DEF RateInv, RateTypes
    <3> QED
      BY <3>1, PassedCounts, Minutes
  <2>2. CASE \A k \in keys : k.window # v
    BY <1>1, <1>8, <2>1, <2>2 DEF RateInv, WithoutKey
  <2>3. ASSUME NEW k \in keys, k.window = v
        PROVE  /\ now + 1 < Opens(v + 1) => Passed(v) <= b
               /\ now + 1 < Opens(v + 2) => Passed(v) <= b + Limit
               /\ Passed(v) <= b + Limit + Limit
    <3>1. k.expires <= now + 1 /\ k.expires # Limiter!Never
      BY <1>1, <1>4, <1>9, <2>3, RateConstants
    <3>2. Opens(v + 1) <= k.expires
      BY <2>3, <3>1 DEF RateInv, KeysLast
    <3>3. now + 1 < Opens(v + 2) => IsFirst(k)
      BY <1>1, <1>4, <2>1, <2>3, <3>1 DEF IsFirst
    <3>4. Spent(k.count) \in Nat /\ Spent(k.count) <= Limit
      BY <1>4, Spending
    <3>5. /\ Passed(v) <= b + Limit + Spent(k.count)
          /\ IsFirst(k) => Passed(v) <= b + Spent(k.count)
      BY <1>8, <2>3 DEF RateInv, WithKey
    <3>6. ~ (now + 1 < Opens(v + 1))
      BY <1>1, <1>4, <2>1, <3>1, <3>2
    <3> QED
      BY <1>8, <2>1, <3>3, <3>4, <3>5, <3>6, RateConstants
  <2> QED
    BY <2>2, <2>3
<1>10. WithoutKey'
  BY <1>1, <1>6, <1>8, <1>9 DEF WithoutKey, Opens
<1> QED
  BY <1>2, <1>3, <1>5, <1>7, <1>10 DEF RateInv

LEMMA RateNext ==
    ASSUME RateInv, Limiter!Next
    PROVE  RateInv'
<1>1. /\ now \in Nat /\ Limiter!IsFiniteSet(served) /\ Limiter!Idle \in Limiter!Req
      /\ now \in 0..MaxTime
      /\ \A r \in Requests : req[r] \in Limiter!Req
      /\ \A v : Passed(v) \in Nat
  BY RateConstants, PassedCounts DEF RateInv, RateTypes, Limiter!Idle, Limiter!Req
<1>2. ASSUME NEW r \in Requests, NEW q \in Limiter!Req, Limiter!Go(r, q), UNCHANGED now,
             q # Limiter!Idle => req[r] # Limiter!Idle /\ q.since = req[r].since
      PROVE  req' \in [Requests -> Limiter!Req] /\ InTime'
  BY <1>2, RateGo DEF RateInv, InTime
<1>3. ASSUME UNCHANGED served
      PROVE  Limiter!IsFiniteSet(served') /\ \A v : Passed(v)' = Passed(v)
  BY <1>1, <1>3 DEF Passed, Limiter!RedisIn, Limiter!Admitted
<1>4. \A r \in Requests : req[r].step # "idle" => req[r] # Limiter!Idle
  BY DEF Limiter!Idle
<1>5. ASSUME NEW r \in Requests, NEW step \in {"incr", "expire", "memory"}
      PROVE  /\ [req[r] EXCEPT !.step = step] \in Limiter!Req
             /\ [req[r] EXCEPT !.step = step].since = req[r].since
  BY <1>1 DEF Limiter!Req
<1>6. ASSUME NEW r \in Requests, Limiter!Arrive(r)
      PROVE  RateInv'
  <2>1. PICK q : q = [step |-> "incr", since |-> now]
    OBVIOUS
  <2>2. q \in Limiter!Req /\ q.since = now
    BY <1>1, <2>1 DEF Limiter!Req
  <2>3. Limiter!Go(r, q) /\ UNCHANGED <<now, keys, restarts, served>>
    BY <1>6, <2>1 DEF Limiter!Arrive
  <2>4. req' \in [Requests -> Limiter!Req] /\ InTime'
    BY <1>1, <2>2, <2>3, RateGo, RateConstants
  <2> QED
    BY <1>3, <2>3, <2>4, RateStands
<1>7. ASSUME NEW r \in Requests, Limiter!Incr(r)
      PROVE  RateInv'
  <2>1. PICK t, w : t = req[r].since /\ w = Limiter!Window(t)
    OBVIOUS
  <2>2. /\ req[r] # Limiter!Idle /\ keys' = Limiter!Incremented(w)
        /\ Limiter!Serve("redis", t, Limiter!Count(w) + 1 <= Limit)
        /\ Limiter!Go(r, IF Limiter!Count(w) = 0 THEN [req[r] EXCEPT !.step = "expire"]
                         ELSE Limiter!Idle)
        /\ UNCHANGED <<now, restarts>>
    BY <1>4, <1>7, <2>1 DEF Limiter!Incr
  <2>3. req' \in [Requests -> Limiter!Req] /\ InTime'
    BY <1>1, <1>2, <1>5, <2>2
  <2>4. PICK a \in BOOLEAN : a <=> Limiter!Count(w) + 1 <= Limit
    OBVIOUS
  <2>5. Limiter!Serve("redis", t, a)
    BY <2>2, <2>4
  <2>6. /\ Limiter!IsFiniteSet(served')
        /\ \A v : Passed(v)' \in Nat /\ Passed(v)' <= Passed(v) + 1
        /\ \A v : ~ a \/ v # w => Passed(v)' = Passed(v)
    BY <1>1, <2>1, <2>5, ServesOne
  <2>7. \A v : v # w \/ ~ (Limiter!Count(w) + 1 <= Limit) => Passed(v)' <= Passed(v)
    BY <1>1, <2>4, <2>6
  <2> QED
    BY <2>1, <2>2, <2>3, <2>6, <2>7, RateCounts
<1>8. ASSUME NEW r \in Requests, Limiter!IncrFails(r)
      PROVE  RateInv'
  <2>1. PICK w : w = Limiter!Window(req[r].since)
    OBVIOUS
  <2>2. PICK step \in {"incr", "memory"} : Limiter!Go(r, [req[r] EXCEPT !.step = step])
    BY <1>8 DEF Limiter!IncrFails
  <2>3. /\ req[r] # Limiter!Idle /\ keys' \in {keys, Limiter!Incremented(w)}
        /\ UNCHANGED <<now, restarts, served>>
    BY <1>4, <1>8, <2>1 DEF Limiter!IncrFails
  <2>4. req' \in [Requests -> Limiter!Req] /\ InTime'
    BY <1>2, <1>5, <2>2, <2>3
  <2>5. /\ Limiter!IsFiniteSet(served') /\ \A v : Passed(v)' = Passed(v)
        /\ \A v : Passed(v)' \in Nat /\ Passed(v)' <= Passed(v) + 1 /\ Passed(v)' <= Passed(v)
    BY <1>1, <1>3, <2>3
  <2>6. CASE keys' = keys
    BY <2>3, <2>4, <2>5, <2>6, RateStands
  <2>7. CASE keys' = Limiter!Incremented(w)
    BY <2>1, <2>3, <2>4, <2>5, <2>7, RateCounts
  <2> QED
    BY <2>3, <2>6, <2>7
<1>9. ASSUME NEW r \in Requests, Limiter!Expire(r)
      PROVE  RateInv'
  <2>1. PICK w : w = Limiter!Window(req[r].since)
    OBVIOUS
  <2>2. /\ req[r] # Limiter!Idle /\ Limiter!Go(r, Limiter!Idle)
        /\ UNCHANGED <<now, restarts, served>>
        /\ \/ keys' = {IF k.window = w THEN [k EXCEPT !.expires = now + Minute] ELSE k : k \in keys}
           \/ keys' = keys
    BY <1>4, <1>9, <2>1 DEF Limiter!Expire
  <2>3. req' \in [Requests -> Limiter!Req] /\ InTime'
    BY <1>1, <1>2, <2>2
  <2>4. CASE keys' = keys
    BY <1>3, <2>2, <2>3, <2>4, RateStands
  <2>5. CASE keys' = {IF k.window = w THEN [k EXCEPT !.expires = now + Minute] ELSE k : k \in keys}
    <3>1. req[r] # Limiter!Idle /\ UNCHANGED <<now, served, restarts>>
      BY <2>2
    <3> QED
      BY <2>1, <2>3, <2>5, <3>1, RateExpires
  <2> QED
    BY <2>2, <2>4, <2>5
<1>10. ASSUME NEW r \in Requests, Limiter!AllowInMemory(r)
       PROVE  RateInv'
  <2>1. /\ Limiter!Go(r, Limiter!Idle) /\ UNCHANGED <<now, keys, restarts>>
        /\ \E c : Limiter!Serve("memory", now, c <= Limit)
    BY <1>10 DEF Limiter!AllowInMemory
  <2>2. PICK a \in BOOLEAN : Limiter!Serve("memory", now, a)
    <3>1. PICK c : Limiter!Serve("memory", now, c <= Limit)
      BY <2>1
    <3>2. PICK a \in BOOLEAN : a <=> c <= Limit
      OBVIOUS
    <3> QED
      BY <3>1, <3>2
  <2>3. PICK t : t = now
    OBVIOUS
  <2>4. Limiter!IsFiniteSet(served') /\ \A v : Passed(v)' = Passed(v)
    BY <1>1, <2>2, <2>3, ServesOne
  <2>5. req' \in [Requests -> Limiter!Req] /\ InTime'
    BY <1>1, <1>2, <2>1
  <2> QED
    BY <2>1, <2>4, <2>5, RateStands
<1> QED
  BY <1>6, <1>7, <1>8, <1>9, <1>10, RateRestarts, RateTicks DEF Limiter!Next

LEMMA LimiterBegins == Limiter!Init => RateInv
<1> SUFFICES ASSUME Limiter!Init
             PROVE  RateInv
  OBVIOUS
<1>1. Limiter!Idle \in Limiter!Req /\ IsFiniteSet({}) /\ Cardinality({}) = 0
  BY RateConstants, FS_EmptySet DEF Limiter!Idle, Limiter!Req
<1>2. \A w : Passed(w) = 0
  BY <1>1, SameLimit DEF Limiter!Init, Passed, Limiter!RedisIn, Limiter!Admitted
<1>3. RateTypes
  BY <1>1, SameLimit, RateConstants DEF Limiter!Init, RateTypes
<1>4. OneKey /\ InTime /\ KeysLast /\ WithKey
  BY DEF Limiter!Init, OneKey, InTime, KeysLast, WithKey
<1>5. WithoutKey
  BY <1>2, RateConstants, Budgets DEF Limiter!Init, WithoutKey
<1> QED
  BY <1>3, <1>4, <1>5 DEF RateInv

LEMMA RateBegins == part = "limiter" /\ InitOthers => RateInv
  BY LimiterBegins DEF InitOthers

\* In a minute of the clock Redis admits at most twice the limit, and once more the
\* limit for each restart, whatever the limit, however many requests race, are late,
\* lose their answers or fall back to memory: WindowLimit of redisAllow.
THEOREM RedisHoldsTheLimit == Spec => []WindowLimit
<1>1. Init => (part = "limiter" => RateInv)
  BY RateBegins DEF Init
<1>2. (part = "limiter" => RateInv)
        /\ [Next]_<<spoolVars, limitVars, cacheVars, backoffVars, replayVars, part>>
        => (part = "limiter" => RateInv)'
  <2> SUFFICES ASSUME part' = "limiter", part = "limiter" => RateInv,
                      [Next]_<<spoolVars, limitVars, cacheVars, backoffVars, replayVars, part>>
               PROVE  RateInv'
    OBVIOUS
  <2>1. part = "limiter"
    BY DEF Next
  <2>2. Limiter!Next \/ UNCHANGED limitVars
    BY <2>1 DEF Next
  <2>3. CASE UNCHANGED limitVars
    <3>1. UNCHANGED <<now, keys, req, served, restarts>>
      BY <2>3 DEF limitVars
    <3>2. Limiter!IsFiniteSet(served') /\ \A v : Passed(v)' = Passed(v)
      BY <2>1, <3>1 DEF RateInv, RateTypes, Passed, Limiter!RedisIn, Limiter!Admitted
    <3>3. req' \in [Requests -> Limiter!Req] /\ InTime'
      BY <2>1, <3>1 DEF RateInv, RateTypes, InTime, Limiter!Idle
    <3> QED
      BY <2>1, <3>1, <3>2, <3>3, RateStands
  <2> QED
    BY <2>1, <2>2, <2>3, RateNext
<1>3. (part = "limiter" => RateInv) => WindowLimit
  <2> SUFFICES ASSUME RateInv, NEW w \in 0..Limiter!Window(MaxTime)
               PROVE  Passed(w) <= Limit * (2 + restarts)
    BY DEF WindowLimit, Limiter!WindowLimit, Passed
  <2>1. w \in Nat /\ Passed(w) \in Nat
    <3>1. Limiter!Window(MaxTime) \in Nat
      BY RateConstants, Minutes
    <3>2. Limiter!IsFiniteSet(served)
      BY DEF RateInv, RateTypes
    <3> QED
      BY <3>1, <3>2, PassedCounts
  <2>2. CASE \A k \in keys : k.window # w
    BY <2>1, <2>2 DEF RateInv, WithoutKey
  <2>3. ASSUME NEW k \in keys, k.window = w
        PROVE  Passed(w) <= Limit * (2 + restarts)
    <3>1. PICK b \in Nat : /\ Limit * (1 + restarts) = b + Limit
                           /\ Limit * (2 + restarts) = b + Limit + Limit
      <4>1. restarts \in Nat
        BY DEF RateInv, RateTypes
      <4> QED
        BY <4>1, Budgets
    <3>2. Spent(k.count) \in Nat /\ Spent(k.count) <= Limit
      BY Spending DEF RateInv, RateTypes
    <3>3. Passed(w) <= b + Limit + Spent(k.count)
      BY <2>3, <3>1 DEF RateInv, WithKey
    <3> QED
      BY <2>1, <3>1, <3>2, <3>3, RateConstants
  <2> QED
    BY <2>2, <2>3
<1> QED
  BY <1>1, <1>2, <1>3, PTL DEF Spec

-----------------------------------------------------------------------------
(* Sums over a finite set: that one exists, that it is the same whatever    *)
(* set it is part of, and what an element adds to it.  The induction is     *)
(* over the subsets of the set, as inclusion of finite sets is well-founded.*)

\* The element a sum takes first.
First(s) == CHOOSE x \in s : TRUE

\* g sums the weights w over each of the subsets of T.
IsSum(g, w, T) ==
    g = [s \in SUBSET T |-> IF s = {} THEN 0 ELSE w[First(s)] + g[s \ {First(s)}]]

LEMMA FirstIsIn == \A s : s # {} => First(s) \in s
  BY DEF First

\* Among subsets of a finite set one is smallest: the induction of this section.
LEMMA Smallest ==
    ASSUME NEW S, IsFiniteSet(S), NEW B, B \subseteq SUBSET S, B # {}
    PROVE  \E T \in B : \A U \in B : U \subseteq T => U = T
<1>1. PICK W : W = FiniteSubsetsOf(S)
  OBVIOUS
<1>2. W = SUBSET S
  BY <1>1, FS_FiniteSubsetsOfFinite
<1>3. IsWellFoundedOn(StrictSubsetOrdering(S), W)
  BY <1>1, FS_StrictSubsetOrderingWellFounded
<1>4. PICK T \in B : \A U \in B : ~ (<<U, T>> \in StrictSubsetOrdering(S))
  BY <1>2, <1>3, WFMin
<1>5. ASSUME NEW U \in B, U \subseteq T, U # T
      PROVE  FALSE
  BY <1>4, <1>5 DEF StrictSubsetOrdering
<1> QED
  BY <1>4, <1>5

LEMMA SumStep ==
    ASSUME NEW T, NEW g, NEW w, IsSum(g, w, T), NEW s \in SUBSET T
    PROVE  /\ s = {} => g[s] = 0
           /\ s # {} => g[s] = w[First(s)] + g[s \ {First(s)}]
  BY DEF IsSum

\* The sum of a set does not depend on the set it is summed in.
LEMMA SumsAgree ==
    ASSUME NEW S, IsFiniteSet(S), NEW w, NEW V \in SUBSET S, NEW g, NEW h,
           IsSum(g, w, S), IsSum(h, w, V)
    PROVE  g[V] = h[V]
<1> SUFFICES ASSUME g[V] # h[V] PROVE FALSE
  OBVIOUS
<1>1. PICK D : D = {t \in SUBSET V : g[t] # h[t]}
  OBVIOUS
<1>2. PICK t \in D : \A u \in D : u \subseteq t => u = t
  <2>1. V \in D /\ D \subseteq SUBSET S
    BY <1>1
  <2> QED
    BY <2>1, Smallest
<1>3. t \in SUBSET S /\ t \in SUBSET V /\ g[t] # h[t]
  BY <1>1, <1>2
<1>4. PICK u : u = t \ {First(t)}
  OBVIOUS
<1>5. t # {} /\ g[u] # h[u]
  <2>1. /\ t = {} => g[t] = 0
        /\ t # {} => g[t] = w[First(t)] + g[u]
    BY <1>3, <1>4 DEF IsSum
  <2>2. /\ t = {} => h[t] = 0
        /\ t # {} => h[t] = w[First(t)] + h[u]
    BY <1>3, <1>4 DEF IsSum
  <2> QED
    BY <1>3, <2>1, <2>2
<1>6. u \in D /\ u # t
  BY <1>1, <1>3, <1>4, <1>5, FirstIsIn
<1> QED
  BY <1>2, <1>4, <1>6

LEMMA SumExists ==
    ASSUME NEW S, IsFiniteSet(S), NEW w
    PROVE  \E g : IsSum(g, w, S)
<1> SUFFICES ASSUME ~ \E g : IsSum(g, w, S) PROVE FALSE
  OBVIOUS
<1>1. PICK D : D = {t \in SUBSET S : ~ \E g : IsSum(g, w, t)}
  OBVIOUS
<1>2. PICK t \in D : \A u \in D : u \subseteq t => u = t
  <2>1. S \in D /\ D \subseteq SUBSET S
    BY <1>1
  <2> QED
    BY <2>1, Smallest
<1>3. PICK G : G = [u \in SUBSET t |-> CHOOSE g : IsSum(g, w, u)]
  OBVIOUS
<1>4. ASSUME NEW u \in SUBSET t, u # t
      PROVE  IsSum(G[u], w, u)
  <2>1. u \in SUBSET S /\ u \notin D
    BY <1>1, <1>2, <1>4
  <2>2. \E g : IsSum(g, w, u)
    BY <1>1, <2>1
  <2> QED
    BY <1>3, <2>2
<1>5. PICK h : h = [s \in SUBSET t |-> IF s = {} THEN 0
                                       ELSE w[First(s)] + G[s \ {First(s)}][s \ {First(s)}]]
  OBVIOUS
<1>6. ASSUME NEW u \in SUBSET t, u # t
      PROVE  h[u] = G[u][u]
  <2>1. PICK v : v = u \ {First(u)}
    OBVIOUS
  <2>2. v \in SUBSET t /\ v # t /\ v \subseteq u /\ v \in SUBSET S /\ u \in SUBSET S
    BY <1>1, <1>2, <1>6, <2>1
  <2>3. IsSum(G[u], w, u) /\ IsSum(G[v], w, v)
    BY <1>4, <1>6, <2>2
  <2>4. G[u][v] = G[v][v]
    <3>1. PICK g, k : g = G[u] /\ k = G[v] /\ IsSum(g, w, u) /\ IsSum(k, w, v)
      BY <2>3
    <3>2. IsFiniteSet(u) /\ v \in SUBSET u
      BY <2>2, FS_Subset
    <3>3. g[v] = k[v]
      BY <3>1, <3>2, SumsAgree
    <3> QED
      BY <3>1, <3>3
  <2>5. /\ u = {} => G[u][u] = 0
        /\ u # {} => G[u][u] = w[First(u)] + G[u][v]
    BY <2>1, <2>3, SumStep
  <2>6. CASE u = {}
    <3>1. h[u] = 0
      BY <1>5, <2>6
    <3> QED
      BY <2>5, <2>6, <3>1
  <2>7. CASE u # {}
    <3>1. h[u] = w[First(u)] + G[v][v]
      BY <1>5, <2>1, <2>7
    <3>2. G[u][u] = w[First(u)] + G[v][v]
      BY <2>4, <2>5, <2>7
    <3> QED
      BY <3>1, <3>2
  <2> QED
    BY <2>6, <2>7
<1>7. \A s \in SUBSET t : s # {} => G[s \ {First(s)}][s \ {First(s)}] = h[s \ {First(s)}]
  <2> SUFFICES ASSUME NEW s \in SUBSET t, s # {}
               PROVE  G[s \ {First(s)}][s \ {First(s)}] = h[s \ {First(s)}]
    OBVIOUS
  <2>1. s \ {First(s)} \in SUBSET t /\ s \ {First(s)} # t
    BY FirstIsIn
  <2> QED
    BY <1>6, <2>1
<1>8. IsSum(h, w, t)
  BY <1>5, <1>7 DEF IsSum
<1> QED
  BY <1>1, <1>2, <1>8

\* Any element may be taken first, not only the one the definition takes.
LEMMA SumTakes ==
    ASSUME NEW S, IsFiniteSet(S), NEW w, \A k \in S : w[k] \in Int, NEW g, IsSum(g, w, S)
    PROVE  g[S] \in Int /\ \A k \in S : g[S] = w[k] + g[S \ {k}]
<1>1. PICK D : D = {t \in SUBSET S :
                       ~ (g[t] \in Int /\ \A k \in t : g[t] = w[k] + g[t \ {k}])}
  OBVIOUS
<1>2. D = {}
  <2> SUFFICES ASSUME D # {} PROVE FALSE
    OBVIOUS
  <2>1. PICK t \in D : \A u \in D : u \subseteq t => u = t
    <3>1. D \subseteq SUBSET S
      BY <1>1
    <3> QED
      BY <3>1, Smallest
  <2>2. t \in SUBSET S /\ ~ (g[t] \in Int /\ \A k \in t : g[t] = w[k] + g[t \ {k}])
    BY <1>1, <2>1
  <2>3. PICK f : f = First(t)
    OBVIOUS
  <2>4. t # {} /\ f \in t
    <3>1. t = {} => g[t] = 0
      BY <2>2 DEF IsSum
    <3> QED
      BY <2>2, <2>3, <3>1, FirstIsIn
  <2>5. g[t] = w[f] + g[t \ {f}]
    BY <2>2, <2>3, <2>4 DEF IsSum
  <2>6. ASSUME NEW u \in SUBSET t, u # t
        PROVE  g[u] \in Int /\ \A k \in u : g[u] = w[k] + g[u \ {k}]
    BY <1>1, <2>1, <2>2, <2>6
  <2>7. g[t] \in Int
    BY <2>2, <2>4, <2>5, <2>6
  <2>8. ASSUME NEW k \in t, k # f
        PROVE  g[t] = w[k] + g[t \ {k}]
    <3>1. PICK u, v, x : u = t \ {f} /\ v = t \ {k} /\ x = u \ {k}
      OBVIOUS
    <3>2. x = v \ {f} /\ k \in u /\ f \in v /\ u # t /\ v # t /\ x # t
          /\ u \in SUBSET t /\ v \in SUBSET t /\ x \in SUBSET t
      BY <2>4, <2>8, <3>1
    <3>3. g[u] = w[k] + g[x] /\ g[v] = w[f] + g[x] /\ g[x] \in Int
      BY <2>6, <3>1, <3>2
    <3>4. w[k] \in Int /\ w[f] \in Int
      BY <2>2, <2>4, <2>8
    <3> QED
      BY <2>5, <3>1, <3>3, <3>4
  <2> QED
    BY <2>2, <2>5, <2>7, <2>8
<1> QED
  BY <1>1, <1>2

-----------------------------------------------------------------------------
(* The spool                                                               *)

\* The bytes of a directory are such a sum.
LEMMA BytesIsSum ==
    ASSUME NEW S, IsFiniteSet(S)
    PROVE  \E g : IsSum(g, [f \in S |-> f.size], S) /\ FailingSpool!Bytes(S) = g[S]
<1>1. PICK w : w = [f \in S |-> f.size]
  OBVIOUS
<1>2. PICK g : IsSum(g, w, S)
  BY SumExists
<1>3. \A s \in SUBSET S : s # {} => w[First(s)] = First(s).size
  BY <1>1, FirstIsIn
<1>4. PICK h : h = CHOOSE iter : iter = [s \in SUBSET S |->
             IF s = {} THEN 0 ELSE First(s).size + iter[s \ {First(s)}]]
  OBVIOUS
<1>5. g = [s \in SUBSET S |-> IF s = {} THEN 0 ELSE First(s).size + g[s \ {First(s)}]]
  BY <1>2, <1>3 DEF IsSum
<1>6. h = [s \in SUBSET S |-> IF s = {} THEN 0 ELSE First(s).size + h[s \ {First(s)}]]
  BY <1>4, <1>5
<1>7. IsSum(h, w, S)
  BY <1>3, <1>6 DEF IsSum
<1>8. FailingSpool!Bytes(S) = h[S]
  BY <1>4 DEF FailingSpool!Bytes, FailingSpool!MapThenSumSet, FailingSpool!MapThenFoldSet, First
<1> QED
  BY <1>1, <1>7, <1>8

\* One file more.
LEMMA BytesGrow ==
    ASSUME NEW S, IsFiniteSet(S), NEW r, r \notin S, r.size \in Int,
           \A f \in S : f.size \in Int
    PROVE  /\ FailingSpool!Bytes(S) \in Int
           /\ FailingSpool!Bytes(S \cup {r}) = FailingSpool!Bytes(S) + r.size
<1>1. PICK T : T = S \cup {r}
  OBVIOUS
<1>2. IsFiniteSet(T)
  BY <1>1, FS_AddElement
<1>3. PICK w, g : w = [f \in T |-> f.size] /\ IsSum(g, w, T) /\ FailingSpool!Bytes(T) = g[T]
  BY <1>2, BytesIsSum
<1>4. PICK v, h : v = [f \in S |-> f.size] /\ IsSum(h, v, S) /\ FailingSpool!Bytes(S) = h[S]
  BY BytesIsSum
<1>5. IsSum(h, w, S)
  <2>1. \A s \in SUBSET S : s # {} => v[First(s)] = w[First(s)]
    BY <1>1, <1>3, <1>4, FirstIsIn
  <2> QED
    BY <1>4, <2>1 DEF IsSum
<1>6. g[S] = h[S]
  <2>1. S \in SUBSET T
    BY <1>1
  <2> QED
    BY <1>2, <1>3, <1>5, <2>1, SumsAgree
<1>7. g[T] = w[r] + g[T \ {r}] /\ w[r] = r.size
  BY <1>1, <1>2, <1>3, SumTakes
<1>8. h[S] \in Int
  <2>1. \A f \in S : v[f] \in Int
    BY <1>4
  <2> QED
    BY <1>4, <2>1, SumTakes
<1>9. T \ {r} = S
  BY <1>1
<1>10. g[T] = h[S] + r.size
  <2>1. g[T] = r.size + h[S]
    BY <1>6, <1>7, <1>9, Zenon
  <2> QED
    BY <1>8, <2>1
<1>11. FailingSpool!Bytes(S \cup {r}) = g[T]
  BY <1>1, <1>3, Zenon
<1> QED
  BY <1>4, <1>8, <1>10, <1>11

LEMMA NoBytes == FailingSpool!Bytes({}) = 0
<1>1. PICK g, w : IsSum(g, w, {}) /\ FailingSpool!Bytes({}) = g[{}]
  BY BytesIsSum, FS_EmptySet
<1> QED
  BY <1>1 DEF IsSum

\* A set of naturals has a least element: Min is one of them.
LEMMA MinIs ==
    ASSUME NEW S, S \subseteq Nat, S # {}
    PROVE  FailingSpool!Min(S) \in S /\ \A n \in S : FailingSpool!Min(S) <= n
<1>1. PICK m \in S : \A n \in S : ~ (<<n, m>> \in OpToRel(<, Nat))
  BY NatLessThanWellFounded, WFMin
<1>2. \A n \in S : m <= n
  <2>1. ASSUME NEW n \in S, n < m PROVE FALSE
    <3>1. <<n, m>> \in OpToRel(<, Nat)
      BY <2>1 DEF OpToRel
    <3> QED
      BY <1>1, <3>1, Zenon
  <2> QED
    BY <2>1
<1> QED
  BY <1>2 DEF FailingSpool!Min

\* One file, and one file less.
LEMMA BytesShrink ==
    ASSUME NEW S, IsFiniteSet(S), \A f \in S : f.size \in Int, NEW x \in S
    PROVE  /\ FailingSpool!Bytes(S) \in Int /\ FailingSpool!Bytes(S \ {x}) \in Int
           /\ FailingSpool!Bytes(S \ {x}) = FailingSpool!Bytes(S) - x.size
           /\ FailingSpool!Bytes({x}) = x.size
<1>1. PICK R : R = S \ {x}
  OBVIOUS
<1>2. IsFiniteSet(R) /\ x \notin R /\ S = R \cup {x} /\ \A f \in R : f.size \in Int
  BY <1>1, FS_Subset
<1>3. FailingSpool!Bytes(R) \in Int /\ FailingSpool!Bytes(R \cup {x}) = FailingSpool!Bytes(R) + x.size
  BY <1>2, BytesGrow
<1>4. FailingSpool!Bytes(S) = FailingSpool!Bytes(R) + x.size
  BY <1>2, <1>3, Zenon
<1>5. FailingSpool!Bytes({} \cup {x}) = FailingSpool!Bytes({}) + x.size
  BY BytesGrow, FS_EmptySet
<1>6. {} \cup {x} = {x} /\ FailingSpool!Bytes({}) = 0 /\ x.size \in Int
  BY NoBytes
<1>7. FailingSpool!Bytes({x}) = x.size
  BY <1>5, <1>6
<1>8. FailingSpool!Bytes(S \ {x}) = FailingSpool!Bytes(R)
  BY <1>1, Zenon
<1> QED
  BY <1>3, <1>4, <1>6, <1>7, <1>8

\* A file that the writer's task names.
Owns(t) == \E f \in dir : f.name = t.name /\ f.size = t.size

\* The files whose names are still to be deleted.
Left(todo) == {f \in dir : f.name \in todo}

FileSound(f) == f \in [name : Nat, size : Sizes, tmp : BOOLEAN] /\ f.name <= named

WriterTask == [step : {"idle", "write", "scan", "trim", "rename"}, name : Nat, size : Nat,
               todo : SUBSET Nat, used : Int]

\* What the writer knows: it has the newest name, its file is there once it is
\* written, and while it trims, the bytes it counts are those of the files that are
\* left, its own and at least one that is older.
WriterSound(t) ==
    /\ t \in WriterTask
    /\ t.step # "idle" => t.name = named /\ t.size \in Sizes
    /\ t.step = "write" => \A f \in dir : f.name # named
    /\ t.step \in {"scan", "trim", "rename"} => Owns(t)
    /\ t.step = "trim" =>
          /\ t.todo \subseteq FailingSpool!NamesIn(dir)
          /\ named \in t.todo /\ t.todo # {named}
          /\ t.used = FailingSpool!Bytes(Left(t.todo))

FilesSound ==
    /\ IsFiniteSet(dir) /\ named \in Nat
    /\ \A f \in dir : FileSound(f)
    /\ \A f, g \in dir : f.name = g.name => f = g

SpoolInv ==
    /\ FilesSound
    /\ DOMAIN task = {Writer} /\ WriterSound(task[Writer])
    /\ lost = {}

LEMMA SpoolConstants ==
    /\ \A size \in Sizes : size \in Nat /\ 2 * size <= LowMark /\ size <= MaxBytes
    /\ LowMark \in Nat /\ MaxBytes \in Nat /\ LowMark <= MaxBytes
<1>1. /\ Sizes \subseteq Nat \ {0} /\ MaxBytes \in Nat \ {0} /\ LowMark \in 0..MaxBytes
      /\ \A size \in Sizes : 2 * size <= LowMark
  BY MCPlatformAssumption DEF FailingSpool!SpoolAssumption
<1> QED
  BY <1>1

LEMMA IdleWriter == FailingSpool!Idle \in WriterTask /\ FailingSpool!Idle.step = "idle"
  BY DEF FailingSpool!Idle, WriterTask

LEMMA SpoolBegins == FailingSpool!Init => SpoolInv
  BY FS_EmptySet, IdleWriter
     DEF FailingSpool!Init, SpoolInv, FilesSound, WriterSound

\* A step of the writer.
LEMMA WriterStep ==
    ASSUME SpoolInv, NEW u, FailingSpool!Go(Writer, u), WriterSound(u)', FilesSound', lost' = {}
    PROVE  SpoolInv'
  BY DEF SpoolInv, FailingSpool!Go

LEMMA SameFiles == ASSUME FilesSound, UNCHANGED <<dir, named>> PROVE FilesSound'
  BY DEF FilesSound, FileSound

LEMMA FilesLess == ASSUME FilesSound, dir' \subseteq dir, UNCHANGED named PROVE FilesSound'
  BY FS_Subset DEF FilesSound, FileSound

LEMMA EnqueueKeeps ==
    ASSUME SpoolInv, NEW size \in Sizes, FailingSpool!Enqueue(Writer, size)
    PROVE  SpoolInv'
<1>1. PICK u : u = [FailingSpool!Idle EXCEPT !.step = "write", !.name = named + 1, !.size = size]
  OBVIOUS
<1>2. named' = named + 1 /\ dir' = dir /\ lost' = {} /\ FailingSpool!Go(Writer, u)
  BY <1>1 DEF FailingSpool!Enqueue, SpoolInv
<1>3. \A f \in dir : FileSound(f)' /\ f.name # named'
  BY <1>2 DEF SpoolInv, FilesSound, FileSound
<1>4. FilesSound'
  BY <1>2, <1>3 DEF SpoolInv, FilesSound
<1>5. u \in WriterTask /\ u.step = "write" /\ u.name = named + 1 /\ u.size = size
  <2>1. size \in Nat /\ named \in Nat
    BY SpoolConstants DEF SpoolInv, FilesSound
  <2>2. u = [step |-> "write", name |-> named + 1, size |-> size, todo |-> {}, used |-> 0]
    BY <1>1 DEF FailingSpool!Idle
  <2> QED
    BY <2>1, <2>2 DEF WriterTask
<1>6. WriterSound(u)'
  BY <1>2, <1>3, <1>5 DEF WriterSound
<1> QED
  BY <1>2, <1>4, <1>6, WriterStep

LEMMA WriteKeeps == ASSUME SpoolInv, FailingSpool!Write(Writer) PROVE SpoolInv'
<1>1. PICK t, f, u : /\ t = task[Writer]
                     /\ f = [name |-> t.name, size |-> t.size, tmp |-> TRUE]
                     /\ u = [t EXCEPT !.step = "scan"]
  OBVIOUS
<1>2. /\ dir' = dir \cup {f} /\ FailingSpool!Go(Writer, u)
      /\ UNCHANGED named /\ lost' = {} /\ t.step = "write"
  BY <1>1 DEF FailingSpool!Write, SpoolInv
<1>3. t.name = named /\ t.size \in Sizes /\ t \in WriterTask /\ \A g \in dir : g.name # named
  BY <1>1, <1>2 DEF SpoolInv, WriterSound
<1>4. FileSound(f)
  BY <1>1, <1>3 DEF FileSound, SpoolInv, FilesSound
<1>5. FilesSound'
  <2>1. \A g \in dir' : FileSound(g)'
    BY <1>2, <1>4 DEF SpoolInv, FilesSound, FileSound
  <2>2. \A g, h \in dir' : g.name = h.name => g = h
    <3>1. f.name = named /\ \A g \in dir' : g = f \/ (g \in dir /\ g.name # named)
      BY <1>1, <1>2, <1>3
    <3>2. \A g, h \in dir : g.name = h.name => g = h
      BY DEF SpoolInv, FilesSound
    <3> QED
      BY <3>1, <3>2
  <2>3. IsFiniteSet(dir')
    BY <1>2, FS_AddElement DEF SpoolInv, FilesSound
  <2> QED
    BY <1>2, <2>1, <2>2, <2>3 DEF SpoolInv, FilesSound
<1>6. u \in WriterTask /\ u.step = "scan" /\ u.name = t.name /\ u.size = t.size
  BY <1>1, <1>3 DEF WriterTask
<1>7. f \in dir' /\ f.name = u.name /\ f.size = u.size
  BY <1>1, <1>2, <1>6
<1>8. WriterSound(u)'
  BY <1>2, <1>3, <1>6, <1>7 DEF WriterSound, Owns
<1> QED
  BY <1>2, <1>5, <1>8, WriterStep

LEMMA BytesInt == ASSUME FilesSound, NEW S \in SUBSET dir PROVE FailingSpool!Bytes(S) \in Int
<1>1. IsFiniteSet(S) /\ \A f \in S : f.size \in Int
  BY FS_Subset, SpoolConstants DEF FilesSound, FileSound
<1>2. CASE S = {}
  BY <1>2, NoBytes
<1>3. CASE S # {}
  BY <1>1, <1>3, BytesShrink
<1> QED
  BY <1>2, <1>3

\* A single name stands for the writer's own file.
LEMMA OwnBytes ==
    ASSUME FilesSound, NEW t, Owns(t), t.name = named
    PROVE  FailingSpool!Bytes(Left({named})) = t.size
<1>1. PICK f \in dir : f.name = t.name /\ f.size = t.size
  BY DEF Owns
<1>2. Left({named}) = {f}
  BY <1>1 DEF FilesSound, Left
<1>3. f.size \in Int /\ IsFiniteSet({f}) /\ f \in {f}
  <2>1. f.size \in Int
    BY <1>1, SpoolConstants DEF FilesSound, FileSound
  <2> QED
    BY <2>1, FS_Singleton
<1>4. FailingSpool!Bytes({f}) = f.size
  BY <1>3, BytesShrink
<1> QED
  BY <1>1, <1>2, <1>4, Zenon

\* The scan finds a file besides its own, or there would be room.
LEMMA ScanKeeps == ASSUME SpoolInv, FailingSpool!Scan(Writer) PROVE SpoolInv'
<1>1. PICK t, full, all : /\ t = task[Writer] /\ all = FailingSpool!NamesIn(dir)
                          /\ full = (FailingSpool!Bytes(dir) + t.size > MaxBytes)
  OBVIOUS
<1>2. PICK u : u = [t EXCEPT !.step = IF full THEN "trim" ELSE "rename",
                             !.todo = IF full THEN all ELSE {},
                             !.used = FailingSpool!Bytes(dir)]
  OBVIOUS
<1>3. FailingSpool!Go(Writer, u) /\ UNCHANGED <<dir, named>> /\ lost' = {} /\ t.step = "scan"
  BY <1>1, <1>2 DEF FailingSpool!Scan, SpoolInv
<1>4. Owns(t) /\ t.name = named /\ t.size \in Sizes /\ t \in WriterTask
  BY <1>1, <1>3 DEF SpoolInv, WriterSound
<1>5. Left(all) = dir /\ named \in all /\ all \subseteq Nat
  BY <1>1, <1>4 DEF Left, Owns, FailingSpool!NamesIn, SpoolInv, FilesSound, FileSound
<1>6. full => all # {named}
  <2> SUFFICES ASSUME full, all = {named} PROVE FALSE
    OBVIOUS
  <2>1. FailingSpool!Bytes(Left({named})) = t.size
    BY <1>4, OwnBytes DEF SpoolInv
  <2>2. FailingSpool!Bytes(dir) = t.size
    BY <1>5, <2>1, Zenon
  <2>3. FailingSpool!Bytes(dir) + t.size > MaxBytes
    BY <1>1, Zenon
  <2>4. t.size \in Nat /\ 2 * t.size <= MaxBytes
    BY <1>4, SpoolConstants
  <2> QED
    BY <2>2, <2>3, <2>4, SpoolConstants
<1>7. FailingSpool!Bytes(dir) \in Int
  BY BytesInt DEF SpoolInv
<1>8. /\ u \in WriterTask /\ u.name = t.name /\ u.size = t.size
      /\ u.step = IF full THEN "trim" ELSE "rename"
      /\ full => u.todo = all /\ u.used = FailingSpool!Bytes(dir)
  BY <1>2, <1>4, <1>5, <1>7 DEF WriterTask
<1>9. full => u.used = FailingSpool!Bytes(Left(u.todo))
  BY <1>5, <1>8, Zenon
<1>10. WriterSound(u)
  <2>1. Owns(u)
    BY <1>4, <1>8 DEF Owns
  <2> QED
    BY <1>1, <1>4, <1>5, <1>6, <1>8, <1>9, <2>1 DEF WriterSound
<1>11. WriterSound(u)'
  BY <1>3, <1>10 DEF WriterSound, Owns, Left, FailingSpool!NamesIn
<1> QED
  BY <1>3, <1>11, WriterStep, SameFiles DEF SpoolInv

\* What is deleted next is older than the writer's own file, and it is one file.
LEMMA VictimIs ==
    ASSUME SpoolInv, NEW t, t = task[Writer], t.step = "trim",
           NEW n, n = FailingSpool!Victim(t.todo)
    PROVE  /\ n \in t.todo /\ n # named
           /\ \E f \in dir : f.name = n /\ FailingSpool!Named(n) = {f}
<1>1. t.todo \subseteq FailingSpool!NamesIn(dir) /\ named \in t.todo /\ t.todo # {named}
  BY DEF SpoolInv, WriterSound
<1>2. \A m \in t.todo : m \in Nat /\ m <= named
  BY <1>1 DEF FailingSpool!NamesIn, SpoolInv, FilesSound, FileSound
<1>3. n \in t.todo /\ \A m \in t.todo : n <= m
  <2>1. t.todo \subseteq Nat /\ t.todo # {}
    BY <1>1, <1>2
  <2>2. n = FailingSpool!Min(t.todo)
    BY DEF FailingSpool!Victim
  <2> QED
    BY <2>1, <2>2, MinIs
<1>4. PICK m \in t.todo : m # named
  BY <1>1
<1>5. n # named
  BY <1>2, <1>3, <1>4
<1>6. PICK f \in dir : f.name = n
  BY <1>1, <1>3 DEF FailingSpool!NamesIn
<1>7. FailingSpool!Named(n) = {f}
  BY <1>6 DEF FailingSpool!Named, SpoolInv, FilesSound
<1> QED
  BY <1>3, <1>5, <1>6, <1>7

\* When only the writer's own file is left, there is room.
LEMMA AfterIs ==
    ASSUME SpoolInv, NEW t, t = task[Writer], t.step = "trim",
           NEW n, n = FailingSpool!Victim(t.todo), NEW u, u = FailingSpool!After(t, n)
    PROVE  /\ u \in WriterTask /\ u.name = t.name /\ u.size = t.size
           /\ u.step \in {"trim", "rename"}
           /\ u.todo = t.todo \ {n}
           /\ u.used = FailingSpool!Bytes(Left(u.todo))
           /\ u.step = "trim" => u.todo # {named}
<1>1. /\ t \in WriterTask /\ t.name = named /\ t.size \in Sizes /\ Owns(t)
      /\ t.used = FailingSpool!Bytes(Left(t.todo))
  BY DEF SpoolInv, WriterSound
<1>2. PICK used, todo : /\ used = t.used - FailingSpool!Bytes(FailingSpool!Named(n))
                        /\ todo = t.todo \ {n}
  OBVIOUS
<1>3. PICK f \in dir : f.name = n /\ FailingSpool!Named(n) = {f}
  BY VictimIs
<1>4. n \in t.todo
  BY VictimIs
<1>5. used \in Int /\ used = FailingSpool!Bytes(Left(todo))
  <2>1. PICK S : S = Left(t.todo)
    OBVIOUS
  <2>2. f \in S /\ S \in SUBSET dir
    BY <1>3, <1>4, <2>1 DEF Left
  <2>3. Left(todo) = S \ {f}
    BY <1>2, <1>3, <2>1 DEF Left, SpoolInv, FilesSound
  <2>4. IsFiniteSet(S) /\ \A g \in S : g.size \in Int
    BY <2>2, FS_Subset, SpoolConstants DEF SpoolInv, FilesSound, FileSound
  <2>5. /\ FailingSpool!Bytes(S) \in Int /\ FailingSpool!Bytes(S \ {f}) \in Int
        /\ FailingSpool!Bytes(S \ {f}) = FailingSpool!Bytes(S) - f.size
        /\ FailingSpool!Bytes({f}) = f.size
    BY <2>2, <2>4, BytesShrink
  <2>6. used = FailingSpool!Bytes(S) - f.size
    <3>1. used = FailingSpool!Bytes(S) - FailingSpool!Bytes({f})
      BY <1>1, <1>2, <1>3, <2>1, Zenon
    <3> QED
      BY <2>5, <3>1, Zenon
  <2>7. FailingSpool!Bytes(Left(todo)) = FailingSpool!Bytes(S \ {f})
    BY <2>3, Zenon
  <2> QED
    BY <2>5, <2>6, <2>7
<1>6. PICK v : v = [t EXCEPT !.todo = todo, !.used = used]
  OBVIOUS
<1>7. v \in WriterTask /\ v.name = t.name /\ v.size = t.size /\ v.step = "trim"
      /\ v.todo = todo /\ v.used = used
  BY <1>1, <1>2, <1>5, <1>6 DEF WriterTask
<1>8. u = IF used + t.size <= LowMark \/ todo = {} THEN [v EXCEPT !.step = "rename"] ELSE v
  <2>1. v = [t EXCEPT !.todo = @ \ {n},
                      !.used = @ - FailingSpool!Bytes(FailingSpool!Named(n))]
    BY <1>1, <1>2, <1>6 DEF WriterTask
  <2> QED
    BY <1>2, <1>7, <2>1 DEF FailingSpool!After
<1>9. /\ u \in WriterTask /\ u.name = t.name /\ u.size = t.size /\ u.todo = todo
      /\ u.used = used /\ u.step \in {"trim", "rename"}
      /\ u.step = "trim" => ~ (used + t.size <= LowMark)
  BY <1>7, <1>8 DEF WriterTask
<1>10. ASSUME u.step = "trim", todo = {named} PROVE FALSE
  <2>1. FailingSpool!Bytes(Left({named})) = t.size
    BY <1>1, OwnBytes DEF SpoolInv
  <2>2. used = t.size
    BY <1>5, <1>10, <2>1, Zenon
  <2> QED
    BY <1>1, <1>9, <1>10, <2>2, SpoolConstants
<1>11. u.used = FailingSpool!Bytes(Left(u.todo))
  BY <1>5, <1>9, Zenon
<1> QED
  BY <1>2, <1>9, <1>10, <1>11

LEMMA TrimKeeps == ASSUME SpoolInv, FailingSpool!Trim(Writer) PROVE SpoolInv'
<1>1. PICK t, n, u : /\ t = task[Writer] /\ n = FailingSpool!Victim(t.todo)
                     /\ u = FailingSpool!After(t, n)
  OBVIOUS
<1>2. /\ t.step = "trim" /\ FailingSpool!Go(Writer, u) /\ UNCHANGED named /\ lost' = {}
      /\ dir' = dir \ FailingSpool!Named(n) \/ dir' = dir
  BY <1>1 DEF FailingSpool!Trim, SpoolInv
<1>3. n \in t.todo /\ n # named
  BY <1>1, <1>2, VictimIs
<1>4. /\ u \in WriterTask /\ u.name = t.name /\ u.size = t.size
      /\ u.step \in {"trim", "rename"}
      /\ u.todo = t.todo \ {n}
      /\ u.used = FailingSpool!Bytes(Left(u.todo))
      /\ u.step = "trim" => u.todo # {named}
  BY <1>1, <1>2, AfterIs
<1>5. /\ t.name = named /\ t.size \in Sizes /\ Owns(t)
      /\ t.todo \subseteq FailingSpool!NamesIn(dir) /\ named \in t.todo
  BY <1>1, <1>2 DEF SpoolInv, WriterSound
<1>6. dir' \subseteq dir /\ \A f \in dir : f.name # n => f \in dir'
  BY <1>2 DEF FailingSpool!Named
<1>7. Left(u.todo)' = Left(u.todo)
  BY <1>4, <1>6 DEF Left
<1>8. u.used = FailingSpool!Bytes(Left(u.todo))'
  <2>1. FailingSpool!Bytes(Left(u.todo))' = FailingSpool!Bytes(Left(u.todo)')
    BY DEF FailingSpool!Bytes, FailingSpool!MapThenSumSet, FailingSpool!MapThenFoldSet
  <2> QED
    BY <1>4, <1>7, <2>1, Zenon
<1>9. Owns(u)'
  BY <1>3, <1>4, <1>5, <1>6 DEF Owns
<1>10. u.todo \subseteq FailingSpool!NamesIn(dir)'
  BY <1>4, <1>5, <1>6 DEF FailingSpool!NamesIn
<1>11. WriterSound(u)'
  BY <1>2, <1>3, <1>4, <1>5, <1>8, <1>9, <1>10 DEF WriterSound
<1> QED
  BY <1>2, <1>6, <1>11, WriterStep, FilesLess DEF SpoolInv

LEMMA RenameKeeps == ASSUME SpoolInv, FailingSpool!Rename(Writer) PROVE SpoolInv'
<1>1. PICK t : t = task[Writer]
  OBVIOUS
<1>2. t.step = "rename" /\ t.size \in Sizes /\ Owns(t) /\ t.size <= MaxBytes
  BY <1>1, SpoolConstants DEF SpoolInv, WriterSound, FailingSpool!Rename
<1>3. FailingSpool!Named(t.name) # {}
  BY <1>2 DEF Owns, FailingSpool!Named
<1>4. /\ dir' = {IF f.name = t.name THEN [f EXCEPT !.tmp = FALSE] ELSE f : f \in dir}
      /\ lost' = {} /\ FailingSpool!Go(Writer, FailingSpool!Idle) /\ UNCHANGED named
  BY <1>1, <1>2, <1>3 DEF FailingSpool!Rename, SpoolInv
<1>5. PICK R : R = [f \in dir |-> IF f.name = t.name THEN [f EXCEPT !.tmp = FALSE] ELSE f]
  OBVIOUS
<1>6. dir' = {R[f] : f \in dir}
  BY <1>4, <1>5
<1>7. \A f \in dir : R[f] \in [name : Nat, size : Sizes, tmp : BOOLEAN] /\ R[f].name = f.name
  BY <1>5 DEF SpoolInv, FilesSound, FileSound
<1>8. FilesSound'
  <2>1. IsFiniteSet(dir')
    <3>1. R \in Surjection(dir, dir')
      BY <1>5, <1>6 DEF Surjection
    <3> QED
      BY <3>1, FS_Surjection DEF SpoolInv, FilesSound
  <2>2. \A f \in dir' : FileSound(f)'
    BY <1>4, <1>6, <1>7 DEF SpoolInv, FilesSound, FileSound
  <2>3. \A f, g \in dir' : f.name = g.name => f = g
    BY <1>6, <1>7 DEF SpoolInv, FilesSound
  <2> QED
    BY <1>4, <2>1, <2>2, <2>3 DEF SpoolInv, FilesSound
<1>9. WriterSound(FailingSpool!Idle)'
  BY IdleWriter DEF WriterSound, FailingSpool!Idle
<1> QED
  BY <1>4, <1>8, <1>9, WriterStep DEF FailingSpool!Idle

LEMMA CrashKeeps == ASSUME SpoolInv, FailingSpool!Crash(Writer) PROVE SpoolInv'
<1>1. PICK u : u = FailingSpool!Idle
  OBVIOUS
<1>2. FailingSpool!Go(Writer, u) /\ UNCHANGED <<dir, named>> /\ lost' = {}
  BY <1>1 DEF FailingSpool!Crash, SpoolInv
<1>3. WriterSound(u)'
  BY <1>1, IdleWriter DEF WriterSound
<1> QED
  BY <1>2, <1>3, WriterStep, SameFiles DEF SpoolInv

LEMMA SpoolKeeps ==
    ASSUME part = "failing spool" => SpoolInv,
           [Next]_<<spoolVars, limitVars, cacheVars, backoffVars, replayVars, part>>
    PROVE  (part = "failing spool" => SpoolInv)'
<1>1. CASE UNCHANGED spoolVars /\ UNCHANGED part
  <2>1. UNCHANGED <<dir, named, task, lost>>
    BY <1>1 DEF spoolVars
  <2>2. PICK t : t = task[Writer]
    OBVIOUS
  <2>3. FailingSpool!Bytes(Left(t.todo))' = FailingSpool!Bytes(Left(t.todo))
    BY <2>1
       DEF Left, FailingSpool!Bytes, FailingSpool!MapThenSumSet, FailingSpool!MapThenFoldSet
  <2>4. WriterSound(t) => WriterSound(t)'
    BY <2>1, <2>3 DEF WriterSound, Owns, FailingSpool!NamesIn
  <2>5. SpoolInv => SpoolInv'
    BY <2>1, <2>2, <2>4, SameFiles DEF SpoolInv
  <2> QED
    BY <1>1, <2>5
<1>2. CASE part = "failing spool" /\ FailingSpool!Next /\ UNCHANGED part
  <2>1. \/ \E size \in Sizes : FailingSpool!Enqueue(Writer, size)
        \/ FailingSpool!Write(Writer) \/ FailingSpool!Scan(Writer) \/ FailingSpool!Trim(Writer)
        \/ FailingSpool!Rename(Writer) \/ FailingSpool!Crash(Writer)
    BY <1>2 DEF FailingSpool!Next, FailingSpool!Remove
  <2> QED
    BY <1>2, <2>1, EnqueueKeeps, WriteKeeps, ScanKeeps, TrimKeeps, RenameKeeps, CrashKeeps
<1> QED
  BY <1>1, <1>2 DEF Next

\* With one writer and no consumer, a record that fits twice below the mark is never
\* lost, for any capacity and any number of crashes and failed deletions: trimming
\* counts the writer's own temporary file but stops before it comes to delete it
\* (spool.go, enforceCapacity).
THEOREM SmallRecordsAreStored == Spec => []SmallIsStored
<1>1. Init => (part = "failing spool" => SpoolInv)
  BY SpoolBegins DEF Init, InitOthers
<1>2. (part = "failing spool" => SpoolInv) => SmallIsStored
  BY DEF SpoolInv, SmallIsStored, FailingSpool!SmallIsStored
<1> QED
  BY <1>1, <1>2, SpoolKeeps, PTL DEF Spec

-----------------------------------------------------------------------------
(* Powers of two                                                           *)

\* A set of numbers has a least one.
LEMMA Least ==
    ASSUME NEW B, B \subseteq Nat, B # {}
    PROVE  \E n \in B : \A m \in B : n <= m
<1>1. PICK k \in B : k \in Nat
  OBVIOUS
<1>2. PICK S : S = 0..k
  OBVIOUS
<1>3. PICK C : C = {0..n : n \in {m \in B : m <= k}}
  OBVIOUS
<1>4. IsFiniteSet(S) /\ C \subseteq SUBSET S /\ S \in C
  <2>1. IsFiniteSet(S)
    BY <1>1, <1>2, FS_Interval
  <2>2. C \subseteq SUBSET S
    BY <1>1, <1>2, <1>3
  <2>3. S \in C
    BY <1>1, <1>2, <1>3
  <2> QED
    BY <2>1, <2>2, <2>3
<1>5. PICK T \in C : \A U \in C : U \subseteq T => U = T
  BY <1>4, Smallest
<1>6. PICK n \in B : n <= k /\ T = 0..n
  BY <1>3
<1>7. ASSUME NEW m \in B, m < n
      PROVE  FALSE
  <2>1. m \in Nat /\ n \in Nat /\ m <= k
    BY <1>1, <1>6, <1>7
  <2>2. (0..m) \in C /\ (0..m) \subseteq T
    BY <1>3, <1>6, <1>7, <2>1
  <2>3. n \in T /\ n \notin 0..m
    BY <1>6, <1>7, <2>1
  <2> QED
    BY <1>5, <2>2, <2>3
<1> QED
  BY <1>6, <1>7

\* g holds the powers of two up to the n-th.
IsPower(g, n) ==
    /\ g \in [0..n -> Nat]
    /\ g[0] = 1
    /\ \A k \in 1..n : g[k] = 2 * g[k - 1]

LEMMA PowersExist == \A n \in Nat : \E g : IsPower(g, n)
<1> DEFINE B == {n \in Nat : ~ \E g : IsPower(g, n)}
<1> SUFFICES ASSUME B # {} PROVE FALSE
  OBVIOUS
<1>1. PICK n \in B : \A m \in B : n <= m
  BY Least
<1>2. n \in Nat /\ ~ \E g : IsPower(g, n)
  OBVIOUS
<1>3. CASE n = 0
  <2>1. IsPower([k \in 0..0 |-> 1], 0)
    BY DEF IsPower
  <2> QED
    BY <1>2, <1>3, <2>1
<1>4. CASE n # 0
  <2>1. PICK m \in Nat : n = m + 1
    <3>1. n - 1 \in Nat /\ n = (n - 1) + 1
      BY <1>2, <1>4
    <3> QED
      BY <3>1
  <2>2. m \notin B
    BY <1>1, <2>1
  <2>3. PICK g : IsPower(g, m)
    BY <2>2
  <2>4. g \in [0..m -> Nat] /\ g[0] = 1 /\ \A k \in 1..m : g[k] = 2 * g[k - 1]
    BY <2>3 DEF IsPower
  <2>5. PICK x \in Nat : x = 2 * g[m]
    BY <2>1, <2>4
  <2>6. PICK h : h = [k \in 0..n |-> IF k = n THEN x ELSE g[k]]
    OBVIOUS
  <2>7. h \in [0..n -> Nat] /\ h[0] = 1
    BY <2>1, <2>4, <2>6
  <2>8. ASSUME NEW k \in 1..n PROVE h[k] = 2 * h[k - 1]
    <3>1. k - 1 \in 0..m /\ h[k - 1] = g[k - 1]
      BY <2>1, <2>6
    <3>2. CASE k = n
      BY <2>1, <2>5, <2>6, <3>1, <3>2
    <3>3. CASE k # n
      <4>1. k \in 1..m /\ h[k] = g[k]
        BY <2>1, <2>6, <3>3
      <4> QED
        BY <2>4, <3>1, <4>1
    <3> QED
      BY <3>2, <3>3
  <2> QED
    BY <1>2, <2>7, <2>8 DEF IsPower
<1> QED
  BY <1>3, <1>4

LEMMA PowersAgree ==
    ASSUME NEW m \in Nat, NEW n \in Nat, NEW g, NEW h, IsPower(g, m), IsPower(h, n)
    PROVE  \A k \in Nat : k <= m /\ k <= n => g[k] = h[k]
<1> DEFINE B == {k \in Nat : k <= m /\ k <= n /\ g[k] # h[k]}
<1> SUFFICES ASSUME B # {} PROVE FALSE
  OBVIOUS
<1>1. PICK k \in B : \A j \in B : k <= j
  BY Least
<1>2. k \in Nat /\ k <= m /\ k <= n /\ g[k] # h[k]
  OBVIOUS
<1>3. k # 0
  BY <1>2 DEF IsPower
<1>4. k - 1 \in Nat /\ k - 1 \notin B /\ k \in 1..m /\ k \in 1..n
  BY <1>1, <1>2, <1>3
<1>5. g[k - 1] = h[k - 1]
  BY <1>2, <1>4
<1> QED
  BY <1>2, <1>4, <1>5 DEF IsPower

\* What Power is: the recursion has a solution.
LEMMA PowerIs ==
    \A n \in Nat : Retries!Power[n] = IF n = 0 THEN 1 ELSE 2 * Retries!Power[n - 1]
<1>1. PICK p : p = [n \in Nat |-> (CHOOSE g : IsPower(g, n))[n]]
  OBVIOUS
<1>2. ASSUME NEW n \in Nat
      PROVE  p[n] = IF n = 0 THEN 1 ELSE 2 * p[n - 1]
  <2>1. PICK g : IsPower(g, n) /\ p[n] = g[n]
    <3>1. IsPower(CHOOSE g : IsPower(g, n), n)
      BY PowersExist
    <3> QED
      BY <1>1, <3>1
  <2>2. CASE n = 0
    BY <2>1, <2>2 DEF IsPower
  <2>3. CASE n # 0
    <3>1. PICK m \in Nat : m = n - 1
      BY <2>3
    <3>2. PICK h : IsPower(h, m) /\ p[m] = h[m]
      <4>1. IsPower(CHOOSE h : IsPower(h, m), m)
        BY PowersExist
      <4> QED
        BY <1>1, <4>1
    <3>3. g[m] = h[m]
      BY <2>1, <3>1, <3>2, PowersAgree
    <3>4. n \in 1..n /\ g[n] = 2 * g[n - 1]
      BY <2>1, <2>3 DEF IsPower
    <3> QED
      BY <2>1, <2>3, <3>1, <3>2, <3>3, <3>4
  <2> QED
    BY <2>2, <2>3
<1>3. p = [n \in Nat |-> IF n = 0 THEN 1 ELSE 2 * p[n - 1]]
  BY <1>1, <1>2
<1>4. PICK q : q = CHOOSE f : f = [n \in Nat |-> IF n = 0 THEN 1 ELSE 2 * f[n - 1]]
  OBVIOUS
<1>5. q = [n \in Nat |-> IF n = 0 THEN 1 ELSE 2 * q[n - 1]]
  BY <1>3, <1>4
<1>6. Retries!Power = q
  BY <1>4 DEF Retries!Power
<1> QED
  BY <1>5, <1>6

LEMMA Powers ==
    /\ \A n \in Nat : Retries!Power[n] \in Nat \ {0}
    /\ \A m, n \in Nat : m <= n => Retries!Power[m] <= Retries!Power[n]
<1> DEFINE P(n) == Retries!Power[n]
<1>1. ASSUME NEW n \in Nat, n # 0
      PROVE  n - 1 \in Nat /\ P(n) = 2 * P(n - 1)
  BY <1>1, PowerIs
<1>2. P(0) = 1
  BY PowerIs
<1> HIDE DEF P
<1>3. \A n \in Nat : P(n) \in Nat \ {0}
  <2> DEFINE B == {n \in Nat : P(n) \notin Nat \ {0}}
  <2> SUFFICES ASSUME B # {} PROVE FALSE
    OBVIOUS
  <2>1. PICK n \in B : \A m \in B : n <= m
    BY Least
  <2>2. n # 0
    BY <1>2
  <2>3. n - 1 \in Nat /\ P(n) = 2 * P(n - 1)
    BY <1>1, <2>2
  <2>4. P(n - 1) \in Nat \ {0}
    BY <2>1, <2>3
  <2> QED
    BY <2>3, <2>4
<1>4. ASSUME NEW m \in Nat
      PROVE  \A n \in Nat : m <= n => P(m) <= P(n)
  <2> DEFINE B == {n \in Nat : m <= n /\ ~ (P(m) <= P(n))}
  <2> SUFFICES ASSUME B # {} PROVE FALSE
    OBVIOUS
  <2>1. PICK n \in B : \A k \in B : n <= k
    BY Least
  <2>2. n # m
    BY <1>3
  <2>3. n # 0 /\ m <= n - 1
    BY <2>2
  <2>4. n - 1 \in Nat /\ P(n) = 2 * P(n - 1)
    BY <1>1, <2>3
  <2>5. P(m) <= P(n - 1)
    BY <2>1, <2>3, <2>4
  <2>6. P(m) \in Nat /\ P(n - 1) \in Nat
    BY <1>3, <2>4
  <2> QED
    BY <2>4, <2>5, <2>6
<1> QED
  BY <1>3, <1>4 DEF P

-----------------------------------------------------------------------------
(* The delays between the attempts of a webhook                            *)

\* The integers of a width, in terms of half their number.
LEMMA HalfRange ==
    \E h \in Nat \ {0} :
        /\ h = Retries!Power[Width - 1] /\ Retries!Power[Width] = h + h
        /\ Retries!MaxInt = h - 1 /\ Retries!Int64 = (-h)..(h - 1)
<1>1. Width \in Nat \ {0}
  BY MCPlatformAssumption DEF Retries!BackoffAssumption
<1>2. PICK h \in Nat \ {0} : h = Retries!Power[Width - 1]
  BY <1>1, Powers
<1>3. Retries!Power[Width] = h + h
  BY <1>1, <1>2, PowerIs
<1> QED
  BY <1>2, <1>3 DEF Retries!MaxInt, Retries!Int64

\* Wrapping leaves what fits alone, and what does not fit fits afterwards.
LEMMA Wraps ==
    \A x \in Int : /\ Retries!Wrap(x) \in Retries!Int64
                   /\ x \in Retries!Int64 => Retries!Wrap(x) = x
<1>1. PICK h \in Nat \ {0} :
         /\ h = Retries!Power[Width - 1] /\ Retries!Power[Width] = h + h
         /\ Retries!Int64 = (-h)..(h - 1)
  BY HalfRange
<1> SUFFICES ASSUME NEW x \in Int
             PROVE  /\ Retries!Wrap(x) \in Retries!Int64
                    /\ x \in Retries!Int64 => Retries!Wrap(x) = x
  OBVIOUS
<1>2. PICK m \in Nat \ {0} : m = h + h
  OBVIOUS
<1>3. Retries!Wrap(x) = ((x + h) % m) - h
  BY <1>1, <1>2 DEF Retries!Wrap
<1>4. \A y \in Int : y % m \in 0..(m - 1)
  OBVIOUS
<1>5. \A y \in 0..(m - 1) : y % m = y
  OBVIOUS
<1>6. (x + h) % m \in 0..(m - 1)
  BY <1>4
<1>7. x \in (-h)..(h - 1) => x + h \in 0..(m - 1)
  BY <1>2
<1>8. x \in (-h)..(h - 1) => (x + h) % m = x + h
  BY <1>5, <1>7
<1>9. PICK y \in 0..(m - 1) : y = (x + h) % m
  BY <1>6
<1>10. y - h \in (-h)..(h - 1) /\ (x \in (-h)..(h - 1) => y - h = x)
  BY <1>2, <1>8, <1>9
<1> QED
  BY <1>1, <1>3, <1>9, <1>10

LEMMA LeastOfTwo ==
    \A a, b \in Int : Retries!Min({a, b}) = IF a <= b THEN a ELSE b
<1> SUFFICES ASSUME NEW a \in Int, NEW b \in Int
             PROVE  Retries!Min({a, b}) = IF a <= b THEN a ELSE b
  OBVIOUS
<1>1. PICK x \in {a, b} : \A y \in {a, b} : x <= y
  OBVIOUS
<1>2. PICK z \in {a, b} : z = Retries!Min({a, b}) /\ \A y \in {a, b} : z <= y
  BY <1>1 DEF Retries!Min
<1> QED
  BY <1>2

\* A product of two positive numbers is no less than either.
LEMMA Products ==
    ASSUME NEW a \in Nat \ {0}, NEW b \in Nat \ {0}
    PROVE  a * b \in Nat /\ a <= a * b
<1>1. PICK c \in Nat : b = c + 1
  <2>1. b - 1 \in Nat /\ b = (b - 1) + 1
    OBVIOUS
  <2> QED
    BY <2>1
<1>2. a * c \in Nat /\ a * b = a * c + a
  BY <1>1
<1> QED
  BY <1>2

\* The shift of as much as fits the integer is the power of two, and so is the
\* product with it, as long as that fits.
LEMMA ShiftFits ==
    ASSUME NEW n \in Nat, NEW i \in Nat \ {0}, Retries!Power[n] * i \in Retries!Int64
    PROVE  Retries!Wrap(Retries!Shifted(n) * i) = Retries!Power[n] * i
<1>1. PICK h \in Nat \ {0} :
         /\ h = Retries!Power[Width - 1]
         /\ Retries!Int64 = (-h)..(h - 1)
  BY HalfRange
<1>2. PICK p \in Nat \ {0} : p = Retries!Power[n]
  BY Powers
<1>3. p * i \in Nat /\ p <= p * i
  BY <1>2, Products
<1>4. p \in (-h)..(h - 1)
  BY <1>1, <1>2, <1>3
<1>5. ~ (n >= Width)
  <2>1. Width \in Nat \ {0}
    BY MCPlatformAssumption DEF Retries!BackoffAssumption
  <2>2. n >= Width => Width - 1 \in Nat /\ Width - 1 <= n
    BY <2>1
  <2>3. n >= Width => h <= p
    BY <1>1, <1>2, <2>2, Powers
  <2> QED
    BY <1>4, <2>3
<1>6. Retries!Shifted(n) = p
  <2>1. Retries!Shifted(n) = Retries!Wrap(p)
    BY <1>2, <1>5 DEF Retries!Shifted
  <2>2. p \in Retries!Int64
    BY <1>1, <1>4
  <2> QED
    BY <2>1, <2>2, Wraps
<1> QED
  BY <1>2, <1>3, <1>6, Wraps

\* A delay that has been scheduled is the one the configuration gives the attempt.
BackoffInv ==
    part = "retries" =>
        /\ retry.initial \in Nat \ {0} /\ retry.initial \in Retries!Int64
        /\ retry.max \in Int /\ retry.max \in Retries!Int64
        /\ attempts \in Nat
        /\ status = "failed" => attempts # 0 /\ delay = Retries!NextBackoff(retry, attempts)

\* The delay an attempt waits for is a number of the width, and the doubled delay
\* where that is one.
LEMMA DelayIs ==
    ASSUME NEW i \in Nat \ {0}, NEW max \in Int, NEW n \in Nat \ {0},
           NEW r, r.initial = i, r.max = max
    PROVE  Retries!Power[n - 1] * i \in Retries!Int64 =>
               Retries!NextBackoff(r, n) = Retries!Min({Retries!Power[n - 1] * i, max})
<1>1. n - 1 \in Nat /\ ~ (n <= 0)
  OBVIOUS
<1> QED
  BY <1>1, ShiftFits DEF Retries!NextBackoff

LEMMA BackoffBegins == InitOthers => BackoffInv
<1> SUFFICES ASSUME Retries!Init PROVE BackoffInv
  BY DEF InitOthers, BackoffInv
<1>1. PICK h \in Nat \ {0} :
         Retries!MaxInt = h - 1 /\ Retries!Int64 = (-h)..(h - 1)
  BY HalfRange
<1>2. /\ Configured \subseteq 0..(h - 1) /\ DefaultInitial \in 1..(h - 1)
      /\ DefaultMax \in DefaultInitial..(h - 1)
  BY <1>1, MCPlatformAssumption DEF Retries!BackoffAssumption
<1>3. PICK i \in Configured, m \in Configured :
         /\ retry.initial = Retries!WithDefaults(i, m).initial
         /\ retry.max = Retries!WithDefaults(i, m).max
  BY DEF Retries!Init
<1>4. retry.initial = IF i = 0 THEN DefaultInitial ELSE i
  BY <1>3 DEF Retries!WithDefaults
<1>5. retry.max \in {DefaultInitial, DefaultMax, i, m}
  BY <1>3 DEF Retries!WithDefaults
<1>6. retry.initial \in 1..(h - 1)
  BY <1>2, <1>4
<1>7. retry.max \in 0..(h - 1)
  BY <1>2, <1>5
<1>8. attempts = 0 /\ status = "pending"
  BY DEF Retries!Init
<1> QED
  BY <1>1, <1>6, <1>7, <1>8 DEF BackoffInv

\* The delay of a failed attempt is the first delay doubled with every attempt, up
\* to the maximum, as long as the doubled delay fits the integer, whatever is
\* configured and however wide an integer is: DoublesUpToMax of nextBackoff.
THEOREM DelaysDouble == Spec => []DoublesUpToMax
<1>1. Init => BackoffInv
  BY BackoffBegins DEF Init
<1>2. BackoffInv
        /\ [Next]_<<spoolVars, limitVars, cacheVars, backoffVars, replayVars, part>>
        => BackoffInv'
  <2> SUFFICES ASSUME BackoffInv, part = "retries", part' = "retries",
                      Retries!Next \/ UNCHANGED backoffVars
               PROVE  BackoffInv'
    BY DEF Next, BackoffInv
  <2>1. CASE UNCHANGED backoffVars
    BY <2>1 DEF backoffVars, BackoffInv, Retries!NextBackoff
  <2>2. CASE Retries!Next
    <3>1. /\ retry' = retry /\ attempts' = attempts + 1
          /\ status' = "failed" => delay' = Retries!NextBackoff(retry, attempts')
      BY <2>2 DEF Retries!Next, Retries!Fail
    <3>2. attempts' \in Nat /\ attempts' # 0
      BY <3>1 DEF BackoffInv
    <3>3. status' = "failed" => delay' = Retries!NextBackoff(retry, attempts)'
      BY <3>1 DEF Retries!NextBackoff
    <3> QED
      BY <3>1, <3>2, <3>3 DEF BackoffInv
  <2> QED
    BY <2>1, <2>2
<1>3. BackoffInv => DoublesUpToMax
  <2> SUFFICES ASSUME BackoffInv, part = "retries", status = "failed",
                      Retries!Power[attempts - 1] * retry.initial \in Retries!Int64
               PROVE  delay = Retries!Min({Retries!Power[attempts - 1] * retry.initial, retry.max})
    BY DEF DoublesUpToMax, Retries!DoublesUpToMax
  <2>1. /\ retry.initial \in Nat \ {0} /\ retry.max \in Int /\ attempts \in Nat \ {0}
        /\ delay = Retries!NextBackoff(retry, attempts)
    BY DEF BackoffInv
  <2> QED
    BY <2>1, DelayIs
<1> QED
  BY <1>1, <1>2, <1>3, PTL DEF Spec

-----------------------------------------------------------------------------
(* The decisions of the rate limiter, each by itself                       *)

\* What the counter in memory admitted, and when the minute it counts began.
InMemory == {d \in served : d.allowed /\ d.by = "memory"}
Starts   == counter.reset - Minute

\* What it admitted in its present minute, before that, and in a minute from t.
Present    == {d \in InMemory : Starts <= d.at}
Earlier(t) == {d \in InMemory : t <= d.at /\ d.at < Starts}
Around(t)  == {d \in InMemory : t <= d.at /\ d.at < t + Minute}

\* Decisions are numbered and were made until now.
DecisionsKnown ==
    /\ IsFiniteSet(served)
    /\ served \subseteq [n : Nat, by : {"redis", "memory"}, at : Nat, allowed : BOOLEAN]
    /\ \A d \in served : d.n <= Cardinality(served) /\ d.at <= now

\* The counter in memory admits until its minute's limit is spent.  A minute from t
\* that has a moment in common with the present one reaches back into the one before
\* and no further: what was admitted then was admitted by one counter.
MemoryInv ==
    /\ counter.count \in Nat /\ counter.reset \in Int /\ counter.reset <= now + Minute
    /\ \A d \in InMemory : d.at <= counter.reset
    /\ Cardinality(Present) = Spent(counter.count)
    /\ \A t \in Nat : Starts < t + Minute => Cardinality(Earlier(t)) <= Limit
    /\ \A t \in Nat : Cardinality(Around(t)) <= Limit + Limit

\* What a counter in Redis has counted was admitted, or its answer was lost.
CountedIsPassed ==
    /\ faults \in Nat
    /\ \A k \in keys : Spent(k.count) <= Passed(k.window) + faults

\* The limit was used up before d.
Justified(d) ==
    Limit <= Cardinality(Limiter!Before(d)) + (IF d.by = "redis" THEN faults ELSE 0)

RefusalsJustified == \A d \in served : ~ d.allowed => Justified(d)

DecisionInv == RateInv /\ DecisionsKnown /\ MemoryInv /\ CountedIsPassed /\ RefusalsJustified

\* A subset of a finite set is finite and no larger.
LEMMA Smaller ==
    ASSUME NEW T, IsFiniteSet(T), NEW S, S \subseteq T
    PROVE  /\ IsFiniteSet(S) /\ Cardinality(S) \in Nat /\ Cardinality(T) \in Nat
           /\ Cardinality(S) <= Cardinality(T)
  BY FS_Subset, FS_CardinalityType

LEMMA DecisionFinite ==
    ASSUME DecisionsKnown
    PROVE  /\ IsFiniteSet(InMemory) /\ IsFiniteSet(Present)
           /\ \A t : IsFiniteSet(Earlier(t)) /\ IsFiniteSet(Around(t))
           /\ \A d : IsFiniteSet(Limiter!Before(d))
<1>1. IsFiniteSet(served)
  BY DEF DecisionsKnown
<1>2. InMemory \subseteq served /\ Present \subseteq served
  BY DEF InMemory, Present
<1>3. \A t : Earlier(t) \subseteq served /\ Around(t) \subseteq served
  BY DEF InMemory, Earlier, Around
<1>4. \A d : Limiter!Before(d) \subseteq served
  BY DEF Limiter!Before, Limiter!Admitted
<1> QED
  BY <1>1, <1>2, <1>3, <1>4, Smaller

LEMMA DecisionFiniteAfter ==
    ASSUME DecisionsKnown'
    PROVE  /\ IsFiniteSet(Present') /\ \A t : IsFiniteSet(Earlier(t)') /\ IsFiniteSet(Around(t)')
           /\ \A d : IsFiniteSet(Limiter!Before(d)')
<1>1. IsFiniteSet(served')
  BY DEF DecisionsKnown
<1>2. Present' \subseteq served' /\ \A t : Earlier(t)' \subseteq served' /\ Around(t)' \subseteq served'
  BY DEF InMemory, Present, Earlier, Around
<1>3. \A d : Limiter!Before(d)' \subseteq served'
  BY DEF Limiter!Before, Limiter!Admitted
<1> QED
  BY <1>1, <1>2, <1>3, Smaller

\* What was decided stays justified: only more is admitted and lost.
LEMMA JustifiedStays ==
    ASSUME DecisionsKnown', served \subseteq served', faults \in Nat, faults' \in Nat,
           faults <= faults', NEW d, Justified(d)
    PROVE  Justified(d)'
<1>1. PICK A, B : A = Limiter!Before(d) /\ B = Limiter!Before(d)'
  OBVIOUS
<1>2. A \subseteq B
  BY <1>1 DEF Limiter!Before, Limiter!Admitted, Limiter!Window
<1>3. B \subseteq served' /\ IsFiniteSet(served')
  BY <1>1 DEF Limiter!Before, Limiter!Admitted, DecisionsKnown
<1>4. PICK a \in Nat, b \in Nat : a = Cardinality(A) /\ b = Cardinality(B) /\ a <= b
  BY <1>2, <1>3, Smaller
<1>5. Limit <= a + (IF d.by = "redis" THEN faults ELSE 0)
  BY <1>1, <1>4 DEF Justified
<1>6. Limit <= b + (IF d.by = "redis" THEN faults' ELSE 0)
  BY <1>4, <1>5, RateConstants
<1> QED
  BY <1>1, <1>4, <1>6 DEF Justified

\* A decision is a new one, later than all others.
LEMMA Decides ==
    ASSUME DecisionsKnown, now \in Nat, UNCHANGED now,
           NEW by \in {"redis", "memory"}, NEW at \in Nat, at <= now,
           NEW allowed \in BOOLEAN, Limiter!Serve(by, at, allowed)
    PROVE  /\ DecisionsKnown'
           /\ \E d : /\ served' = served \cup {d} /\ d \notin served
                     /\ d.by = by /\ d.at = at /\ d.allowed = allowed
                     /\ d.n \in Nat /\ \A e \in served : e.n < d.n
<1>1. PICK n \in Nat : n = Cardinality(served) /\ n = Limiter!Cardinality(served)
  BY SameLimit, FS_CardinalityType DEF DecisionsKnown
<1>2. PICK d : /\ d = [n |-> n + 1, by |-> by, at |-> at, allowed |-> allowed]
               /\ served' = served \cup {d}
  BY <1>1 DEF Limiter!Serve
<1>3. /\ d \in [n : Nat, by : {"redis", "memory"}, at : Nat, allowed : BOOLEAN]
      /\ d.n = n + 1 /\ d.by = by /\ d.at = at /\ d.allowed = allowed
  BY <1>2
<1>4. \A e \in served : e.n \in Nat /\ e.n <= n /\ e.at <= now
  BY <1>1 DEF DecisionsKnown
<1>5. d \notin served
  BY <1>3, <1>4
<1>6. IsFiniteSet(served') /\ Cardinality(served') = n + 1
  BY <1>1, <1>2, <1>5, FS_AddElement DEF DecisionsKnown
<1>7. \A e \in served' : e.n <= n + 1 /\ e.at <= now
  BY <1>2, <1>3, <1>4
<1>8. DecisionsKnown'
  BY <1>2, <1>3, <1>6, <1>7 DEF DecisionsKnown
<1> QED
  BY <1>2, <1>3, <1>4, <1>5, <1>8

\* A step that decides nothing in memory.
LEMMA MemoryStands ==
    ASSUME MemoryInv, UNCHANGED counter, now \in Nat, now' \in Nat, now <= now',
           InMemory' = InMemory
    PROVE  MemoryInv'
<1>1. Starts' = Starts
  BY DEF Starts
<1>2. Present' = Present
  BY <1>1 DEF Present
<1>3. \A t : Earlier(t)' = Earlier(t) /\ Around(t)' = Around(t)
  BY <1>1 DEF Earlier, Around
<1>4. counter.reset <= now' + Minute
  BY RateConstants DEF MemoryInv
<1>5. \A t \in Nat : Starts' < t + Minute => Cardinality(Earlier(t)') <= Limit
  BY <1>1, <1>3 DEF MemoryInv
<1>6. \A t \in Nat : Cardinality(Around(t)') <= Limit + Limit
  BY <1>3 DEF MemoryInv
<1>7. Cardinality(Present') = Spent(counter'.count)
  BY <1>2 DEF MemoryInv
<1>8. Spent(counter.count)' = Spent(counter'.count)
  BY DEF Spent
<1> QED
  BY <1>4, <1>5, <1>6, <1>7, <1>8 DEF MemoryInv

\* What Redis admits is one more of its minute, and one of nothing else.
LEMMA PassesOne ==
    ASSUME DecisionsKnown, NEW d, d \notin served, served' = served \cup {d}
    PROVE  /\ d.allowed = TRUE /\ d.by = "redis" =>
                  Passed(Limiter!Window(d.at))' = Passed(Limiter!Window(d.at)) + 1
           /\ \A w : Passed(w)' \in Nat /\ Passed(w) \in Nat /\ Passed(w) <= Passed(w)'
<1>1. IsFiniteSet(served) /\ IsFiniteSet(served')
  BY FS_AddElement DEF DecisionsKnown
<1>2. \A w : /\ Limiter!RedisIn(w) \subseteq served /\ Limiter!RedisIn(w)' \subseteq served'
             /\ Limiter!RedisIn(w) \subseteq Limiter!RedisIn(w)'
  BY DEF Limiter!RedisIn, Limiter!Admitted, Limiter!Window
<1>3. \A w : /\ Passed(w) = Cardinality(Limiter!RedisIn(w))
             /\ Passed(w)' = Cardinality(Limiter!RedisIn(w)')
  BY SameLimit DEF Passed
<1>4. ASSUME NEW w
      PROVE  Passed(w)' \in Nat /\ Passed(w) \in Nat /\ Passed(w) <= Passed(w)'
  <2>1. PICK A, B : A = Limiter!RedisIn(w) /\ B = Limiter!RedisIn(w)'
    OBVIOUS
  <2>2. IsFiniteSet(B) /\ A \subseteq B
    BY <1>1, <1>2, <2>1, FS_Subset
  <2> QED
    BY <1>3, <2>1, <2>2, Smaller
<1>5. ASSUME d.allowed = TRUE, d.by = "redis"
      PROVE  Passed(Limiter!Window(d.at))' = Passed(Limiter!Window(d.at)) + 1
  <2>1. PICK w : w = Limiter!Window(d.at)
    OBVIOUS
  <2>2. PICK A, B : A = Limiter!RedisIn(w) /\ B = Limiter!RedisIn(w)'
    OBVIOUS
  <2>3. A = {x \in served : x.allowed /\ x.by = "redis" /\ Limiter!Window(x.at) = w}
    BY <2>2 DEF Limiter!RedisIn, Limiter!Admitted
  <2>4. B = {x \in served \cup {d} : x.allowed /\ x.by = "redis" /\ Limiter!Window(x.at) = w}
    BY <2>2 DEF Limiter!RedisIn, Limiter!Admitted
  <2>5. B = A \cup {d} /\ d \notin A
    BY <1>5, <2>1, <2>3, <2>4
  <2>6. IsFiniteSet(A)
    BY <1>1, <1>2, <2>2, FS_Subset
  <2>7. Cardinality(B) = Cardinality(A) + 1
    BY <2>5, <2>6, FS_AddElement
  <2>8. Passed(w)' = Cardinality(B) /\ Passed(w) = Cardinality(A)
    BY <1>3, <2>2
  <2> QED
    BY <2>1, <2>7, <2>8
<1> QED
  BY <1>4, <1>5

\* A decision that is not an admission of the counter in memory.
LEMMA NotInMemory ==
    ASSUME NEW d, served' = served \cup {d}, ~ (d.allowed /\ d.by = "memory")
    PROVE  InMemory' = InMemory
  BY DEF InMemory

\* The counter in memory decides: in its present minute, or in a new one that starts
\* now, when the present one has been over for at least a moment.
LEMMA MemoryServes ==
    ASSUME RateInv, DecisionsKnown, MemoryInv, NEW r \in Requests, Limiter!AllowInMemory(r)
    PROVE  /\ DecisionsKnown' /\ MemoryInv'
           /\ \E d : /\ served' = served \cup {d} /\ d.by = "memory"
                     /\ ~ d.allowed => Justified(d)'
<1>1. /\ now \in Nat /\ UNCHANGED now
      /\ counter.count \in Nat /\ counter.reset \in Int /\ counter.reset <= now + Minute
      /\ \A d \in InMemory : d.at <= counter.reset
      /\ Cardinality(Present) = Spent(counter.count)
  BY DEF RateInv, RateTypes, MemoryInv, Limiter!AllowInMemory
<1>2. /\ counter' = IF now > counter.reset THEN [count |-> 1, reset |-> now + Minute]
                    ELSE [counter EXCEPT !.count = @ + 1]
      /\ Limiter!Serve("memory", now, counter'.count <= Limit)
  BY DEF Limiter!AllowInMemory
<1>3. PICK c \in Nat, s \in Int :
         /\ counter'.count = c /\ counter'.reset = s
         /\ now > counter.reset => c = 1 /\ s = now + Minute
         /\ ~ (now > counter.reset) => c = counter.count + 1 /\ s = counter.reset
  <2>1. CASE now > counter.reset
    BY <1>1, <1>2, <2>1, RateConstants
  <2>2. CASE ~ (now > counter.reset)
    BY <1>1, <1>2, <2>2 DEF MemoryInv
  <2> QED
    BY <2>1, <2>2
<1>4. PICK a \in BOOLEAN : a <=> c <= Limit
  OBVIOUS
<1>5. Limiter!Serve("memory", now, a)
  BY <1>2, <1>3, <1>4
<1>6. DecisionsKnown'
  BY <1>1, <1>5, Decides
<1>7. PICK d : /\ served' = served \cup {d} /\ d \notin served
               /\ d.by = "memory" /\ d.at = now /\ d.allowed = a
               /\ d.n \in Nat /\ \A e \in served : e.n < d.n
  BY <1>1, <1>5, Decides
<1>8. \A e \in InMemory : e \in served /\ e.at \in Nat /\ e.at <= now /\ e.at <= counter.reset
  BY <1>1 DEF InMemory, DecisionsKnown
<1>9. InMemory' = IF a THEN InMemory \cup {d} ELSE InMemory
  BY <1>7 DEF InMemory
<1>10. d \notin InMemory
  BY <1>7 DEF InMemory
<1>11. /\ IsFiniteSet(Present) /\ IsFiniteSet(Present')
       /\ \A t : IsFiniteSet(Earlier(t)) /\ IsFiniteSet(Around(t))
       /\ \A t : IsFiniteSet(Earlier(t)') /\ IsFiniteSet(Around(t)')
  BY <1>6, DecisionFinite, DecisionFiniteAfter
<1>12. Starts' = s - Minute
  BY <1>3 DEF Starts
<1>13. ASSUME now > counter.reset
       PROVE  /\ Cardinality(Present') = Spent(c) /\ Starts' <= now /\ Starts' \in Int
              /\ \A t \in Nat : Starts' < t + Minute => Cardinality(Earlier(t)') <= Limit
              /\ s <= now + Minute
  <2>1. c = 1 /\ Starts' = now /\ a = TRUE
    BY <1>1, <1>3, <1>4, <1>12, <1>13, RateConstants
  <2>2. Present' = {d}
    BY <1>1, <1>7, <1>8, <1>9, <1>13, <2>1 DEF Present
  <2>3. Cardinality(Present') = Spent(c)
    BY <2>1, <2>2, FS_Singleton, RateConstants DEF Spent
  <2>4. ASSUME NEW t \in Nat, now < t + Minute
        PROVE  Cardinality(Earlier(t)') <= Limit
    <3>1. Earlier(t)' \subseteq Present
      <4>1. \A e \in Earlier(t)' : e \in InMemory \cup {d} /\ t <= e.at /\ e.at < now
        BY <1>9, <2>1 DEF Earlier
      <4>2. \A e \in Earlier(t)' : e \in InMemory /\ t <= e.at
        BY <1>1, <1>7, <4>1
      <4>3. counter.reset - Minute <= t
        BY <1>1, <1>13, <2>4, RateConstants
      <4>4. \A e \in Earlier(t)' : counter.reset - Minute <= e.at
        BY <1>1, <1>8, <4>2, <4>3, RateConstants
      <4> QED
        BY <4>2, <4>4 DEF Present, Starts
    <3>2. Cardinality(Earlier(t)') <= Cardinality(Present)
          /\ Cardinality(Earlier(t)') \in Nat /\ Cardinality(Present) \in Nat
      BY <1>11, <3>1, Smaller
    <3>3. Cardinality(Present) <= Limit
      BY <1>1, Spending
    <3> QED
      BY <3>2, <3>3, RateConstants
  <2> QED
    BY <1>1, <1>3, <1>13, <2>1, <2>3, <2>4, RateConstants
<1>14. ASSUME ~ (now > counter.reset)
       PROVE  /\ Cardinality(Present') = Spent(c) /\ Starts' <= now /\ Starts' \in Int
              /\ \A t \in Nat : Starts' < t + Minute => Cardinality(Earlier(t)') <= Limit
              /\ s <= now + Minute
  <2>1. c = counter.count + 1 /\ s = counter.reset /\ Starts' = Starts /\ Starts <= now
    BY <1>1, <1>3, <1>12, <1>14, RateConstants DEF Starts
  <2>2. Present' = IF a THEN Present \cup {d} ELSE Present
    BY <1>7, <1>9, <2>1 DEF Present
  <2>3. d \notin Present
    BY <1>10 DEF Present
  <2>4. Cardinality(Present') = IF a THEN Cardinality(Present) + 1 ELSE Cardinality(Present)
    BY <1>11, <2>2, <2>3, FS_AddElement
  <2>5. Cardinality(Present') = Spent(c)
    BY <1>1, <1>4, <2>1, <2>4, RateConstants DEF Spent
  <2>6. Starts \in Int
    BY <1>1, RateConstants DEF Starts
  <2>7. \A t : Earlier(t)' = Earlier(t)
    BY <1>1, <1>7, <1>9, <2>1, <2>6 DEF Earlier
  <2>8. \A t \in Nat : Starts' < t + Minute => Cardinality(Earlier(t)') <= Limit
    BY <2>1, <2>7 DEF MemoryInv
  <2> QED
    BY <1>1, <2>1, <2>5, <2>6, <2>8
<1>15. /\ Cardinality(Present') = Spent(c) /\ Starts' <= now /\ Starts' \in Int
       /\ \A t \in Nat : Starts' < t + Minute => Cardinality(Earlier(t)') <= Limit
       /\ s <= now + Minute
  BY <1>13, <1>14
<1>16. ASSUME NEW t \in Nat PROVE Cardinality(Around(t)') <= Limit + Limit
  <2>1. CASE Starts' < t + Minute
    <3>1. Around(t)' \subseteq Earlier(t)' \cup Present'
      <4>1. \A e \in InMemory' : e.at \in Nat
        BY <1>1, <1>7, <1>8, <1>9
      <4> QED
        BY <1>15, <4>1 DEF Around, Earlier, Present
    <3>2. PICK A, B, C : A = Earlier(t)' /\ B = Present' /\ C = Around(t)'
      OBVIOUS
    <3>3. IsFiniteSet(A) /\ IsFiniteSet(B) /\ C \subseteq A \cup B
      BY <1>11, <3>1, <3>2
    <3>4. /\ IsFiniteSet(A \cup B)
          /\ Cardinality(A \cup B) <= Cardinality(A) + Cardinality(B)
      <4>1. Cardinality(A \cup B) = Cardinality(A) + Cardinality(B) - Cardinality(A \cap B)
        BY <3>3, FS_Union
      <4>2. Cardinality(A \cap B) \in Nat /\ Cardinality(A) \in Nat /\ Cardinality(B) \in Nat
        BY <3>3, Smaller
      <4> QED
        BY <3>3, <4>1, <4>2, FS_Union
    <3>5. PICK p \in Nat, q \in Nat, u \in Nat, v \in Nat :
             /\ p = Cardinality(A) /\ q = Cardinality(B) /\ u = Cardinality(A \cup B)
             /\ v = Cardinality(C)
      BY <3>3, <3>4, Smaller
    <3>6. v <= u
      BY <3>3, <3>4, <3>5, Smaller
    <3>7. u <= p + q
      BY <3>4, <3>5
    <3>8. p <= Limit /\ q <= Limit
      BY <1>15, <2>1, <3>2, <3>5, Spending
    <3> QED
      BY <3>2, <3>5, <3>6, <3>7, <3>8, RateConstants
  <2>2. CASE ~ (Starts' < t + Minute)
    <3>1. t + Minute <= now
      BY <1>1, <1>15, <2>2, RateConstants
    <3>2. Around(t)' = Around(t)
      BY <1>1, <1>7, <1>9, <3>1, RateConstants DEF Around
    <3> QED
      BY <3>2 DEF MemoryInv
  <2> QED
    BY <2>1, <2>2
<1>17. \A e \in InMemory' : e.at <= s
  <2>1. now <= s /\ counter.reset <= s
    BY <1>1, <1>3, RateConstants
  <2> QED
    BY <1>1, <1>7, <1>8, <1>9, <2>1
<1>18. MemoryInv'
  <2>1. Spent(counter.count)' = Spent(c)
    BY <1>3 DEF Spent
  <2> QED
    BY <1>1, <1>3, <1>15, <1>16, <1>17, <2>1 DEF MemoryInv
<1>19. ASSUME ~ d.allowed PROVE Justified(d)'
  <2>1. ~ (now > counter.reset)
    BY <1>3, <1>4, <1>7, <1>19, RateConstants
  <2>2. counter.count >= Limit
    BY <1>1, <1>3, <1>4, <1>7, <1>19, <2>1, RateConstants
  <2>3. Cardinality(Present) = Limit
    BY <1>1, <2>2, RateConstants DEF Spent
  <2>4. Present \subseteq Limiter!Before(d)'
    <3>1. \A e \in Present : /\ e \in served' /\ e.allowed /\ e.by = "memory" /\ e.n < d.n
                             /\ e.at \in Nat /\ now - Minute <= e.at /\ e.at <= now
      <4>1. now - Minute <= Starts
        BY <1>1, <2>1, RateConstants DEF Starts
      <4>2. \A e \in Present : e \in InMemory /\ Starts <= e.at
        BY DEF Present
      <4>3. \A e \in Present : now - Minute <= e.at
        BY <1>1, <1>8, <4>1, <4>2, RateConstants DEF Starts
      <4> QED
        BY <1>7, <1>8, <4>2, <4>3 DEF InMemory
    <3>2. \A e \in Present : e.at \in (d.at - Minute)..d.at
      BY <1>1, <1>7, <3>1, RateConstants
    <3> QED
      BY <1>7, <3>1, <3>2 DEF Limiter!Before, Limiter!Admitted
  <2>5. IsFiniteSet(Limiter!Before(d)')
    BY <1>6, DecisionFiniteAfter
  <2>6. PICK A : A = Limiter!Before(d)'
    OBVIOUS
  <2>7. Cardinality(Present) <= Cardinality(A)
    BY <2>4, <2>5, <2>6, Smaller
  <2>8. Justified(d)' <=> Limit <= Cardinality(A)
    <3>1. PICK n \in Nat : n = Cardinality(A)
      BY <2>5, <2>6, Smaller
    <3>2. Justified(d)' <=> Limit <= n + 0
      BY <1>7, <2>6, <3>1 DEF Justified
    <3> QED
      BY <3>1, <3>2, RateConstants
  <2> QED
    BY <2>3, <2>7, <2>8
<1> QED
  BY <1>6, <1>7, <1>18, <1>19

\* What changes no counter's count and loses no minute's admissions.
LEMMA CountsStand ==
    ASSUME RateInv, CountedIsPassed, faults' \in Nat, faults <= faults',
           \A w : Passed(w) \in Nat /\ Passed(w)' \in Nat /\ Passed(w) <= Passed(w)',
           \A k \in keys' : \E l \in keys : k.window = l.window /\ k.count = l.count
    PROVE  CountedIsPassed'
<1>1. ASSUME NEW k \in keys' PROVE Spent(k.count)' <= Passed(k.window)' + faults'
  <2>1. PICK l \in keys : k.window = l.window /\ k.count = l.count
    OBVIOUS
  <2>2. PICK c \in Nat : c = l.count
    BY DEF RateInv, RateTypes
  <2>3. PICK p \in Nat, q \in Nat : p = Passed(l.window) /\ q = Passed(l.window)' /\ p <= q
    OBVIOUS
  <2>4. PICK x \in Nat : x = Spent(c) /\ Spent(c)' = x
    BY Spending DEF Spent
  <2>5. x <= p + faults
    BY <2>2, <2>3, <2>4 DEF CountedIsPassed
  <2>6. x <= q + faults'
    BY <2>3, <2>5 DEF CountedIsPassed
  <2>7. Spent(k.count)' = x /\ Passed(k.window)' = q
    BY <2>1, <2>2, <2>3, <2>4
  <2> QED
    BY <2>6, <2>7
<1> QED
  BY <1>1 DEF CountedIsPassed

\* A count goes up by one: with an admission, above the limit, or with a fault.
LEMMA CountsGrow ==
    ASSUME RateInv, CountedIsPassed, NEW w, keys' = Limiter!Incremented(w),
           faults' \in Nat, faults <= faults',
           \A v : Passed(v) \in Nat /\ Passed(v)' \in Nat /\ Passed(v) <= Passed(v)',
           \/ Passed(w)' = Passed(w) + 1
           \/ ~ (Limiter!Count(w) + 1 <= Limit)
           \/ faults' = faults + 1
    PROVE  CountedIsPassed' /\ Limiter!Count(w) \in Nat /\ Spent(Limiter!Count(w)) <= Passed(w) + faults
<1>1. PICK c \in Nat : c = Limiter!Count(w) /\ Spent(c) <= Passed(w) + faults
  <2>1. CASE \E k \in keys : k.window = w
    <3>1. PICK k \in keys : k = CHOOSE l \in keys : l.window = w
      BY <2>1
    <3>2. k.window = w /\ Limiter!Count(w) = k.count
      BY <2>1, <3>1 DEF Limiter!Count
    <3>3. k.count \in Nat
      BY DEF RateInv, RateTypes
    <3> QED
      BY <3>2, <3>3 DEF CountedIsPassed
  <2>2. CASE ~ \E k \in keys : k.window = w
    <3>1. Limiter!Count(w) = 0 /\ Spent(0) = 0
      BY <2>2, RateConstants DEF Limiter!Count, Spent
    <3>2. PICK p \in Nat : p = Passed(w)
      OBVIOUS
    <3>3. 0 <= p + faults
      BY DEF CountedIsPassed
    <3> QED
      BY <3>1, <3>2, <3>3
  <2> QED
    BY <2>1, <2>2
<1>2. \A k \in keys' : \/ k \in keys
                       \/ k.window = w /\ k.count = c + 1
  BY <1>1 DEF Limiter!Incremented
<1>3. PICK p \in Nat, q \in Nat : p = Passed(w) /\ q = Passed(w)' /\ p <= q
  OBVIOUS
<1>4. PICK x \in Nat, y \in Nat :
         /\ x = Spent(c) /\ y = Spent(c + 1) /\ x <= p + faults
         /\ y <= x + 1 /\ (~ (c + 1 <= Limit) => y = x)
  BY <1>1, <1>3, RateConstants DEF Spent
<1>5. y <= q + faults'
  <2>1. q = p + 1 \/ y = x \/ faults' = faults + 1
    BY <1>1, <1>3, <1>4
  <2> QED
    BY <1>3, <1>4, <2>1 DEF CountedIsPassed
<1>6. ASSUME NEW k \in keys' PROVE Spent(k.count)' <= Passed(k.window)' + faults'
  <2>1. CASE k.window = w /\ k.count = c + 1
    <3>1. Spent(k.count)' = y /\ Passed(k.window)' = q
      BY <1>3, <1>4, <2>1 DEF Spent
    <3> QED
      BY <1>5, <3>1
  <2>2. CASE k \in keys
    <3>1. PICK a \in Nat, b \in Nat : a = Passed(k.window) /\ b = Passed(k.window)' /\ a <= b
      OBVIOUS
    <3>2. k.count \in Nat
      BY <2>2 DEF RateInv, RateTypes
    <3>3. PICK z \in Nat : z = Spent(k.count) /\ Spent(k.count)' = z
      BY <3>2, Spending DEF Spent
    <3>4. z <= a + faults
      BY <2>2, <3>1, <3>3 DEF CountedIsPassed
    <3>5. z <= b + faults'
      BY <3>1, <3>4 DEF CountedIsPassed
    <3> QED
      BY <3>1, <3>3, <3>5
  <2> QED
    BY <1>2, <2>1, <2>2
<1> QED
  BY <1>1, <1>6 DEF CountedIsPassed

\* A step that decides nothing.
LEMMA NothingDecided ==
    ASSUME DecisionInv, RateInv', UNCHANGED <<served, counter>>, now <= now',
           faults' \in Nat, faults <= faults', CountedIsPassed'
    PROVE  DecisionInv'
<1>1. now \in Nat /\ now' \in Nat
  BY DEF DecisionInv, RateInv, RateTypes
<1>2. DecisionsKnown'
  <2>1. \A d \in served : d.at \in Nat /\ d.at <= now
    BY DEF DecisionInv, DecisionsKnown
  <2>2. \A d \in served : d.at <= now'
    BY <1>1, <2>1
  <2> QED
    BY <2>2 DEF DecisionInv, DecisionsKnown
<1>3. MemoryInv'
  BY <1>1, MemoryStands DEF DecisionInv, InMemory
<1>4. RefusalsJustified'
  BY <1>2, JustifiedStays DEF DecisionInv, RefusalsJustified, CountedIsPassed
<1> QED
  BY <1>2, <1>3, <1>4 DEF DecisionInv

LEMMA PassedStands ==
    ASSUME RateInv, UNCHANGED served
    PROVE  \A w : Passed(w) \in Nat /\ Passed(w)' \in Nat /\ Passed(w) <= Passed(w)'
<1>1. \A w : Passed(w)' = Passed(w)
  BY DEF Passed, Limiter!RedisIn, Limiter!Admitted
<1>2. \A w : Passed(w) \in Nat
  BY PassedCounts DEF RateInv, RateTypes
<1> QED
  BY <1>1, <1>2

\* Redis counts a request, answers and decides.
LEMMA RedisServes ==
    ASSUME DecisionInv, RateInv', NEW r \in Requests, Limiter!Incr(r)
    PROVE  DecisionInv'
<1>1. PICK t, w : t = req[r].since /\ w = Limiter!Window(t)
  OBVIOUS
<1>2. /\ UNCHANGED <<now, counter, faults>> /\ faults \in Nat /\ now \in Nat
      /\ keys' = Limiter!Incremented(w)
      /\ Limiter!Serve("redis", t, Limiter!Count(w) + 1 <= Limit)
  BY <1>1 DEF Limiter!Incr, DecisionInv, CountedIsPassed, RateInv, RateTypes
<1>3. t \in Nat /\ t <= now
  BY <1>1 DEF Limiter!Incr, DecisionInv, RateInv, RateTypes, InTime, Limiter!Idle, Limiter!Req
<1>4. PICK a \in BOOLEAN : a <=> Limiter!Count(w) + 1 <= Limit
  OBVIOUS
<1>5. Limiter!Serve("redis", t, a)
  BY <1>2, <1>4
<1>6. DecisionsKnown'
  BY <1>2, <1>3, <1>5, Decides DEF DecisionInv
<1>7. PICK d : /\ served' = served \cup {d} /\ d \notin served
               /\ d.by = "redis" /\ d.at = t /\ d.allowed = a
               /\ d.n \in Nat /\ \A e \in served : e.n < d.n
  BY <1>2, <1>3, <1>5, Decides DEF DecisionInv
<1>8. MemoryInv'
  <2>1. InMemory' = InMemory
    BY <1>7, NotInMemory
  <2> QED
    BY <1>2, <2>1, MemoryStands DEF DecisionInv
<1>9. /\ \A v : Passed(v)' \in Nat /\ Passed(v) \in Nat /\ Passed(v) <= Passed(v)'
      /\ a = TRUE => Passed(w)' = Passed(w) + 1
  BY <1>1, <1>7, PassesOne DEF DecisionInv
<1>10. /\ CountedIsPassed' /\ Limiter!Count(w) \in Nat
       /\ Spent(Limiter!Count(w)) <= Passed(w) + faults
  BY <1>2, <1>4, <1>9, CountsGrow DEF DecisionInv
<1>11. ASSUME ~ d.allowed PROVE Justified(d)'
  <2>1. Spent(Limiter!Count(w)) = Limit
    BY <1>4, <1>7, <1>10, <1>11, RateConstants DEF Spent
  <2>2. Limiter!RedisIn(w) \subseteq Limiter!Before(d)'
    BY <1>1, <1>7 DEF Limiter!RedisIn, Limiter!Before, Limiter!Admitted, Limiter!Window
  <2>3. PICK A, B : A = Limiter!RedisIn(w) /\ B = Limiter!Before(d)'
    OBVIOUS
  <2>4. IsFiniteSet(B) /\ A \subseteq B
    BY <1>6, <2>2, <2>3, DecisionFiniteAfter
  <2>5. PICK p \in Nat, q \in Nat : p = Cardinality(A) /\ q = Cardinality(B) /\ p <= q
    BY <2>4, Smaller
  <2>6. Passed(w) = p
    BY <2>3, <2>5, SameLimit DEF Passed
  <2>7. Limit <= q + faults
    BY <1>2, <1>10, <2>1, <2>5, <2>6, RateConstants
  <2> QED
    BY <1>2, <1>7, <2>3, <2>5, <2>7 DEF Justified
<1>12. RefusalsJustified'
  <2>1. ASSUME NEW e \in served, ~ e.allowed PROVE Justified(e)'
    BY <1>2, <1>6, <1>7, <2>1, JustifiedStays DEF DecisionInv, RefusalsJustified
  <2> QED
    BY <1>7, <1>11, <2>1 DEF RefusalsJustified
<1> QED
  BY <1>6, <1>8, <1>10, <1>12 DEF DecisionInv

LEMMA DecisionNext ==
    ASSUME DecisionInv, RateInv', Limiter!Next
    PROVE  DecisionInv'
<1>1. /\ faults \in Nat /\ now \in Nat /\ now <= now /\ faults <= faults
      /\ faults <= faults + 1 /\ faults + 1 \in Nat
      /\ RateInv /\ CountedIsPassed
  BY DEF DecisionInv, CountedIsPassed, RateInv, RateTypes
<1>2. ASSUME UNCHANGED <<served, counter>>, now <= now', faults' \in Nat, faults <= faults',
             \A k \in keys' : \E l \in keys : k.window = l.window /\ k.count = l.count
      PROVE  DecisionInv'
  BY <1>1, <1>2, PassedStands, CountsStand, NothingDecided
<1>3. ASSUME NEW r \in Requests, Limiter!Arrive(r) PROVE DecisionInv'
  BY <1>1, <1>2, <1>3 DEF Limiter!Arrive
<1>4. ASSUME NEW r \in Requests, Limiter!IncrFails(r) PROVE DecisionInv'
  <2>1. /\ UNCHANGED <<served, counter, now>> /\ faults' = faults + 1
        /\ keys' \in {keys, Limiter!Incremented(Limiter!Window(req[r].since))}
    BY <1>4 DEF Limiter!IncrFails
  <2>2. CASE keys' = keys
    BY <1>1, <1>2, <2>1, <2>2
  <2>3. CASE keys' = Limiter!Incremented(Limiter!Window(req[r].since))
    <3>1. \A w : Passed(w) \in Nat /\ Passed(w)' \in Nat /\ Passed(w) <= Passed(w)'
      BY <1>1, <2>1, PassedStands
    <3>2. CountedIsPassed'
      BY <1>1, <2>1, <2>3, <3>1, CountsGrow
    <3> QED
      BY <1>1, <2>1, <3>2, NothingDecided
  <2> QED
    BY <2>1, <2>2, <2>3
<1>5. ASSUME NEW r \in Requests, Limiter!Expire(r) PROVE DecisionInv'
  <2>1. /\ UNCHANGED <<served, counter, now>> /\ faults' \in {faults, faults + 1}
        /\ \/ keys' = keys
           \/ keys' = {IF k.window = Limiter!Window(req[r].since)
                       THEN [k EXCEPT !.expires = now + Minute] ELSE k : k \in keys}
    BY <1>5 DEF Limiter!Expire
  <2>2. \A k \in keys : k \in [window : Nat, count : Nat \ {0}, expires : Nat]
    BY <1>1 DEF RateInv, RateTypes
  <2>3. \A k \in keys' : \E l \in keys : k.window = l.window /\ k.count = l.count
    BY <2>1, <2>2
  <2> QED
    BY <1>1, <1>2, <2>1, <2>3
<1>6. ASSUME NEW r \in Requests, Limiter!AllowInMemory(r) PROVE DecisionInv'
  <2>1. DecisionsKnown' /\ MemoryInv'
    BY <1>6, MemoryServes DEF DecisionInv
  <2>2. PICK d : served' = served \cup {d} /\ d.by = "memory" /\ (~ d.allowed => Justified(d)')
    BY <1>6, MemoryServes DEF DecisionInv
  <2>3. UNCHANGED <<keys, faults>>
    BY <1>6 DEF Limiter!AllowInMemory
  <2>4. \A w : Passed(w)' = Passed(w)
    BY <2>2 DEF Passed, Limiter!RedisIn, Limiter!Admitted
  <2>5. \A w : Passed(w) \in Nat
    BY <1>1, PassedCounts DEF RateInv, RateTypes
  <2>6. CountedIsPassed'
    BY <1>1, <2>3, <2>4, <2>5, CountsStand
  <2>7. RefusalsJustified'
    <3>1. ASSUME NEW e \in served, ~ e.allowed PROVE Justified(e)'
      BY <1>1, <2>1, <2>2, <2>3, <3>1, JustifiedStays DEF DecisionInv, RefusalsJustified
    <3> QED
      BY <2>2, <3>1 DEF RefusalsJustified
  <2> QED
    BY <2>1, <2>6, <2>7 DEF DecisionInv
<1>7. CASE Limiter!RedisRestarts
  BY <1>1, <1>2, <1>7 DEF Limiter!RedisRestarts
<1>8. CASE Limiter!Tick
  <2>1. now' = now + 1 /\ keys' \subseteq keys /\ UNCHANGED <<served, counter, faults>>
    BY <1>8 DEF Limiter!Tick
  <2> QED
    BY <1>1, <1>2, <2>1
<1> QED
  BY <1>3, <1>4, <1>5, <1>6, <1>7, <1>8, RedisServes DEF Limiter!Next

LEMMA DecisionBegins == Limiter!Init => DecisionInv
<1> SUFFICES ASSUME Limiter!Init PROVE DecisionInv
  OBVIOUS
<1>1. RateInv
  BY LimiterBegins
<1>2. /\ served = {} /\ keys = {} /\ faults = 0 /\ now = 0
      /\ counter = [count |-> 0, reset |-> -1]
  BY DEF Limiter!Init
<1>3. DecisionsKnown
  BY <1>2, FS_EmptySet DEF DecisionsKnown
<1>4. Present = {} /\ \A t : Earlier(t) = {} /\ Around(t) = {}
  BY <1>2 DEF InMemory, Present, Earlier, Around
<1>5. MemoryInv
  <2>1. Cardinality({}) = 0 /\ Spent(0) = 0
    BY FS_EmptySet, RateConstants DEF Spent
  <2>2. \A d : d \notin InMemory
    BY <1>2 DEF InMemory
  <2>3. counter.count = 0 /\ counter.reset = -1
    BY <1>2
  <2>4. 0 <= Limit /\ 0 <= Limit + Limit /\ -1 <= now + Minute
    BY <1>2, RateConstants
  <2>5. \A t \in Nat : Cardinality(Earlier(t)) = 0 /\ Cardinality(Around(t)) = 0
    BY <1>4, <2>1
  <2>6. Cardinality(Present) = Spent(counter.count)
    BY <1>4, <2>1, <2>3
  <2>7. counter.count \in Nat /\ counter.reset \in Int
    BY <2>3
  <2> QED
    BY <2>2, <2>3, <2>4, <2>5, <2>6, <2>7 DEF MemoryInv
<1>6. CountedIsPassed /\ RefusalsJustified
  BY <1>2 DEF CountedIsPassed, RefusalsJustified
<1> QED
  BY <1>1, <1>3, <1>5, <1>6 DEF DecisionInv

LEMMA DecisionGoesOn == DecisionInv /\ [Limiter!Next]_limitVars => DecisionInv'
<1>1. ASSUME DecisionInv, Limiter!Next PROVE DecisionInv'
  <2>1. RateInv'
    BY <1>1, RateNext DEF DecisionInv
  <2> QED
    BY <1>1, <2>1, DecisionNext
<1>2. ASSUME DecisionInv, UNCHANGED limitVars PROVE DecisionInv'
  <2>1. UNCHANGED <<now, keys, counter, req, served, faults, restarts>>
    BY <1>2 DEF limitVars
  <2>2. /\ faults \in Nat /\ now \in Nat /\ now <= now' /\ faults <= faults' /\ faults' \in Nat
        /\ RateInv /\ CountedIsPassed
    BY <1>2, <2>1 DEF DecisionInv, CountedIsPassed, RateInv, RateTypes
  <2>3. \A w : Passed(w) \in Nat /\ Passed(w)' \in Nat /\ Passed(w) <= Passed(w)'
    BY <2>1, <2>2, PassedStands
  <2>4. \A w : Passed(w)' = Passed(w)
    BY <2>1 DEF Passed, Limiter!RedisIn, Limiter!Admitted
  <2>5. Limiter!IsFiniteSet(served') /\ req' \in [Requests -> Limiter!Req] /\ InTime'
    BY <2>1, <2>2 DEF RateInv, RateTypes, InTime, Limiter!Req, Limiter!Idle
  <2>6. RateInv'
    BY <2>1, <2>2, <2>4, <2>5, RateStands
  <2>7. CountedIsPassed'
    BY <2>1, <2>2, <2>3, CountsStand
  <2> QED
    BY <1>2, <2>1, <2>2, <2>6, <2>7, NothingDecided
<1> QED
  BY <1>1, <1>2

\* The counter in memory admits at most twice the limit in any minute, wherever it
\* begins, whatever share of the requests it sees: MemoryLimit of
\* RateLimitStore.Allow, for any limit, minute, clock and number of requests.
THEOREM MemoryHoldsTheLimit == Limiter!Spec => []Limiter!MemoryLimit
<1>1. DecisionInv => Limiter!MemoryLimit
  <2> SUFFICES ASSUME DecisionInv, NEW t \in 0..MaxTime
               PROVE  Limiter!Cardinality({d \in Limiter!Within(Limiter!Admitted, t) :
                                             d.by = "memory"}) <= 2 * Limit
    BY DEF Limiter!MemoryLimit
  <2>1. t \in Nat
    BY RateConstants
  <2>2. \A d \in InMemory : d.at \in Nat
    BY DEF DecisionInv, DecisionsKnown, InMemory
  <2>3. \A d \in InMemory : d.at \in t..(t + Minute - 1) <=> t <= d.at /\ d.at < t + Minute
    BY <2>1, <2>2, RateConstants
  <2>4. PICK A : A = {d \in Limiter!Within(Limiter!Admitted, t) : d.by = "memory"}
    OBVIOUS
  <2>5. A = Around(t)
    BY <2>3, <2>4 DEF Limiter!Within, Limiter!Admitted, Around, InMemory
  <2>6. Cardinality(A) <= Limit + Limit
    BY <2>1, <2>5 DEF DecisionInv, MemoryInv
  <2> QED
    BY <2>4, <2>6, SameLimit, RateConstants
<1> QED
  BY <1>1, DecisionBegins, DecisionGoesOn, PTL DEF Limiter!Spec, Limiter!vars, limitVars

\* Nobody is refused before the limit of the minute is used up, except that every
\* answer that Redis loses after counting costs one admission: RefusedIsOver, for any
\* limit, minute, number of requests, restarts and faults.
THEOREM RefusalsAreDue == Limiter!Spec => []Limiter!RefusedIsOver
<1>1. DecisionInv => Limiter!RefusedIsOver
  <2> SUFFICES ASSUME DecisionInv, NEW d \in served, ~ d.allowed
               PROVE  Limiter!Cardinality(Limiter!Before(d))
                        >= IF d.by = "redis" THEN Limit - faults ELSE Limit
    BY DEF Limiter!RefusedIsOver
  <2>1. Justified(d)
    BY DEF DecisionInv, RefusalsJustified
  <2>2. PICK A : A = Limiter!Before(d)
    OBVIOUS
  <2>3. IsFiniteSet(A)
    BY <2>2, DecisionFinite DEF DecisionInv
  <2>4. PICK n \in Nat : n = Cardinality(A)
    BY <2>3, FS_CardinalityType
  <2>5. Limit <= n + (IF d.by = "redis" THEN faults ELSE 0)
    BY <2>1, <2>2, <2>4 DEF Justified
  <2>6. n >= IF d.by = "redis" THEN Limit - faults ELSE Limit
    BY <2>5, RateConstants DEF DecisionInv, CountedIsPassed
  <2> QED
    BY <2>2, <2>4, <2>6, SameLimit
<1> QED
  BY <1>1, DecisionBegins, DecisionGoesOn, PTL DEF Limiter!Spec, Limiter!vars, limitVars

=============================================================================
