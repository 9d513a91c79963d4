-------------------------------- MODULE Cache -------------------------------
(***************************************************************************)
(* The two-level cache and the reports of the admin service that are read  *)
(* through getOrSet.  A value is its age: how long ago the first query of  *)
(* its report ran.  Tick advances ages and lifetimes, so that no clock has *)
(* to be bounded.                                                          *)
(***************************************************************************)
EXTENDS Requests

CONSTANTS
  Keys,       \* admin:dashboard:stats, admin:revenue:..., admin:top-products:...
  Ttl,        \* [Keys -> Nat]: options.ttl, in ticks
  Delay       \* bound: ticks that a Redis command or a report's queries take

ASSUME CacheAssumption ==
  /\ None \notin Keys
  /\ Ttl \in [Keys -> Nat \ {0}]
  /\ Delay \in Nat

VARIABLES
  memory,       \* [Keys -> Entry \cup {None}]: memoryCache
  redisCache,   \* [Keys -> Entry \cup {None}]
  cacheCalls,   \* [Workers -> CacheCall]
  slipped       \* keys a call held or fetched a value of during the last
                \* invalidation (history)

cacheVars == <<memory, redisCache, cacheCalls, slipped>>

Entry     == [age : Nat, left : Nat, old : BOOLEAN]   \* old: read before the last
                                                      \* invalidation (history)
CacheCall == [at : {"idle", "get", "reply", "compute", "set", "scan"},
              key : Keys \cup {None},
              age : Nat, old : BOOLEAN,   \* of the value it holds
              waited : Nat]
NoRead    == [at |-> "idle", key |-> None, age |-> 0, old |-> FALSE, waited |-> 0]

CacheInit ==
  /\ memory = [k \in Keys |-> None]
  /\ redisCache = [k \in Keys |-> None]
  /\ cacheCalls = [w \in Workers |-> NoRead]
  /\ slipped = {}

Reading(w, label)   == cacheCalls[w].at = label
Holding(k)          == {w \in Workers : cacheCalls[w].key = k
                                          /\ cacheCalls[w].at \in {"reply", "compute", "set"}}
Invalidating(k)     == \E w \in Workers : cacheCalls[w].key = k /\ Reading(w, "scan")
CacheStep(w, label) == cacheCalls' = [cacheCalls EXCEPT ![w].at = label, ![w].waited = 0]
CacheReturn(w)      == cacheCalls' = [cacheCalls EXCEPT ![w] = NoRead]
Cached(w)           == [age |-> cacheCalls[w].age, left |-> Ttl[cacheCalls[w].key],
                        old |-> cacheCalls[w].old]

-----------------------------------------------------------------------------

(* getOrSet: a live entry in memory is returned at once.                   *)
GetOrSet(w, k) ==
  /\ Reading(w, "idle")
  /\ memory[k] = None
  /\ cacheCalls' = [cacheCalls EXCEPT ![w] = [NoRead EXCEPT !.at = "get", !.key = k]]
  /\ UNCHANGED <<memory, redisCache, slipped>>

(* Redis answers; what it answered with ages on its way.                   *)
RedisHit(w) ==
  LET k == cacheCalls[w].key IN
  /\ Reading(w, "get")
  /\ redisCache[k] # None
  /\ cacheCalls' = [cacheCalls EXCEPT ![w] =
       [at |-> "reply", key |-> k, age |-> redisCache[k].age, old |-> redisCache[k].old,
        waited |-> 0]]
  /\ slipped' = IF Invalidating(k) THEN slipped \cup {k} ELSE slipped
  /\ UNCHANGED <<memory, redisCache>>

RenewsRedis(w, k)  == [redisCache EXCEPT ![k] = Cached(w)]
LeavesRedis(w, k)  == redisCache

(* The value goes into memory for a whole ttl more.                        *)
FillMemory(w) ==
  LET k == cacheCalls[w].key IN
  /\ Reading(w, "reply")
  /\ memory' = [memory EXCEPT ![k] = Cached(w)]
  /\ redisCache' = LeavesRedis(w, k)
  /\ CacheReturn(w)
  /\ UNCHANGED slipped

(* A miss: the report's queries start.                                     *)
RedisMiss(w) ==
  LET k == cacheCalls[w].key IN
  /\ Reading(w, "get")
  /\ redisCache[k] = None
  /\ CacheStep(w, "compute")
  /\ UNCHANGED <<memory, redisCache, slipped>>

SetMemory(w) ==
  /\ Reading(w, "compute")
  /\ memory' = [memory EXCEPT ![cacheCalls[w].key] = Cached(w)]
  /\ CacheStep(w, "set")
  /\ UNCHANGED <<redisCache, slipped>>

SetRedis(w) ==
  /\ Reading(w, "set")
  /\ redisCache' = [redisCache EXCEPT ![cacheCalls[w].key] = Cached(w)]
  /\ CacheReturn(w)
  /\ UNCHANGED <<memory, slipped>>

-----------------------------------------------------------------------------

Aged(entry) == IF entry = None THEN None ELSE [entry EXCEPT !.old = TRUE]

(* invalidate empties the memory at once, and then scans Redis.            *)
InvalidateMemory(w, k) ==
  /\ Reading(w, "idle")
  /\ ~Invalidating(k)
  /\ memory' = [memory EXCEPT ![k] = None]
  /\ redisCache' = [redisCache EXCEPT ![k] = Aged(@)]
  /\ cacheCalls' = [v \in Workers |->
       IF v = w THEN [NoRead EXCEPT !.at = "scan", !.key = k]
       ELSE IF v \in Holding(k) THEN [cacheCalls[v] EXCEPT !.old = TRUE] ELSE cacheCalls[v]]
  /\ slipped' = IF Holding(k) = {} THEN slipped \ {k} ELSE slipped \cup {k}

KeepsRedis(k) == redisCache
Dropped(k)    == [redisCache EXCEPT ![k] = None]

InvalidateRedis(w) ==
  /\ Reading(w, "scan")
  /\ redisCache' = Dropped(cacheCalls[w].key)
  /\ CacheReturn(w)
  /\ UNCHANGED <<memory, slipped>>

(* A Redis command or a query fails.  An invalidation that ends here has   *)
(* not emptied Redis.                                                      *)
CacheFail(w) ==
  /\ ~Reading(w, "idle")
  /\ slipped' = IF Reading(w, "scan") THEN slipped \cup {cacheCalls[w].key} ELSE slipped
  /\ CacheReturn(w)
  /\ UNCHANGED <<memory, redisCache>>

(* The process restarts; Redis keeps what it has.                          *)
Restart ==
  /\ memory' = [k \in Keys |-> None]
  /\ cacheCalls' = [w \in Workers |-> NoRead]
  /\ slipped' = slipped \cup {k \in Keys : Invalidating(k)}
  /\ UNCHANGED redisCache

ExpiresLate(entry) == IF entry = None \/ entry.left = 0 THEN None
                      ELSE [entry EXCEPT !.age = @ + 1, !.left = @ - 1]
After(entry)       == IF entry = None \/ entry.left = 1 THEN None
                      ELSE [entry EXCEPT !.age = @ + 1, !.left = @ - 1]

CacheTick ==
  /\ \A w \in Workers : Reading(w, "idle") \/ cacheCalls[w].waited < Delay
  /\ memory' = [k \in Keys |-> After(memory[k])]
  /\ redisCache' = [k \in Keys |-> After(redisCache[k])]
  /\ cacheCalls' = [w \in Workers |->
       IF Reading(w, "idle") THEN NoRead
       ELSE [cacheCalls[w] EXCEPT !.waited = @ + 1,
               !.age = IF w \in Holding(cacheCalls[w].key) THEN @ + 1 ELSE @]]
  /\ UNCHANGED slipped

CacheNext ==
  \/ \E w \in Workers, k \in Keys : GetOrSet(w, k) \/ InvalidateMemory(w, k)
  \/ \E w \in Workers :
       \/ RedisHit(w) \/ RedisMiss(w) \/ FillMemory(w) \/ SetMemory(w) \/ SetRedis(w)
       \/ InvalidateRedis(w) \/ CacheFail(w)
  \/ Restart
  \/ CacheTick

CacheSpec == CacheInit /\ [][CacheNext]_cacheVars
-----------------------------------------------------------------------------

CacheTypeOK ==
  /\ memory \in [Keys -> Entry \cup {None}]
  /\ redisCache \in [Keys -> Entry \cup {None}]
  /\ \A k \in Keys : \A e \in {memory[k], redisCache[k]} \ {None} : e.left \in 1..Ttl[k]
  /\ cacheCalls \in [Workers -> CacheCall]
  /\ slipped \subseteq Keys

(* Each level gives a value its ttl afresh, so a report is served until    *)
(* twice its ttl, and the delays of the three steps it passes, but never   *)
(* longer (cache.service.ts:44, 63, 72).                                   *)
Oldest(k) == 2 * (Ttl[k] - 1) + 3 * Delay
AgeBounded ==
  \A k \in Keys :
    /\ memory[k] # None => memory[k].age <= Oldest(k)
    /\ \A w \in Holding(k) : cacheCalls[w].age <= Oldest(k)

(* What the proofs keep: how old a value can be at each stage, given what  *)
(* is left of its life or how long its call has waited.                    *)
CallInTime(c) ==
  /\ c.at # "idle" => c.key \in Keys
  /\ c.waited <= Delay
  /\ c.at = "get" => c.age = 0
  /\ c.at = "compute" => c.age <= c.waited
  /\ c.at = "set" => c.age <= Delay + c.waited
  /\ c.at = "reply" => c.age <= Ttl[c.key] - 1 + 2 * Delay + c.waited
MemoryInTime(k, e) == e # None => e.age + e.left <= 2 * Ttl[k] - 1 + 3 * Delay
RedisInTime(k, e)  == e # None => e.age + e.left <= Ttl[k] + 2 * Delay
StagesBounded ==
  /\ \A w \in Workers : CallInTime(cacheCalls[w])
  /\ \A k \in Keys : MemoryInTime(k, memory[k]) /\ RedisInTime(k, redisCache[k])

CacheIInv == CacheTypeOK /\ StagesBounded

(* After an invalidation, no level holds a value read before it, unless a  *)
(* call that ran during it held or fetched one (cache.service.ts:76-99).   *)
InvalidatedIsGone ==
  \A k \in Keys :
    k \notin slipped /\ ~Invalidating(k) =>
      /\ memory[k] # None => ~memory[k].old
      /\ redisCache[k] # None => ~redisCache[k].old

(* What its proof keeps: but for keys that slipped, nothing read before    *)
(* the last invalidation is in memory or in a call's hands, nor, once that *)
(* invalidation is over, in Redis.                                         *)
HeldIsFresh(k) ==
  /\ memory[k] # None => memory[k].old = FALSE
  /\ \A w \in Holding(k) : cacheCalls[w].old = FALSE
  /\ ~Invalidating(k) /\ redisCache[k] # None => redisCache[k].old = FALSE
AskersHoldNothing == \A w \in Workers : Reading(w, "get") => cacheCalls[w].old = FALSE

FreshIInv == CacheIInv /\ AskersHoldNothing /\ \A k \in Keys \ slipped : HeldIsFresh(k)
=============================================================================
