----------------------------- MODULE CacheTiers -----------------------------
(***************************************************************************)
(* common/services/cache.service.ts for one key: a memory per process and  *)
(* a Redis all processes share.  The lives of entries, five minutes in     *)
(* memory at most, are counted in units of time; commands take none.       *)
(***************************************************************************)
EXTENDS Naturals

CONSTANTS CacheProcesses,
          CacheTtl, MemoryTtl,  \* the life given to set, and the longest in memory
          MaxVersion            \* bound: values set for the key

ASSUME CacheTtlAssumption == {CacheTtl, MemoryTtl} \subseteq Nat \ {0}
ASSUME VersionAssumption == MaxVersion \in Nat

VARIABLES memory,   \* memory[p]: entry in the Map of process p
          redis,    \* the entry in Redis
          redisUp,  \* redisClient.isReady
          command,  \* command[p]: the command to Redis p waits for
          versions, \* how often the key has been set
          age,      \* age[v]: units since version v was set
          got       \* got[p]: what get returned last, and how old it was

cacheVars == <<memory, redis, redisUp, command, versions, age, got>>

Versions == 1 .. MaxVersion
NoEntry  == [val |-> 0, left |-> 0]
NoWait   == [at |-> "none", val |-> 0]
\* Ages are counted no further: no entry gets as old.
TooOld   == CacheTtl + MemoryTtl

CacheInit ==
  /\ memory = [p \in CacheProcesses |-> NoEntry]
  /\ redis = NoEntry
  /\ redisUp = TRUE
  /\ command = [p \in CacheProcesses |-> NoWait]
  /\ versions = 0
  /\ age = [v \in Versions |-> 0]
  /\ got = [p \in CacheProcesses |-> 0]

Return(p, v) == got' = [got EXCEPT ![p] = age[v]]
Keep(p, v, ttl) ==
  memory' = [memory EXCEPT ![p] = [val |-> v, left |-> IF ttl < MemoryTtl THEN ttl ELSE MemoryTtl]]
Promote(p, v) == Keep(p, v, MemoryTtl)

\* set: memory at once, Redis without waiting for it.
CacheSet(p) ==
  /\ command[p] = NoWait /\ versions < MaxVersion
  /\ versions' = versions + 1
  /\ age' = [age EXCEPT ![versions + 1] = 0]
  /\ Keep(p, versions + 1, CacheTtl)
  /\ command' = IF redisUp THEN [command EXCEPT ![p] = [at |-> "set", val |-> versions + 1]]
                ELSE command
  /\ UNCHANGED <<redis, redisUp, got>>

\* setWithExpiry of what is already past: Redis refuses the expiry and keeps its entry.
CacheSetExpired(p) ==
  /\ command[p] = NoWait /\ memory[p] # NoEntry
  /\ memory' = [memory EXCEPT ![p] = NoEntry]
  /\ UNCHANGED <<redis, redisUp, command, versions, age, got>>

\* Variant: a hit in memory starts its five minutes again.
CacheGetSliding(p) ==
  /\ command[p] = NoWait
  /\ IF memory[p] # NoEntry
     THEN Promote(p, memory[p].val) /\ Return(p, memory[p].val) /\ UNCHANGED command
     ELSE /\ redisUp /\ redis # NoEntry
          /\ command' = [command EXCEPT ![p] = [at |-> "get", val |-> redis.val]]
          /\ UNCHANGED <<memory, got>>
  /\ UNCHANGED <<redis, redisUp, versions, age>>

\* get: from memory, or from Redis ...
CacheGet(p) ==
  /\ command[p] = NoWait
  /\ IF memory[p] # NoEntry THEN Return(p, memory[p].val) /\ UNCHANGED command
     ELSE /\ redisUp /\ redis # NoEntry
          /\ command' = [command EXCEPT ![p] = [at |-> "get", val |-> redis.val]]
          /\ UNCHANGED got
  /\ UNCHANGED <<memory, redis, redisUp, versions, age>>

\* ... whose answer is put into memory for five minutes, whatever is there by now and
\* however long it has been in Redis.
CachePromote(p) ==
  /\ command[p].at = "get"
  /\ Promote(p, command[p].val) /\ Return(p, command[p].val)
  /\ command' = [command EXCEPT ![p] = NoWait]
  /\ UNCHANGED <<redis, redisUp, versions, age>>

\* setEx reaches Redis, or fails, which is only logged.
CacheSetArrives(p) ==
  /\ command[p].at = "set"
  /\ redis' \in {redis, [val |-> command[p].val, left |-> CacheTtl]}
  /\ command' = [command EXCEPT ![p] = NoWait]
  /\ UNCHANGED <<memory, redisUp, versions, age, got>>

\* delete and invalidatePattern: this process's memory, and Redis later.
CacheDelete(p) ==
  /\ command[p] = NoWait
  /\ memory' = [memory EXCEPT ![p] = NoEntry]
  /\ command' = [command EXCEPT ![p] = [NoWait EXCEPT !.at = "del"]]
  /\ UNCHANGED <<redis, redisUp, versions, age, got>>

\* Meanwhile other requests of the process go on: they find the entry in Redis still.
CacheReadBeforeDelete(p) ==
  /\ command[p].at = "del" /\ redisUp /\ redis # NoEntry /\ memory[p] = NoEntry
  /\ Promote(p, redis.val) /\ Return(p, redis.val)
  /\ UNCHANGED <<redis, redisUp, command, versions, age>>

CacheDeleteArrives(p) ==
  /\ command[p].at = "del"
  /\ redis' = IF redisUp THEN NoEntry ELSE redis
  /\ command' = [command EXCEPT ![p] = NoWait]
  /\ UNCHANGED <<memory, redisUp, versions, age, got>>

\* setInMemoryCache drops the oldest entry of a full Map.
CacheEvict(p) ==
  /\ memory[p] # NoEntry
  /\ memory' = [memory EXCEPT ![p] = NoEntry]
  /\ UNCHANGED <<redis, redisUp, command, versions, age, got>>

RedisGoes == redisUp' = ~redisUp /\ UNCHANGED <<memory, redis, command, versions, age, got>>

Shorter(entry) == IF entry.left <= 1 THEN NoEntry ELSE [entry EXCEPT !.left = @ - 1]

\* Time passes.
CacheTick ==
  /\ \A p \in CacheProcesses : command[p] = NoWait
  /\ memory' = [p \in CacheProcesses |-> Shorter(memory[p])]
  /\ redis' = Shorter(redis)
  /\ age' = [v \in Versions |-> IF age[v] < TooOld THEN age[v] + 1 ELSE TooOld]
  /\ UNCHANGED <<redisUp, command, versions, got>>

CacheNext ==
  \/ RedisGoes \/ CacheTick
  \/ \E p \in CacheProcesses :
       \/ CacheSet(p) \/ CacheSetExpired(p) \/ CacheGet(p) \/ CachePromote(p)
       \/ CacheSetArrives(p) \/ CacheDelete(p) \/ CacheReadBeforeDelete(p)
       \/ CacheDeleteArrives(p) \/ CacheEvict(p)

CacheSpec == CacheInit /\ [][CacheNext]_cacheVars

----------------------------------------------------------------------------
\* A value is not read for ever: whatever tiers it moved through, and however deletions,
\* failures and other processes came between, what get returns was set no longer ago than
\* the life in Redis and one life in memory.
NothingReadTooLate == \A p \in CacheProcesses : got[p] < CacheTtl + MemoryTtl
=============================================================================
