---------------------------- MODULE TokenBlacklist ----------------------------
(***************************************************************************)
(* Revoked access tokens (TokenBlacklistService), for one token: kept in   *)
(* the database, in Redis, and in the memory of the instance that could    *)
(* not reach Redis.  Every store may fail; the revocation succeeds anyway. *)
(*                                                                         *)
(* One action is what an instance does between two awaits.  Each instance  *)
(* has its own connection to Redis.                                        *)
(***************************************************************************)
EXTENDS Integers

CONSTANTS
    Servers,   \* the instances
    Exp,       \* the token's exp
    BlMaxTime  \* bound: last clock value

ASSUME BlacklistAssumption == Exp \in Nat /\ BlMaxTime \in Nat

Stores == {"db", "redis", "memory"}

VARIABLES
    blNow,
    link,    \* per instance: RedisService.isAvailable()
    redis,   \* when the Redis key expires, 0 if there is none
    row,     \* the revoked_tokens row exists
    memory,  \* memoryFallback, per instance
    rv,      \* per instance: a revocation under way, and the time it read
    ck,      \* per instance: a check under way, the stores that held the token
             \* when it began (held) and those that did not answer it (missed)
    acked,   \* history: a revocation was answered
    forgot   \* history: a process or Redis lost the token with its memory

blVars == <<blNow, link, redis, row, memory, rv, ck, acked, forgot>>

IdleRv == [pc |-> "idle", at |-> 0]
IdleCk == [pc |-> "idle", held |-> {}, missed |-> {}]

BlInit ==
    /\ blNow = 0
    /\ link \in [Servers -> BOOLEAN]
    /\ redis = 0 /\ row = FALSE
    /\ memory = [i \in Servers |-> FALSE]
    /\ rv = [i \in Servers |-> IdleRv]
    /\ ck = [i \in Servers |-> IdleCk]
    /\ acked = FALSE /\ forgot = FALSE

Alive     == blNow < Exp
InRedis   == redis > blNow
HeldBy(i) == {s \in Stores : \/ s = "db" /\ row
                             \/ s = "redis" /\ InRedis
                             \/ s = "memory" /\ memory[i]}

-----------------------------------------------------------------------------
(* blacklistToken: a token that has expired is left alone. *)

BlRevoke(i) ==
    /\ rv[i].pc = "idle" /\ Alive
    /\ rv' = [rv EXCEPT ![i] = [pc |-> "persist", at |-> blNow]]
    /\ UNCHANGED <<blNow, link, redis, row, memory, ck, acked, forgot>>

BlPersist(i, ok) ==
    /\ rv[i].pc = "persist"
    /\ row' = (row \/ ok)
    /\ rv' = [rv EXCEPT ![i].pc = "store"]
    /\ UNCHANGED <<blNow, link, redis, memory, ck, acked, forgot>>

\* Mutant: a failed write to Redis is logged, and that is all.
BlStoreNoFallback(i, ok) ==
    /\ rv[i].pc = "store"
    /\ IF link[i] /\ ok THEN redis' = blNow + Exp - rv[i].at ELSE UNCHANGED redis
    /\ IF link[i] THEN UNCHANGED memory ELSE memory' = [memory EXCEPT ![i] = TRUE]
    /\ acked' = TRUE
    /\ rv' = [rv EXCEPT ![i] = IdleRv]
    /\ UNCHANGED <<blNow, link, row, ck, forgot>>

\* Redis, or the memory of the process when it is away or the write fails.
BlStore(i, ok) ==
    /\ rv[i].pc = "store"
    /\ IF link[i] /\ ok
         THEN redis' = blNow + Exp - rv[i].at /\ UNCHANGED memory
         ELSE memory' = [memory EXCEPT ![i] = TRUE] /\ UNCHANGED redis
    /\ acked' = TRUE
    /\ rv' = [rv EXCEPT ![i] = IdleRv]
    /\ UNCHANGED <<blNow, link, row, ck, forgot>>

-----------------------------------------------------------------------------
(* isBlacklisted, of a token whose signature and exp were accepted *)

BlCheck(i) ==
    /\ ck[i].pc = "idle" /\ Alive
    /\ ck' = [ck EXCEPT ![i] = [pc |-> "redis", held |-> IF acked THEN HeldBy(i) ELSE {},
                                missed |-> {}]]
    /\ UNCHANGED <<blNow, link, redis, row, memory, rv, acked, forgot>>

\* EXISTS, then the memory of the process
BlCheckRedis(i, ok) ==
    /\ ck[i].pc = "redis"
    /\ ck' = [ck EXCEPT ![i] = IF (link[i] /\ ok /\ InRedis) \/ memory[i] THEN IdleCk
                               ELSE [@ EXCEPT !.pc = "db",
                                              !.missed = IF link[i] /\ ok THEN {} ELSE {"redis"}]]
    /\ UNCHANGED <<blNow, link, redis, row, memory, rv, acked, forgot>>

\* The row, which is also copied to Redis.
BlCheckDb(i, ok, copied) ==
    /\ ck[i].pc = "db"
    /\ IF row /\ ok
         THEN /\ redis' = IF copied /\ link[i] /\ Alive THEN Exp ELSE redis
              /\ ck' = [ck EXCEPT ![i] = IdleCk]
         ELSE /\ ck' = [ck EXCEPT ![i] = [@ EXCEPT !.pc = "accepted",
                                            !.missed = ck[i].missed \cup IF ok THEN {} ELSE {"db"}]]
              /\ UNCHANGED redis
    /\ UNCHANGED <<blNow, link, row, memory, rv, acked, forgot>>

\* The accepted request is served.
BlServe(i) ==
    /\ ck[i].pc = "accepted"
    /\ ck' = [ck EXCEPT ![i] = IdleCk]
    /\ UNCHANGED <<blNow, link, redis, row, memory, rv, acked, forgot>>

-----------------------------------------------------------------------------
\* The process restarts; onModuleInit copies the row to Redis if it is there.
BlRestart(i, linked, copied) ==
    /\ memory' = [memory EXCEPT ![i] = FALSE]
    /\ rv' = [rv EXCEPT ![i] = IdleRv]
    /\ ck' = [ck EXCEPT ![i] = IdleCk]
    /\ link' = [link EXCEPT ![i] = linked]
    /\ redis' = IF linked /\ copied /\ row /\ Alive THEN Exp ELSE redis
    /\ forgot' = (forgot \/ memory[i])
    /\ UNCHANGED <<blNow, row, acked>>

\* The sweep of every minute; the deletion of the row may fail.
BlCleanup(i, ok) ==
    /\ memory' = [memory EXCEPT ![i] = @ /\ Exp >= blNow]
    /\ row' = (row /\ (~ok \/ Exp >= blNow))
    /\ UNCHANGED <<blNow, link, redis, rv, ck, acked, forgot>>

\* The connection of an instance is lost or back; Redis restarts empty.
BlLink(i) ==
    /\ link' = [link EXCEPT ![i] = ~@]
    /\ UNCHANGED <<blNow, redis, row, memory, rv, ck, acked, forgot>>

BlRedisLoses ==
    /\ redis > 0
    /\ redis' = 0
    /\ ck' = [i \in Servers |-> [ck[i] EXCEPT !.held = @ \ {"redis"}]]
    /\ forgot' = TRUE
    /\ UNCHANGED <<blNow, link, row, memory, rv, acked>>

BlTick ==
    /\ blNow < BlMaxTime
    /\ blNow' = blNow + 1
    /\ UNCHANGED <<link, redis, row, memory, rv, ck, acked, forgot>>

BlNext ==
    \/ \E i \in Servers :
         \/ BlRevoke(i) \/ BlCheck(i) \/ BlServe(i) \/ BlLink(i)
         \/ \E ok \in BOOLEAN :
              \/ BlPersist(i, ok) \/ BlStore(i, ok) \/ BlCheckRedis(i, ok) \/ BlCleanup(i, ok)
              \/ \E b \in BOOLEAN : BlCheckDb(i, ok, b) \/ BlRestart(i, ok, b)
    \/ BlRedisLoses \/ BlTick

BlSpec == BlInit /\ [][BlNext]_blVars

-----------------------------------------------------------------------------
(* A revocation lasts as long as the token, in any order of sweeps,         *)
(* restarts, reconnections and copies to Redis: once one was answered, some *)
(* store holds the token before its exp unless a memory was lost, and a     *)
(* check accepts it only if every store that held it when the check began   *)
(* did not answer (isBlacklisted asks all three).                           *)
RevocationLasts ==
    /\ acked /\ Alive /\ ~forgot => \E i \in Servers : HeldBy(i) # {}
    /\ \A i \in Servers : ck[i].pc = "accepted" /\ Alive => ck[i].held \subseteq ck[i].missed
==============================================================================
