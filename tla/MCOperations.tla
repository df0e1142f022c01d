---------------------------- MODULE MCOperations ----------------------------
(***************************************************************************)
(* Instances for TLC of the components that guard and maintain the server: *)
(* they share no state, so a behaviour is a behaviour of one of them, the  *)
(* part chosen at the beginning.                                           *)
(***************************************************************************)
EXTENDS BruteForce, UpgradeRollback, MachineCredentials, RateLimiter, ApiKeyGuard,
        TokenBlacklist, Passkeys, TLC

VARIABLE part

Parts == {"bruteforce", "upgrade", "keys", "ratelimit", "apikey", "blacklist", "passkeys"}
opVars == <<part, vars, upgVars, keyVars, rlVars, akVars, blVars, pkVars>>

(* The sets of requests are one set, and so are the sets of instances.      *)
OpSymmetry == Permutations(Reqs) \cup Permutations(Instances)

OpInit ==
    /\ part \in Parts
    /\ Init /\ UpgInit /\ KeyInit /\ RlInit /\ AkInit /\ BlInit /\ PkInit
    /\ part # "blacklist" => link = [i \in Servers |-> TRUE]
    /\ part # "passkeys" => passkey = NoPasskey

-----------------------------------------------------------------------------
(* Failures of one second factor at a time. *)
BfProfile == Cardinality({k \in Factors : Rows(k) # {}}) <= 1

(* Keys of one owner at a time.  Keys are created at the beginning only: an *)
(* identity is removed while it has one key, and gets a new first key when  *)
(* the first was revoked; only a service account's expires by itself.  The  *)
(* last key is a successor made by a scheduler while no administrator acts. *)
KeyProfile ==
    /\ Cardinality({keys'[i].kind : i \in {j \in KeyIds : keys'[j].exists}}) <= 1
    /\ \A i \in KeyIds : keys'[i].expiresAt = KeyMaxTime => keys'[i].kind = "api"
    /\ nKeys' > nKeys /\ keyReq' = keyReq =>
         keyNow = 0 /\ (nKeys = 0 \/ (nKeys = 1 /\ keys[1].revoked))
    /\ owned' # owned => nKeys = 1
    /\ nKeys' > nKeys /\ nKeys' = NKeys =>
         \A r \in KeyReqs : keyReq[r].pc # "idle" => keyReq[r].by = "scheduler"

(* Either Redis counts, within two minutes, or the database does, over all  *)
(* windows, or a request is taken over from the one by the other.  Counters *)
(* that errors drive below zero or above the limits are not followed.       *)
InRedisPath == {r \in RlReqs : rl[r].pc \in {"minute", "hour", "undo_minute", "undo_hour"}}
InDbPath    == {r \in RlReqs : rl[r].pc \in InDb}
RlBounds ==
    /\ \A t \in Minutes : minuteKey[t] \in 0..3 /\ passed.minute[t] <= 2
    /\ \A h \in Hours : hourKey[h] \in 0..4 /\ passed.hour[h] <= 3
    /\ entry.hour \in 0..3 /\ entry.minute \in 0..3
    /\ Cardinality({p \in Minutes \X (1..4) : p[2] <= passed.db[p[1]]}) <= 3
RlProfile ==
    /\ RlBounds
    /\ \/ rlNow <= 1 /\ ~entry.exists /\ InDbPath = {}
       \/ rlNow = 0 /\ minuteKey[0] <= 1 /\ hourKey[0] <= 1 /\ ~redisUp
       \/ /\ ~redisUp /\ lost = {} /\ InRedisPath = {}
          /\ \A t \in Minutes : minuteKey[t] = 0
          /\ \A h \in Hours : hourKey[h] = 0

(* Either the sorted set and the daily counter work and requestCount lags   *)
(* behind, requests before and past the rate limit going on first; or       *)
(* requestCount is updated and the rate limit lets all pass.                *)
OffRate == {r \in AkReqs : ak[r].pc \in {"verify", "daily", "month"}}
AkProfile ==
    \/ /\ usage' = 0 /\ uses'.failed = 0 /\ open' = {}
       /\ OffRate # {} => \E r \in OffRate : ak'[r] # ak[r]
    \/ /\ akNow' = 0 /\ zset' = {} /\ uses'.all <= 4
       /\ \A r \in AkReqs : ak'[r].pc # "count"

\* One revocation and one check at a time, neither begun after the exp.
BlProfile ==
    /\ Cardinality({i \in Servers : rv[i].pc # "idle"}) <= 1
    /\ Cardinality({i \in Servers : ck[i].pc # "idle"}) <= 1
    /\ blNow = BlMaxTime => \A i \in Servers : rv[i].pc = "idle" /\ ck[i].pc = "idle"

-----------------------------------------------------------------------------
BruteForceStep ==
    /\ part = "bruteforce" /\ Next /\ BfProfile'
    /\ UNCHANGED <<part, upgVars, keyVars, rlVars, akVars, blVars, pkVars>>

UpgradeStep ==
    /\ part = "upgrade" /\ UpgNext
    /\ UNCHANGED <<part, vars, keyVars, rlVars, akVars, blVars, pkVars>>

KeyStep ==
    /\ part = "keys" /\ KeyNext /\ KeyProfile
    /\ UNCHANGED <<part, vars, upgVars, rlVars, akVars, blVars, pkVars>>

RateLimitStep ==
    /\ part = "ratelimit" /\ RlNext /\ RlProfile'
    /\ UNCHANGED <<part, vars, upgVars, keyVars, akVars, blVars, pkVars>>

ApiKeyStep ==
    /\ part = "apikey" /\ AkNext /\ AkProfile
    /\ UNCHANGED <<part, vars, upgVars, keyVars, rlVars, blVars, pkVars>>

BlacklistStep ==
    /\ part = "blacklist" /\ BlNext /\ BlProfile'
    /\ UNCHANGED <<part, vars, upgVars, keyVars, rlVars, akVars, pkVars>>

PasskeyStep ==
    /\ part = "passkeys" /\ PkNext
    /\ UNCHANGED <<part, vars, upgVars, keyVars, rlVars, akVars, blVars>>

OpNext ==
    \/ BruteForceStep \/ UpgradeStep \/ KeyStep \/ RateLimitStep \/ ApiKeyStep
    \/ BlacklistStep \/ PasskeyStep

OpSpec == OpInit /\ [][OpNext]_opVars
=============================================================================
