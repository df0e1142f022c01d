----------------------------- MODULE ApiKeyGuard -----------------------------
(***************************************************************************)
(* The limits of one API key (ApiKeyGuard.canActivate): a sliding window   *)
(* of rateLimitPerMinute requests in a Redis sorted set, a daily counter   *)
(* in Redis, and maxRequestsPerMonth compared with the requestCount that   *)
(* validateApiKey read before it verified the hash and sent off its own    *)
(* update of it, which nobody awaits.  The limits kept in Redis are passed *)
(* over when it fails ("fail open").                                       *)
(*                                                                         *)
(* One action is one Redis command or one database statement, or what      *)
(* follows the verification of a hash.                                     *)
(***************************************************************************)
EXTENDS Integers, FiniteSets

CONSTANTS
    AkReqs,    \* requests in flight
    PerWindow, \* rateLimitPerMinute
    Window,    \* windowMs
    Ttl,       \* the expiry of the sorted set: a second more than the window
    PerDay,    \* maxRequestsPerDay
    Day,       \* length of a day
    PerMonth,  \* maxRequestsPerMonth
    AkUses,    \* bound: requests in a behaviour
    AkMaxTime  \* bound: last clock value

ASSUME ApiKeyGuardAssumption ==
    /\ PerWindow \in Nat \ {0} /\ Window \in Nat \ {0} /\ PerDay \in Nat \ {0}
    /\ Ttl \in Nat /\ Ttl > Window
    /\ Day \in Nat \ {0} /\ PerMonth \in Nat \ {0} /\ AkUses \in Nat /\ AkMaxTime \in Nat
    /\ IsFiniteSet(AkReqs)

AkTimes  == 0..AkMaxTime
AkDays   == 0..(AkMaxTime \div Day)

VARIABLES
    akNow,
    zset,     \* the members of the sorted set ratelimit:apikey
    deadline, \* when Redis drops that key, NoDeadline without an expiry
    daily,    \* the counters dailyquota:apikey, by day
    usage,    \* apiKey.requestCount
    owed,     \* updates of requestCount under way
    ak,       \* per request: program counter, time read, requestCount read,
              \* and its number, which stands for the random part of its member
    admitted, \* history: requests let past each of the limits
    uses,     \* history: requests with a valid key, the most requests ever
              \* that had read requestCount and were not in it themselves,
              \* and the updates that failed
    open      \* history: limits passed over because of an error

akVars == <<akNow, zset, deadline, daily, usage, owed, ak, admitted, uses, open>>

IdleAk == [pc |-> "idle", at |-> 0, count |-> 0, id |-> 0]
NoDeadline == -1

AkInit ==
    /\ akNow = 0
    /\ zset = {} /\ deadline = NoDeadline
    /\ daily = [d \in AkDays |-> 0]
    /\ usage = 0 /\ owed = 0
    /\ ak = [r \in AkReqs |-> IdleAk]
    /\ admitted = [rate |-> {}, day |-> [d \in AkDays |-> 0], month |-> 0]
    /\ uses = [all |-> 0, peak |-> 0, failed |-> 0]
    /\ open = {}

Member(r) == [at |-> ak[r].at, id |-> ak[r].id]
InWindow(t) == {e \in admitted.rate : t - Window < e.at /\ e.at <= t}
AkGoto(r, label) == ak' = [ak EXCEPT ![r].pc = label]
AkReject(r) == ak' = [ak EXCEPT ![r] = IdleAk]

-----------------------------------------------------------------------------
(* validateApiKey *)

\* Requests that have read requestCount and are not in it
Uncounted == owed + Cardinality({r \in AkReqs : ak[r].pc = "verify"})

\* The row of the key is read, requestCount with it.
AkRead(r) ==
    /\ ak[r].pc = "idle"
    /\ ak' = [ak EXCEPT ![r] = [IdleAk EXCEPT !.pc = "verify", !.count = usage]]
    /\ uses' = [uses EXCEPT !.peak = IF Uncounted + 1 > @ THEN Uncounted + 1 ELSE @]
    /\ UNCHANGED <<akNow, zset, deadline, daily, usage, owed, admitted, open>>

\* verifyPassword accepts: the update is sent off, checkRateLimit reads the clock.
AkValidate(r) ==
    /\ ak[r].pc = "verify" /\ uses.all < AkUses
    /\ ak' = [ak EXCEPT ![r] = [@ EXCEPT !.pc = "trim", !.at = akNow, !.id = uses.all + 1]]
    /\ owed' = owed + 1
    /\ uses' = [uses EXCEPT !.all = @ + 1]
    /\ UNCHANGED <<akNow, zset, deadline, daily, usage, admitted, open>>

\* verifyPassword refuses, or the address is outside allowedIpRanges.
AkRefuse(r) ==
    /\ ak[r].pc \in {"verify", "trim"}
    /\ AkReject(r)
    /\ UNCHANGED <<akNow, zset, deadline, daily, usage, owed, admitted, uses, open>>

\* The update nobody awaits; its error is ignored.
AkUsageUpdate(ok) ==
    /\ owed > 0
    /\ owed' = owed - 1
    /\ usage' = IF ok THEN usage + 1 ELSE usage
    /\ uses' = IF ok THEN uses ELSE [uses EXCEPT !.failed = @ + 1]
    /\ UNCHANGED <<akNow, zset, deadline, daily, ak, admitted, open>>

-----------------------------------------------------------------------------
(* checkRateLimit *)

\* ZREMRANGEBYSCORE up to the start of this request's window; a key without
\* members is gone, its expiry with it.
AkTrim(r) ==
    /\ ak[r].pc = "trim"
    /\ zset' = {e \in zset : e.at > ak[r].at - Window}
    /\ deadline' = IF zset' = {} THEN NoDeadline ELSE deadline
    /\ AkGoto(r, "count")
    /\ UNCHANGED <<akNow, daily, usage, owed, admitted, uses, open>>

\* ZCARD, and the decision
AkCount(r) ==
    /\ ak[r].pc = "count"
    /\ IF Cardinality(zset) >= PerWindow THEN AkReject(r) ELSE AkGoto(r, "add")
    /\ UNCHANGED <<akNow, zset, deadline, daily, usage, owed, admitted, uses, open>>

\* ZADD, with the time read at the beginning
AkAdd(r) ==
    /\ ak[r].pc = "add"
    /\ zset' = zset \cup {Member(r)}
    /\ admitted' = [admitted EXCEPT !.rate = @ \cup {Member(r)}]
    /\ AkGoto(r, "expire")
    /\ UNCHANGED <<akNow, deadline, daily, usage, owed, uses, open>>

\* EXPIRE, which does nothing to a key that is gone
AkExpire(r) ==
    /\ ak[r].pc = "expire"
    /\ deadline' = IF zset = {} THEN NoDeadline ELSE akNow + Ttl
    /\ AkGoto(r, "daily")
    /\ UNCHANGED <<akNow, zset, daily, usage, owed, admitted, uses, open>>

\* A command fails: the request goes on unlimited.
AkRateOpen(r) ==
    /\ ak[r].pc \in {"trim", "count", "add", "expire"}
    /\ AkGoto(r, "daily")
    /\ open' = open \cup {"rate"}
    /\ admitted' = [admitted EXCEPT !.rate = @ \cup {Member(r)}]
    /\ UNCHANGED <<akNow, zset, deadline, daily, usage, owed, uses>>

-----------------------------------------------------------------------------
\* Mutant: the count before this request is compared.
AkDailyBefore(r) ==
    LET d == akNow \div Day IN
    /\ ak[r].pc = "daily"
    /\ daily' = [daily EXCEPT ![d] = @ + 1]
    /\ IF daily[d] > PerDay
         THEN AkReject(r) /\ UNCHANGED admitted
         ELSE AkGoto(r, "month") /\ admitted' = [admitted EXCEPT !.day[d] = @ + 1]
    /\ UNCHANGED <<akNow, zset, deadline, usage, owed, uses, open>>

\* checkAndIncrementDailyQuota: INCR and the decision, then checkQuotas with
\* the requestCount of the beginning.
AkDaily(r) ==
    LET d == akNow \div Day IN
    /\ ak[r].pc = "daily"
    /\ daily' = [daily EXCEPT ![d] = @ + 1]
    /\ IF daily'[d] > PerDay
         THEN AkReject(r) /\ UNCHANGED admitted
         ELSE AkGoto(r, "month") /\ admitted' = [admitted EXCEPT !.day[d] = @ + 1]
    /\ UNCHANGED <<akNow, zset, deadline, usage, owed, uses, open>>

AkDailyOpen(r) ==
    /\ ak[r].pc = "daily"
    /\ AkGoto(r, "month")
    /\ open' = open \cup {"daily"}
    /\ admitted' = [admitted EXCEPT !.day[akNow \div Day] = @ + 1]
    /\ UNCHANGED <<akNow, zset, deadline, daily, usage, owed, uses>>

AkMonth(r) ==
    /\ ak[r].pc = "month"
    /\ admitted' = IF ak[r].count >= PerMonth THEN admitted
                                              ELSE [admitted EXCEPT !.month = @ + 1]
    /\ AkReject(r)
    /\ UNCHANGED <<akNow, zset, deadline, daily, usage, owed, uses, open>>

\* Redis drops the key when its expiry comes.
AkTick ==
    /\ akNow < AkMaxTime
    /\ akNow' = akNow + 1
    /\ LET gone == akNow' = deadline IN
       /\ zset' = IF gone THEN {} ELSE zset
       /\ deadline' = IF gone THEN NoDeadline ELSE deadline
    /\ UNCHANGED <<daily, usage, owed, ak, admitted, uses, open>>

AkNext ==
    \/ \E r \in AkReqs :
         \/ AkRead(r) \/ AkValidate(r) \/ AkRefuse(r)
         \/ AkTrim(r) \/ AkCount(r) \/ AkAdd(r) \/ AkExpire(r)
         \/ AkRateOpen(r) \/ AkDaily(r) \/ AkDailyOpen(r) \/ AkMonth(r)
    \/ \E ok \in BOOLEAN : AkUsageUpdate(ok)
    \/ AkTick

AkSpec == AkInit /\ [][AkNext]_akVars

-----------------------------------------------------------------------------
(* While no error opened the rate limit: any window lets through more than  *)
(* rateLimitPerMinute by less than three times the requests in flight.      *)
(* checkRateLimit counts and adds in two commands; an entry added to a key  *)
(* about to expire may be lost with it before its own EXPIRE; and a late    *)
(* request may count after the entries of its window were removed.          *)
ApiKeyWindow ==
    "rate" \notin open => \A t \in AkTimes :
        Cardinality(InWindow(t)) <= PerWindow - 1 + 3 * Cardinality(AkReqs)

(* The daily quota is exact while no error opened it.  The monthly quota is *)
(* exceeded by no more than the updates of requestCount that failed and one *)
(* less than the most requests that, at one time, had read requestCount and *)
(* were not yet in it: their hash being verified or their update, which     *)
(* nobody awaits, under way.                                                *)
ApiKeyQuotas ==
    /\ "daily" \notin open => \A d \in AkDays : admitted.day[d] <= PerDay
    /\ admitted.month <= PerMonth - 1 + uses.peak + uses.failed

(* The three limits of a key, each with the overshoot it allows, while its  *)
(* requests, the unawaited updates and the expiry of the sorted set         *)
(* interleave (api-key.guard.ts canActivate).                               *)
ApiKeyLimits == ApiKeyWindow /\ ApiKeyQuotas
==============================================================================
