----------------------------- MODULE RateLimiter -----------------------------
(***************************************************************************)
(* The request limiter (RateLimitService.check) for one key, for example   *)
(* one client of a realm: a limit per minute and one per hour, counted in  *)
(* Redis by fixed windows, or in one database row when Redis is away.  A   *)
(* rejected request takes its own count back.                              *)
(*                                                                         *)
(* One action is one Redis command or one database statement.  The unit of *)
(* time is the minute.                                                     *)
(***************************************************************************)
EXTENDS Integers, FiniteSets

CONSTANTS
    RlReqs,      \* requests in flight
    PerMinute,   \* limitPerMinute
    PerHour,     \* limitPerHour
    Hour,        \* length of the hour window
    RlMaxTime    \* bound: last clock value

ASSUME RateLimiterAssumption ==
    /\ PerMinute \in Nat \ {0} /\ PerHour \in Nat \ {0} /\ Hour \in Nat \ {0}
    /\ RlMaxTime \in Nat /\ IsFiniteSet(RlReqs)

Minutes == 0..RlMaxTime
HourOf(t) == t \div Hour
Hours   == {HourOf(t) : t \in Minutes}

VARIABLES
    rlNow,
    redisUp,  \* RedisService.isAvailable()
    minuteKey, hourKey,  \* the Redis counters of each window
    entry,    \* the rate_limit_entries row
    rl,       \* per request: program counter and local variables
    passed,   \* history: requests let through, by store and window
    contested, \* history: database windows started, or whose row was swept,
              \* while another request was being counted there, and windows
              \* whose row was swept in the minute they began
    lost      \* history: errors left a count behind ("extra"), or a request
              \* uncounted although Redis was used ("missing")

rlVars == <<rlNow, redisUp, minuteKey, hourKey, entry, rl, passed, contested, lost>>

NoEntry == [exists |-> FALSE, minute |-> 0, minuteStart |-> 0, hour |-> 0, hourStart |-> 0]
\* at is the time read at the beginning, minute and hour are the counts seen;
\* counted: both increments took place.
IdleRl  == [pc |-> "idle", at |-> 0, minute |-> 0, hour |-> 0, start |-> 0, hourOver |-> FALSE,
            counted |-> TRUE]

RlInit ==
    /\ rlNow = 0
    /\ redisUp = TRUE
    /\ minuteKey = [t \in Minutes |-> 0]
    /\ hourKey = [h \in Hours |-> 0]
    /\ entry = NoEntry
    /\ rl = [r \in RlReqs |-> IdleRl]
    /\ passed = [minute |-> [t \in Minutes |-> 0], hour |-> [h \in Hours |-> 0],
                 db |-> [t \in Minutes |-> 0]]
    /\ contested = {}
    /\ lost = {}

InDb == {"upsert", "reset_minute", "reset_hour", "decide"}
\* Request r starts the database window of minute t.
Begin(r, t) == contested' = IF \E q \in RlReqs \ {r} : rl[q].pc \in InDb
                              THEN contested \cup {t} ELSE contested

RlGoto(r, label) == rl' = [rl EXCEPT ![r].pc = label]
RlFinish(r)      == rl' = [rl EXCEPT ![r] = IdleRl]
Over(minute, hour) == minute > PerMinute \/ hour > PerHour

-----------------------------------------------------------------------------
(* checkWithRedis *)

\* check(): Redis when it is available, else the database
RlStart(r) ==
    /\ rl[r].pc = "idle"
    /\ rl' = [rl EXCEPT ![r] = [IdleRl EXCEPT !.pc = IF redisUp THEN "minute" ELSE "upsert",
                                              !.at = rlNow]]
    /\ UNCHANGED <<rlNow, redisUp, minuteKey, hourKey, entry, passed, lost, contested>>

\* A command throws, with or without effect: the request is counted in the
\* database instead.
RlFallback(r, done) ==
    LET t == rl[r].at IN
    /\ rl[r].pc \in {"minute", "hour"}
    /\ IF done /\ rl[r].pc = "minute" THEN minuteKey' = [minuteKey EXCEPT ![t] = @ + 1]
                                      ELSE UNCHANGED minuteKey
    /\ IF done /\ rl[r].pc = "hour" THEN hourKey' = [hourKey EXCEPT ![HourOf(t)] = @ + 1]
                                    ELSE UNCHANGED hourKey
    /\ lost' = IF done \/ (rl[r].pc = "hour" /\ rl[r].counted) THEN lost \cup {"extra"} ELSE lost
    /\ rl' = [rl EXCEPT ![r] = [IdleRl EXCEPT !.pc = "upsert", !.at = rlNow]]
    /\ UNCHANGED <<rlNow, redisUp, entry, passed, contested>>

(* INCR of the minute; the service returns 0 when it knows Redis to be      *)
(* away.  The EXPIRE after the first increment of a key is left out: a key  *)
(* outlives its window, so it would be missed only by a request that hung   *)
(* past the expiry between reading the clock and this command.              *)
IncrMinute(r) ==
    LET t == rl[r].at IN
    /\ rl[r].pc = "minute"
    /\ IF redisUp
         THEN /\ minuteKey' = [minuteKey EXCEPT ![t] = @ + 1]
              /\ rl' = [rl EXCEPT ![r].pc = "hour", ![r].minute = minuteKey'[t]]
         ELSE /\ rl' = [rl EXCEPT ![r].pc = "hour", ![r].counted = FALSE]
              /\ UNCHANGED minuteKey
    /\ UNCHANGED <<rlNow, redisUp, hourKey, entry, passed, lost, contested>>

\* INCR of the hour, and the decision on both counts.
IncrHour(r) ==
    LET t    == rl[r].at
        hour == IF redisUp THEN hourKey[HourOf(t)] + 1 ELSE 0
        both == rl[r].counted /\ redisUp
    IN
    /\ rl[r].pc = "hour"
    /\ hourKey' = IF redisUp THEN [hourKey EXCEPT ![HourOf(t)] = @ + 1] ELSE hourKey
    /\ IF Over(rl[r].minute, hour)
         THEN /\ rl' = [rl EXCEPT ![r].pc = "undo_minute", ![r].counted = both]
              /\ UNCHANGED passed
         ELSE /\ RlFinish(r)
              /\ passed' = IF both THEN [passed EXCEPT !.minute[t] = @ + 1, !.hour[HourOf(t)] = @ + 1]
                                   ELSE passed
    /\ lost' = IF both THEN lost ELSE {"extra", "missing"}
    /\ UNCHANGED <<rlNow, redisUp, minuteKey, entry, contested>>

\* Mutant: a rejected request keeps its count of the minute.
UndoMinuteForgotten(r) ==
    /\ rl[r].pc = "undo_minute"
    /\ RlGoto(r, "undo_hour")
    /\ UNCHANGED <<rlNow, redisUp, minuteKey, hourKey, entry, passed, lost, contested>>

\* The rejected request takes its counts back, errors are swallowed.
UndoMinute(r) ==
    /\ rl[r].pc = "undo_minute"
    /\ \/ /\ redisUp
          /\ minuteKey' = [minuteKey EXCEPT ![rl[r].at] = @ - 1]
          /\ UNCHANGED lost
       \/ lost' = lost \cup {"extra"} /\ UNCHANGED minuteKey
    /\ RlGoto(r, "undo_hour")
    /\ UNCHANGED <<rlNow, redisUp, hourKey, entry, passed, contested>>

UndoHour(r) ==
    /\ rl[r].pc = "undo_hour"
    /\ \/ /\ redisUp
          /\ hourKey' = [hourKey EXCEPT ![HourOf(rl[r].at)] = @ - 1]
          /\ UNCHANGED lost
       \/ lost' = lost \cup {"extra"} /\ UNCHANGED hourKey
    /\ RlFinish(r)
    /\ UNCHANGED <<rlNow, redisUp, minuteKey, entry, passed, contested>>

-----------------------------------------------------------------------------
(* checkWithDatabase *)

\* The upsert, and which windows it shows to be over.
Upsert(r) ==
    LET e == IF entry.exists
               THEN [entry EXCEPT !.minute = @ + 1, !.hour = @ + 1]
               ELSE [exists |-> TRUE, minute |-> 1, minuteStart |-> rl[r].at,
                     hour |-> 1, hourStart |-> rl[r].at]
    IN
    /\ rl[r].pc = "upsert"
    /\ entry' = e
    /\ IF entry.exists THEN UNCHANGED contested ELSE Begin(r, rl[r].at)
    /\ rl' = [rl EXCEPT ![r].pc = IF rl[r].at - e.minuteStart >= 1 THEN "reset_minute"
                                  ELSE IF rl[r].at - e.hourStart >= Hour THEN "reset_hour" ELSE "decide",
                        ![r].minute = e.minute, ![r].hour = e.hour, ![r].start = e.minuteStart,
                        ![r].hourOver = rl[r].at - e.hourStart >= Hour]
    /\ UNCHANGED <<rlNow, redisUp, minuteKey, hourKey, passed, lost>>

\* Mutant: the new window starts with a count of 0.
ResetMinuteToZero(r) ==
    /\ rl[r].pc = "reset_minute" /\ entry.exists
    /\ entry' = [entry EXCEPT !.minute = 0, !.minuteStart = rl[r].at]
    /\ Begin(r, rl[r].at)
    /\ rl' = [rl EXCEPT ![r].pc = IF rl[r].hourOver THEN "reset_hour" ELSE "decide",
                        ![r].minute = 0, ![r].start = rl[r].at]
    /\ UNCHANGED <<rlNow, redisUp, minuteKey, hourKey, passed, lost>>

ResetMinute(r) ==
    /\ rl[r].pc = "reset_minute" /\ entry.exists
    /\ entry' = [entry EXCEPT !.minute = 1, !.minuteStart = rl[r].at]
    /\ Begin(r, rl[r].at)
    /\ rl' = [rl EXCEPT ![r].pc = IF rl[r].hourOver THEN "reset_hour" ELSE "decide",
                        ![r].minute = 1, ![r].start = rl[r].at]
    /\ UNCHANGED <<rlNow, redisUp, minuteKey, hourKey, passed, lost>>

ResetHour(r) ==
    /\ rl[r].pc = "reset_hour" /\ entry.exists
    /\ entry' = [entry EXCEPT !.hour = 1, !.hourStart = rl[r].at]
    /\ rl' = [rl EXCEPT ![r].pc = "decide", ![r].hour = 1]
    /\ UNCHANGED <<rlNow, redisUp, minuteKey, hourKey, passed, lost, contested>>

\* Let through, or rejected after the decrement of both counts.
DecideDb(r) ==
    /\ rl[r].pc = "decide"
    /\ IF Over(rl[r].minute, rl[r].hour)
         THEN /\ \/ /\ entry.exists
                    /\ entry' = [entry EXCEPT !.minute = @ - 1, !.hour = @ - 1]
                    /\ UNCHANGED lost
                 \/ lost' = lost \cup {"extra"} /\ UNCHANGED entry
              /\ UNCHANGED passed
         ELSE /\ passed' = [passed EXCEPT !.db[rl[r].start] = @ + 1]
              /\ UNCHANGED <<entry, lost>>
    /\ RlFinish(r)
    /\ UNCHANGED <<rlNow, redisUp, minuteKey, hourKey, contested>>

\* cleanupExpiredDbEntries.  A row whose hour was restarted late, by a request
\* that had hung, is swept although its minute is still on.
CleanupEntry ==
    /\ entry.exists
    /\ entry.minuteStart < rlNow - Hour \/ entry.hourStart < rlNow - Hour
    /\ entry' = NoEntry
    /\ contested' = contested \cup {rl[r].at : r \in {q \in RlReqs : rl[q].pc \in InDb}}
                              \cup ({entry.minuteStart} \cap {rlNow})
    /\ UNCHANGED <<rlNow, redisUp, minuteKey, hourKey, rl, passed, lost>>

-----------------------------------------------------------------------------
\* A database statement fails, or the process stops.
RlAbort(r) ==
    /\ rl[r].pc # "idle"
    /\ lost' = lost \cup {"extra"}
    /\ RlFinish(r)
    /\ UNCHANGED <<rlNow, redisUp, minuteKey, hourKey, entry, passed, contested>>

\* The connection is lost or back; the counters survive.
RedisToggle ==
    /\ redisUp' = ~redisUp
    /\ UNCHANGED <<rlNow, minuteKey, hourKey, entry, rl, passed, lost, contested>>

RlTick ==
    /\ rlNow < RlMaxTime
    /\ rlNow' = rlNow + 1
    /\ UNCHANGED <<redisUp, minuteKey, hourKey, entry, rl, passed, lost, contested>>

RlNext ==
    \/ \E r \in RlReqs :
         \/ RlStart(r) \/ RlAbort(r) \/ \E done \in BOOLEAN : RlFallback(r, done)
         \/ IncrMinute(r) \/ IncrHour(r) \/ UndoMinute(r) \/ UndoHour(r)
         \/ Upsert(r) \/ ResetMinute(r) \/ ResetHour(r) \/ DecideDb(r)
    \/ CleanupEntry \/ RedisToggle \/ RlTick

RlSpec == RlInit /\ [][RlNext]_rlVars

-----------------------------------------------------------------------------
(* Properties. *)

\* The counters, the row and the requests have their shapes.
RlTypeOK ==
    /\ rlNow \in Minutes /\ contested \subseteq Minutes /\ redisUp \in BOOLEAN /\ lost \subseteq {"extra", "missing"}
    /\ minuteKey \in [Minutes -> Int] /\ hourKey \in [Hours -> Int]
    /\ entry.minuteStart \in Minutes /\ entry.hourStart \in Minutes

(* The limits hold however requests interleave and take their counts back:  *)
(* in Redis for the minute and for the hour, unless Redis went away between *)
(* the two increments of a request; in the database row, whose window is    *)
(* restarted by a statement of its own, for every minute whose window was   *)
(* neither started nor swept while another request was being counted, nor   *)
(* swept before the minute was over.                                        *)
RateCapHolds ==
    /\ "missing" \notin lost =>
         /\ \A t \in Minutes : passed.minute[t] <= PerMinute
         /\ \A h \in Hours : passed.hour[h] <= PerHour
    /\ \A t \in Minutes \ contested : passed.db[t] <= PerMinute

(* "A retry storm cannot keep inflating the counter": as long as no error   *)
(* left a count behind, a counter exceeds the requests it let through by    *)
(* the requests in flight at most.                                          *)
RateNoInflation ==
    "extra" \notin lost =>
      /\ \A t \in Minutes : minuteKey[t] <= passed.minute[t]
           + Cardinality({r \in RlReqs : rl[r].pc \in {"hour", "undo_minute"} /\ rl[r].at = t})
      /\ \A h \in Hours : hourKey[h] <= passed.hour[h]
           + Cardinality({r \in RlReqs : rl[r].pc \in {"undo_minute", "undo_hour"} /\ HourOf(rl[r].at) = h})
      /\ entry.exists => entry.minute <= passed.db[entry.minuteStart]
           + Cardinality({r \in RlReqs : rl[r].pc \in {"reset_minute", "reset_hour", "decide"}})
==============================================================================
