---------------------------- MODULE MfaChallenge ----------------------------
(***************************************************************************)
(* The second step of one user's sign-ins: MFA challenges (pending_actions *)
(* rows), the attempts spent on them, the authenticator codes accepted and *)
(* remembered, and the claim that completes a sign-in (MfaService, called  *)
(* by the login page, the mfa-otp token grant and step-up).                *)
(*                                                                         *)
(* One action runs from one await to the next.  The time unit is one TOTP  *)
(* period; code c is the code of period c, and validate() with window 1    *)
(* accepts it one period early and one period late.  Redis may be up or    *)
(* down at every call, a write to used_totp_codes may fail, and requests   *)
(* run on several server instances, each with a memory of its own.         *)
(***************************************************************************)
EXTENDS Integers, FiniteSets

CONSTANTS
    McReqs,        \* requests that may be in flight at the same time
    Instances,     \* server processes
    MaxAttempts,   \* MAX_MFA_ATTEMPTS
    ChallengeTTL,  \* lifetime of a challenge
    MaxChallenges, \* MFA_CHALLENGE_RATE_LIMIT_MAX_REQUESTS
    RateWindow,    \* MFA_CHALLENGE_RATE_LIMIT_WINDOW_SECONDS
    UsedTTL,       \* TOTP_USED_CODE_TTL_SECONDS
    NChallenges,   \* bound: challenges created in a behaviour
    MaxTime        \* bound: last clock value

ASSUME ChallengeAssumption ==
    /\ Instances # {}
    /\ MaxAttempts \in Nat /\ ChallengeTTL \in Nat /\ MaxChallenges \in Nat
    /\ RateWindow \in Nat /\ UsedTTL \in Nat /\ NChallenges \in Nat /\ MaxTime \in Nat

(* "covers the full +-1-step window (3 periods)", the comment on            *)
(* TOTP_USED_CODE_TTL_SECONDS.                                              *)
ASSUME WindowAssumption == UsedTTL >= 3

Challenges == 1..NChallenges
TotpCodes  == 1..(MaxTime + 1)
Nil        == 0

VARIABLES
    now,
    chal,      \* mfa_challenge rows
    nChal,
    db,        \* used_totp_codes: per code the latest expiresAt, Nil if no row
    redis,     \* the same in Redis
    mem,       \* the same in the usedTotpCodes map of each instance
    ans,       \* per request: program counter and local variables
    spent,     \* history: answers admitted per challenge
    completed, \* history: sign-ins completed per challenge
    marked,    \* history: codes whose verification ran to its end
    failed     \* history: codes for which a statement on used_totp_codes failed

mcVars == <<now, chal, nChal, db, redis, mem, ans, spent, completed, marked, failed>>
stores == <<db, redis, mem>>
mcHistory == <<spent, completed, marked, failed>>

NoRow == [live |-> FALSE, attempts |-> 0, createdAt |-> 0]
AnyI  == CHOOSE i \in Instances : TRUE
IdleAnswer == [pc |-> "idle", inst |-> AnyI, chal |-> Nil, code |-> Nil,
               expiresAt |-> 0, late |-> FALSE]

McInit ==
    /\ now = 0
    /\ chal = [k \in Challenges |-> NoRow] /\ nChal = 0
    /\ db = [c \in TotpCodes |-> Nil] /\ redis = [c \in TotpCodes |-> Nil]
    /\ mem = [i \in Instances |-> [c \in TotpCodes |-> Nil]]
    /\ ans = [r \in McReqs |-> IdleAnswer]
    /\ spent = [k \in Challenges |-> 0]
    /\ completed = [k \in Challenges |-> 0]
    /\ marked = {} /\ failed = {}

McGoto(r, label) == ans' = [ans EXCEPT ![r].pc = label]
McFinish(r)      == ans' = [ans EXCEPT ![r] = IdleAnswer]

-----------------------------------------------------------------------------
(* createMfaChallenge: count the recent ones still stored, then insert. *)

Recent == {k \in Challenges : chal[k].live /\ chal[k].createdAt >= now - RateWindow}

CreateCount(r) ==
    /\ ans[r].pc = "idle"
    /\ Cardinality(Recent) < MaxChallenges
    /\ McGoto(r, "create")
    /\ UNCHANGED <<now, chal, nChal, stores, mcHistory>>

CreateChallenge(r) ==
    /\ ans[r].pc = "create"
    /\ nChal < NChallenges
    /\ nChal' = nChal + 1
    /\ chal' = [chal EXCEPT ![nChal + 1] =
                  [live |-> TRUE, attempts |-> 0, createdAt |-> now]]
    /\ McFinish(r)
    /\ UNCHANGED <<now, stores, mcHistory>>

-----------------------------------------------------------------------------
(* validateMfaChallengeWithAttemptCheck *)

\* Mutant: the attempt is counted but not limited.
ReserveUnlimited(r, k, i, c) ==
    /\ ans[r].pc = "idle" /\ k <= nChal
    /\ IF chal[k].live /\ chal[k].createdAt + ChallengeTTL > now
         THEN /\ chal' = [chal EXCEPT ![k].attempts = @ + 1]
              /\ spent' = [spent EXCEPT ![k] = @ + 1]
              /\ ans' = [ans EXCEPT ![r] = [IdleAnswer EXCEPT !.pc = "read", !.inst = i,
                                                      !.chal = k, !.code = c]]
         ELSE /\ ans' = [ans EXCEPT ![r] = [IdleAnswer EXCEPT !.pc = "discard", !.chal = k]]
              /\ UNCHANGED <<chal, spent>>
    /\ UNCHANGED <<now, nChal, stores, completed, marked, failed>>

(* One conditional UPDATE spends an attempt.  The answer is the code of     *)
(* some period, or Nil: a recovery or SMS code.                             *)
Reserve(r, k, i, c) ==
    /\ ans[r].pc = "idle" /\ k <= nChal
    /\ IF /\ chal[k].live /\ chal[k].createdAt + ChallengeTTL > now
          /\ chal[k].attempts < MaxAttempts
         THEN /\ chal' = [chal EXCEPT ![k].attempts = @ + 1]
              /\ spent' = [spent EXCEPT ![k] = @ + 1]
              /\ ans' = [ans EXCEPT ![r] = [IdleAnswer EXCEPT !.pc = "read", !.inst = i,
                                                      !.chal = k, !.code = c]]
         ELSE /\ ans' = [ans EXCEPT ![r] = [IdleAnswer EXCEPT !.pc = "discard", !.chal = k]]
              /\ UNCHANGED <<chal, spent>>
    /\ UNCHANGED <<now, nChal, stores, completed, marked, failed>>

\* Unknown, expired or out of attempts: the challenge is dropped.
Discard(r) ==
    /\ ans[r].pc = "discard"
    /\ chal' = [chal EXCEPT ![ans[r].chal].live = FALSE]
    /\ McFinish(r)
    /\ UNCHANGED <<now, nChal, stores, mcHistory>>

(* The row is read back; a row that is gone, a realm, client or user that   *)
(* does not match, or too many recent failures end the request.             *)
ReadBack(r) ==
    /\ ans[r].pc = "read"
    /\ \/ /\ chal[ans[r].chal].live
          /\ ans' = [ans EXCEPT ![r].pc = IF ans[r].code = Nil THEN "claim" ELSE "cache",
                                ![r].late = ans[r].code \in marked]
       \/ McFinish(r)
    /\ UNCHANGED <<now, chal, nChal, stores, mcHistory>>

-----------------------------------------------------------------------------
(* verifyTotp *)

Valid(c) == now \in (c - 1)..(c + 1)

\* validate(), after the code was found unused; expiresAt is computed here.
Validate(r) ==
    IF Valid(ans[r].code)
      THEN ans' = [ans EXCEPT ![r].pc = "mark", ![r].expiresAt = now + UsedTTL]
      ELSE McFinish(r)

(* isTotpCodeUsed, first half: Redis if it is up, then this instance's map. *)
(* An entry of the map that has expired answers "not used" by itself.       *)
CheckCache(r, up) ==
    LET c == ans[r].code  i == ans[r].inst  expiry == mem[i][c] IN
    /\ ans[r].pc = "cache"
    /\ \/ /\ up /\ redis[c] > now
          /\ McFinish(r) /\ UNCHANGED mem
       \/ /\ ~(up /\ redis[c] > now) /\ expiry # Nil
          /\ IF now > expiry
               THEN Validate(r) /\ mem' = [mem EXCEPT ![i][c] = Nil]
               ELSE McFinish(r) /\ UNCHANGED mem
       \/ /\ ~(up /\ redis[c] > now) /\ expiry = Nil
          /\ McGoto(r, "db") /\ UNCHANGED mem
    /\ UNCHANGED <<now, chal, nChal, db, redis, mcHistory>>

\* Second half: the table; a hit refills Redis.
CheckDb(r, up) ==
    LET c == ans[r].code IN
    /\ ans[r].pc = "db"
    /\ IF db[c] > now
         THEN /\ redis' = IF up THEN [redis EXCEPT ![c] = now + UsedTTL] ELSE redis
              /\ McFinish(r)
         ELSE Validate(r) /\ UNCHANGED redis
    /\ UNCHANGED <<now, chal, nChal, db, mem, mcHistory>>

\* The query fails: logged, and the code counts as not used.
CheckDbFails(r) ==
    /\ ans[r].pc = "db"
    /\ failed' = failed \cup {ans[r].code}
    /\ Validate(r)
    /\ UNCHANGED <<now, chal, nChal, stores, spent, completed, marked>>

\* Mutant: the row expires one period too early (2 periods instead of 3).
MarkDbShort(r, ok) ==
    LET c == ans[r].code IN
    /\ ans[r].pc = "mark"
    /\ db' = IF ok THEN [db EXCEPT ![c] = ans[r].expiresAt - 1] ELSE db
    /\ failed' = IF ok THEN failed ELSE failed \cup {c}
    /\ McGoto(r, "mark_cache")
    /\ UNCHANGED <<now, chal, nChal, redis, mem, spent, completed, marked>>

\* markTotpCodeUsed: the row; a failed insert is logged and ignored.
MarkDb(r, ok) ==
    LET c == ans[r].code IN
    /\ ans[r].pc = "mark"
    /\ db' = IF ok THEN [db EXCEPT ![c] = IF @ > ans[r].expiresAt THEN @
                                                                  ELSE ans[r].expiresAt]
                   ELSE db
    /\ failed' = IF ok THEN failed ELSE failed \cup {c}
    /\ McGoto(r, "mark_cache")
    /\ UNCHANGED <<now, chal, nChal, redis, mem, spent, completed, marked>>

\* then Redis, or the map of this instance when Redis is down.
MarkCache(r, up) ==
    LET c == ans[r].code IN
    /\ ans[r].pc = "mark_cache"
    /\ redis' = IF up THEN [redis EXCEPT ![c] = now + UsedTTL] ELSE redis
    /\ mem' = IF up THEN mem ELSE [mem EXCEPT ![ans[r].inst][c] = ans[r].expiresAt]
    /\ marked' = marked \cup {c}
    /\ McGoto(r, "claim")
    /\ UNCHANGED <<now, chal, nChal, db, spent, completed, failed>>

-----------------------------------------------------------------------------
\* Mutant: the result of the delete is not looked at.
ClaimAlways(r) ==
    LET k == ans[r].chal IN
    /\ ans[r].pc = "claim"
    /\ chal' = [chal EXCEPT ![k].live = FALSE]
    /\ completed' = [completed EXCEPT ![k] = @ + 1]
    /\ McFinish(r)
    /\ UNCHANGED <<now, nChal, stores, spent, marked, failed>>

\* consumeMfaChallenge: only the request whose DELETE removed the row signs in.
Claim(r) ==
    LET k == ans[r].chal IN
    /\ ans[r].pc = "claim"
    /\ chal' = [chal EXCEPT ![k].live = FALSE]
    /\ completed' = IF chal[k].live THEN [completed EXCEPT ![k] = @ + 1] ELSE completed
    /\ McFinish(r)
    /\ UNCHANGED <<now, nChal, stores, spent, marked, failed>>

\* cleanupExpiredActions, once a minute
McCleanup ==
    /\ chal' = [k \in Challenges |->
                  IF chal[k].createdAt + ChallengeTTL < now
                    THEN [chal[k] EXCEPT !.live = FALSE] ELSE chal[k]]
    /\ db' = [c \in TotpCodes |-> IF db[c] < now THEN Nil ELSE db[c]]
    /\ UNCHANGED <<now, nChal, redis, mem, ans, mcHistory>>

\* A restart empties an instance's map and ends its requests.
Restart(i) ==
    /\ mem' = [mem EXCEPT ![i] = [c \in TotpCodes |-> Nil]]
    /\ ans' = [r \in McReqs |-> IF ans[r].inst = i THEN IdleAnswer ELSE ans[r]]
    /\ UNCHANGED <<now, chal, nChal, db, redis, mcHistory>>

\* A statement that throws ends its request.
McAbort(r) ==
    /\ ans[r].pc \in {"create", "discard", "claim"}
    /\ McFinish(r)
    /\ UNCHANGED <<now, chal, nChal, stores, mcHistory>>

Tick ==
    /\ now < MaxTime
    /\ now' = now + 1
    /\ UNCHANGED <<chal, nChal, stores, ans, mcHistory>>

McStep(r) ==
    \/ CreateCount(r) \/ CreateChallenge(r)
    \/ \E k \in Challenges, i \in Instances, c \in TotpCodes \cup {Nil} : Reserve(r, k, i, c)
    \/ Discard(r) \/ ReadBack(r)
    \/ \E up \in BOOLEAN : CheckCache(r, up) \/ CheckDb(r, up) \/ MarkCache(r, up)
    \/ \E ok \in BOOLEAN : MarkDb(r, ok)
    \/ CheckDbFails(r) \/ Claim(r) \/ McAbort(r)

McNext ==
    \/ \E r \in McReqs : McStep(r)
    \/ \E i \in Instances : Restart(i)
    \/ McCleanup \/ Tick

McSpec == McInit /\ [][McNext]_mcVars

-----------------------------------------------------------------------------
(* Properties. *)

AnswerType == [pc : {"idle", "create", "discard", "read", "cache", "db", "mark",
                  "mark_cache", "claim"},
            inst : Instances, chal : Challenges \cup {Nil}, code : TotpCodes \cup {Nil},
            expiresAt : Nat, late : BOOLEAN]

\* Rows, stores and requests have their shapes; attempts never passes its maximum.
McTypeOK ==
    /\ now \in Nat
    /\ chal \in [Challenges -> [live : BOOLEAN, attempts : 0..MaxAttempts, createdAt : Nat]]
    /\ nChal \in 0..NChallenges
    /\ db \in [TotpCodes -> Nat] /\ redis \in [TotpCodes -> Nat]
    /\ mem \in [Instances -> [TotpCodes -> Nat]]
    /\ ans \in [McReqs -> AnswerType]
    /\ spent \in [Challenges -> Nat] /\ completed \in [Challenges -> Nat]
    /\ marked \in SUBSET TotpCodes /\ failed \in SUBSET TotpCodes

(* However answers race, at most MaxAttempts of them are examined for one   *)
(* challenge ("a read-then-write counter would let parallel requests all    *)
(* read the same count"), also when the challenge is dropped meanwhile.     *)
AttemptBudget == \A k \in Challenges : spent[k] <= MaxAttempts

(* One challenge completes at most one sign-in, also when the same correct  *)
(* code is submitted twice at once (consumeMfaChallenge).                   *)
OneSignIn == \A k \in Challenges : completed[k] <= 1

(* Replay protection in sequence: once a verification of a code has run to  *)
(* its end, no request that starts afterwards gets that code accepted, on   *)
(* any instance, with Redis up or down, before or after a restart or a      *)
(* cleanup, unless a statement on used_totp_codes failed.                   *)
NoReplay ==
    \A r \in McReqs :
        ans[r].late /\ ans[r].pc \in {"mark", "mark_cache", "claim"} => ans[r].code \in failed
=============================================================================
