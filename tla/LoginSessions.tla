---------------------------- MODULE LoginSessions ----------------------------
(***************************************************************************)
(* The SSO login sessions of one user and their step-up records            *)
(* (LoginService, LoginFlowService, StepUpService and their callers): a    *)
(* sign-in makes a session at the level it proved and gets a code; the     *)
(* session's cookie gets further codes without a sign-in, raises the level *)
(* for a while by a step-up, and lets an administrator do what needs a     *)
(* recent second factor.                                                   *)
(*                                                                         *)
(* An authentication level (acr) is its strength: 1 password, 2 second     *)
(* factor, 3 passkey; 0 is no requirement, or one with no known name.  One *)
(* action is one database statement.  A request ends at "issued" with a    *)
(* code or at "granted", and its slot then serves another one.             *)
(***************************************************************************)
EXTENDS Integers, FiniteSets

CONSTANTS
    LsReqs,    \* requests in flight
    NSso,      \* bound: login sessions created in a behaviour
    MaxSso,    \* realm.maxSessionsPerUser, 0 if there is no limit
    Life,      \* realm.refreshTokenLifespan, the lifetime of a session
    Cache,     \* client.stepUpCacheDuration, the lifetime of a step-up
    NSteps,    \* bound: step-ups recorded in a behaviour
    LsMaxTime  \* bound: last clock value

ASSUME LoginSessionsAssumption ==
    /\ IsFiniteSet(LsReqs) /\ NSso \in Nat /\ MaxSso \in Nat /\ NSteps \in Nat
    /\ Life \in Nat /\ Cache \in Nat /\ LsMaxTime \in Nat

SsoIds    == 1..NSso   \* in the order of their createdAt
LsLevels  == 1..3
LsMfa     == 2

VARIABLES
    lsNow,
    sso,          \* the login_sessions rows
    nSso,
    steps,        \* the step_up_records rows
    earned,       \* history: the records of factors the session's own user proved
    userOn,       \* user.enabled
    mfaRequired,  \* realm.mfaRequired, as the cache of realms serves it
    lr            \* per request: program counter and local variables

lsVars == <<lsNow, sso, nSso, steps, earned, userOn, mfaRequired, lr>>

(* sid is the session of the cookie (0 for none) or the one made, level the *)
(* level proved or found, need the one required, mfa the realm's setting    *)
(* when the request was received.  since, dead and on are history: when it  *)
(* was received, whether the session was over then, and whether the user    *)
(* has been enabled at any moment from then on.                             *)
IdleLs == [pc |-> "idle", kind |-> "none", sid |-> 0, level |-> 0, need |-> 0, mfa |-> FALSE,
           victims |-> {}, own |-> FALSE, since |-> 0, dead |-> FALSE, on |-> FALSE]

NoSso == [status |-> "none", acr |-> 0, expiresAt |-> 0]

LsInit ==
    /\ lsNow = 0
    /\ sso = [s \in SsoIds |-> NoSso] /\ nSso = 0
    /\ steps = {} /\ earned = {}
    /\ userOn = TRUE /\ mfaRequired \in BOOLEAN
    /\ lr = [r \in LsReqs |-> IdleLs]

Ended == {"idle", "issued", "granted"}
LsGoto(r, label) == lr' = [lr EXCEPT ![r].pc = label]
LsFinish(r)      == lr' = [lr EXCEPT ![r] = IdleLs]

Without(S)   == [s \in SsoIds |-> IF s \in S /\ sso[s].status = "live"
                                    THEN [sso[s] EXCEPT !.status = "gone"] ELSE sso[s]]
Outdated(s)  == sso[s].status = "gone" \/ sso[s].expiresAt < lsNow
SsoActive    == {s \in SsoIds : sso[s].status = "live" /\ sso[s].expiresAt > lsNow}

-----------------------------------------------------------------------------
(* createLoginSession, after the sign-in proved its level, with the cookie  *)
(* of an earlier session or without; then the code, whose level is not      *)
(* compared with the one the client requires.                               *)

\* A password alone is enough where no second factor is required.
LsSignIn(r, level, need, cookie) ==
    /\ lr[r].pc \in Ended /\ (level < LsMfa => ~mfaRequired)
    /\ lr' = [lr EXCEPT ![r] = [IdleLs EXCEPT
                !.pc = IF cookie # 0 THEN "drop" ELSE IF MaxSso > 0 THEN "find" ELSE "create",
                !.kind = "login", !.sid = cookie, !.level = level, !.need = need]]
    /\ UNCHANGED <<lsNow, sso, nSso, steps, earned, userOn, mfaRequired>>

\* The earlier session goes, whether or not it was still there.
LsDrop(r) ==
    /\ lr[r].pc = "drop"
    /\ sso' = Without({lr[r].sid})
    /\ LsGoto(r, IF MaxSso > 0 THEN "find" ELSE "create")
    /\ UNCHANGED <<lsNow, nSso, steps, earned, userOn, mfaRequired>>

\* Mutant: slice(0, length - max) leaves no room for the new session.
OldestOffByOne(S) == {s \in S : Cardinality({x \in S : x <= s}) <= Cardinality(S) - MaxSso}

\* The oldest length - max + 1 sessions of S
Oldest(S) == {s \in S : Cardinality({x \in S : x <= s}) <= Cardinality(S) - MaxSso + 1}

LsFind(r) ==
    /\ lr[r].pc = "find"
    /\ lr' = [lr EXCEPT ![r].pc = IF Oldest(SsoActive) = {} THEN "create" ELSE "evict",
                        ![r].victims = Oldest(SsoActive)]
    /\ UNCHANGED <<lsNow, sso, nSso, steps, earned, userOn, mfaRequired>>

LsEvict(r) ==
    /\ lr[r].pc = "evict"
    /\ sso' = Without(lr[r].victims)
    /\ lr' = [lr EXCEPT ![r].pc = "create", ![r].victims = {}]
    /\ UNCHANGED <<lsNow, nSso, steps, earned, userOn, mfaRequired>>

LsCreate(r) ==
    /\ lr[r].pc = "create" /\ nSso < NSso
    /\ nSso' = nSso + 1
    /\ sso' = [sso EXCEPT ![nSso'] = [status |-> "live", acr |-> lr[r].level,
                                      expiresAt |-> lsNow + Life]]
    /\ lr' = [lr EXCEPT ![r].pc = "issue", ![r].sid = nSso']
    /\ UNCHANGED <<lsNow, steps, earned, userOn, mfaRequired>>

\* authorizeWithUser, at once or after the consent page, which keeps the level
LsIssue(r) ==
    /\ lr[r].pc = "issue"
    /\ LsGoto(r, "issued")
    /\ UNCHANGED <<lsNow, sso, nSso, steps, earned, userOn, mfaRequired>>

-----------------------------------------------------------------------------
(* The cookie of session s is used: at /authorize ("silent"), to step up to *)
(* the level needed ("stepup"), or by the administrator it belongs to, to   *)
(* remove a second factor or to unlock a user ("admin").                    *)

LsBegin(r, kind, s, need) ==
    /\ lr[r].pc \in Ended
    /\ lr' = [lr EXCEPT ![r] = [IdleLs EXCEPT
                !.pc = "validate", !.kind = kind, !.sid = s, !.need = need, !.mfa = mfaRequired,
                !.since = lsNow, !.dead = Outdated(s), !.on = userOn]]
    /\ UNCHANGED <<lsNow, sso, nSso, steps, earned, userOn, mfaRequired>>

\* validateLoginSession: the row and its user in one read
LsValidate(r) ==
    LET s == lr[r].sid IN
    /\ lr[r].pc = "validate"
    /\ IF Outdated(s) \/ ~userOn THEN LsFinish(r)
       ELSE LsGoto(r, IF lr[r].mfa /\ sso[s].acr < LsMfa THEN "mfa" ELSE "lookup")
    /\ UNCHANGED <<lsNow, sso, nSso, steps, earned, userOn, mfaRequired>>

\* Mutant: records that are over count until they are swept.
StepUpAnyAge(s, level) == \E p \in steps : p.sid = s /\ p.level >= level

\* A record of session s that is not over holds this level.
StepUp(s, level) == \E p \in steps : p.sid = s /\ p.level >= level /\ p.until > lsNow

\* sessionSatisfiesMfa, for a session signed in with a password
LsStepUps(r) ==
    /\ lr[r].pc = "mfa"
    /\ IF StepUp(lr[r].sid, LsMfa) THEN LsGoto(r, "lookup") ELSE LsFinish(r)
    /\ UNCHANGED <<lsNow, sso, nSso, steps, earned, userOn, mfaRequired>>

(* The caller reads the row once more, by the same token.  If it has gone,  *)
(* /authorize goes on at the level of a password and requires nothing.      *)
LsLookup(r) ==
    LET next == CASE lr[r].kind = "silent" -> "acr" [] lr[r].kind = "stepup" -> "factor"
                  [] OTHER -> "admin" IN
    /\ lr[r].pc = "lookup"
    /\ IF sso[lr[r].sid].status = "live" THEN LsGoto(r, next)
       ELSE IF lr[r].kind = "silent"
              THEN lr' = [lr EXCEPT ![r].pc = "issue", ![r].level = 1]
              ELSE LsFinish(r)
    /\ UNCHANGED <<lsNow, sso, nSso, steps, earned, userOn, mfaRequired>>

\* strongestAcr of the level signed in with and the records
Holds(s, level) == level = 1 \/ sso[s].acr >= level \/ StepUp(s, level)
SsoLevel(s) ==
    CHOOSE l \in LsLevels : Holds(s, l) /\ \A k \in LsLevels : Holds(s, k) => k <= l

\* getLoginSessionAcr; below the level required it redirects to the step-up.
LsAcr(r) ==
    LET level == SsoLevel(lr[r].sid) IN
    /\ lr[r].pc = "acr"
    /\ IF level >= lr[r].need THEN lr' = [lr EXCEPT ![r].pc = "issue", ![r].level = level]
                              ELSE LsFinish(r)
    /\ UNCHANGED <<lsNow, sso, nSso, steps, earned, userOn, mfaRequired>>

\* getSessionAcr: only the records count.
LsAdmin(r) ==
    /\ lr[r].pc = "admin"
    /\ IF StepUp(lr[r].sid, LsMfa) THEN LsGoto(r, "granted") ELSE LsFinish(r)
    /\ UNCHANGED <<lsNow, sso, nSso, steps, earned, userOn, mfaRequired>>

-----------------------------------------------------------------------------
(* verify of the step-up controller: the password, the second factor or the *)
(* passkey was proved, by the session's own user or by another one.         *)

\* Mutant: the challenge's user is not compared with the session's.
LsFactorAnyone(r, own) ==
    /\ lr[r].pc = "factor"
    /\ lr' = [lr EXCEPT ![r].pc = "record", ![r].own = own]
    /\ UNCHANGED <<lsNow, sso, nSso, steps, earned, userOn, mfaRequired>>

LsFactor(r, own) ==
    /\ lr[r].pc = "factor"
    /\ IF own THEN lr' = [lr EXCEPT ![r].pc = "record", ![r].own = own] ELSE LsFinish(r)
    /\ UNCHANGED <<lsNow, sso, nSso, steps, earned, userOn, mfaRequired>>

\* recordStepUp: nothing ties the record to a row that may have gone.
LsRecord(r) ==
    LET p == [sid |-> lr[r].sid, level |-> lr[r].need, until |-> lsNow + Cache] IN
    /\ lr[r].pc = "record" /\ Cardinality(steps \cup earned) < NSteps
    /\ steps' = steps \cup {p}
    /\ earned' = IF lr[r].own THEN earned \cup {p} ELSE earned
    /\ LsFinish(r)
    /\ UNCHANGED <<lsNow, sso, nSso, userOn, mfaRequired>>

-----------------------------------------------------------------------------
\* An administrator or a logout ends one session, or an administrator all.
LsRevoke(S) ==
    /\ sso' = Without(S)
    /\ UNCHANGED <<lsNow, nSso, steps, earned, userOn, mfaRequired, lr>>

\* The hourly sweep of expired sessions
LsSweep ==
    /\ sso' = Without({s \in SsoIds : sso[s].expiresAt < lsNow})
    /\ UNCHANGED <<lsNow, nSso, steps, earned, userOn, mfaRequired, lr>>

\* The sweep of expired records, every 15 minutes
LsSweepSteps ==
    /\ steps' = {p \in steps : p.until >= lsNow}
    /\ UNCHANGED <<lsNow, sso, nSso, earned, userOn, mfaRequired, lr>>

\* An administrator disables or enables the user.
LsSetUser ==
    /\ userOn' = ~userOn
    /\ lr' = [r \in LsReqs |-> IF lr[r].pc \in Ended THEN lr[r]
                               ELSE [lr[r] EXCEPT !.on = @ \/ userOn']]
    /\ UNCHANGED <<lsNow, sso, nSso, steps, earned, mfaRequired>>

\* An administrator changed the realm's setting, or an old one is cached again.
LsSetMfa ==
    /\ mfaRequired' = ~mfaRequired
    /\ UNCHANGED <<lsNow, sso, nSso, steps, earned, userOn, lr>>

\* A failed statement, a crash, or a prompt parameter that ends /authorize early
LsAbort(r) ==
    /\ lr[r].pc \notin Ended
    /\ LsFinish(r)
    /\ UNCHANGED <<lsNow, sso, nSso, steps, earned, userOn, mfaRequired>>

LsTick ==
    /\ lsNow < LsMaxTime
    /\ lsNow' = lsNow + 1
    /\ UNCHANGED <<sso, nSso, steps, earned, userOn, mfaRequired, lr>>

LsStep(r) ==
    \/ \E level \in LsLevels, need \in 0..3, cookie \in 0..nSso : LsSignIn(r, level, need, cookie)
    \/ LsDrop(r) \/ LsFind(r) \/ LsEvict(r) \/ LsCreate(r) \/ LsIssue(r)
    \/ \E s \in 1..nSso : \/ \E need \in 0..3 : LsBegin(r, "silent", s, need)
                          \/ \E need \in LsLevels : LsBegin(r, "stepup", s, need)
                          \/ LsBegin(r, "admin", s, 0)
    \/ LsValidate(r) \/ LsStepUps(r) \/ LsLookup(r) \/ LsAcr(r) \/ LsAdmin(r)
    \/ \E own \in BOOLEAN : LsFactor(r, own)
    \/ LsRecord(r) \/ LsAbort(r)

LsNext ==
    \/ \E r \in LsReqs : LsStep(r)
    \/ \E s \in 1..nSso : LsRevoke({s})
    \/ LsRevoke(SsoIds) \/ LsSweep \/ LsSweepSteps \/ LsSetUser \/ LsSetMfa \/ LsTick

LsSpec == LsInit /\ [][LsNext]_lsVars

-----------------------------------------------------------------------------
\* The session's own user proved this level in a step-up that was not over
\* when the request was received.
Proved(r, level) ==
    \E p \in earned : p.sid = lr[r].sid /\ p.level >= level /\ p.until > lr[r].since

(* Concurrent sign-ins each evict before they create, so together they may  *)
(* exceed maxSessionsPerUser, but by the other requests in flight at most   *)
(* (login.service.ts createLoginSession).                                   *)
SsoOvershootBounded ==
    MaxSso > 0 => Cardinality(SsoActive) <= MaxSso + Cardinality(LsReqs) - 1

(* A code that silent SSO issues is backed by what the session's user       *)
(* proved: the session was not over and the user not disabled throughout    *)
(* the request; a level above the sign-in's comes from a step-up of the     *)
(* session's own user that was not over when the request came; and so does  *)
(* the second factor of a realm that requires one, if the sign-in had none. *)
(* The level is below the one required only if the session was deleted      *)
(* between its validation and the reading of its level.                     *)
SilentCodesProven ==
    \A r \in LsReqs :
        lr[r].pc = "issued" /\ lr[r].kind = "silent" =>
            /\ ~lr[r].dead /\ lr[r].on
            /\ lr[r].level > 1 /\ lr[r].level > sso[lr[r].sid].acr => Proved(r, lr[r].level)
            /\ lr[r].mfa /\ sso[lr[r].sid].acr < LsMfa => Proved(r, LsMfa)
            /\ lr[r].level < lr[r].need => sso[lr[r].sid].status = "gone"

(* What needs a recent second factor is done only with a session that was   *)
(* not over, of an enabled user, who proved a second factor in a step-up    *)
(* that was not over either: the level signed in with does not count.       *)
AdminNeedsRecentFactor ==
    \A r \in LsReqs :
        lr[r].pc = "granted" => ~lr[r].dead /\ lr[r].on /\ Proved(r, LsMfa)

(* Minimum Authentication Context Class Reference required before issuing a *)
(* code for this client (create-client.dto.ts, requiredAcr): no code is     *)
(* issued below it.  A sign-in does not compare its level with it.          *)
RequiredAcrHeld ==
    \A r \in LsReqs : lr[r].pc = "issued" => lr[r].level >= lr[r].need
=============================================================================
