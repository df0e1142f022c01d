----------------------------- MODULE BruteForce -----------------------------
(***************************************************************************)
(* Brute-force protection of one account (BruteForceService): failed       *)
(* passwords, authenticator codes and passkeys are logged, too many within *)
(* the reset time lock the account, many lockouts disable it for good.     *)
(* Sign-ins (AuthService, LoginService) read the user row, check the lock, *)
(* verify the password and then record a failure or clear the record.      *)
(*                                                                         *)
(* One action is one database statement or one $transaction.               *)
(***************************************************************************)
EXTENDS Integers, FiniteSets

CONSTANTS
    Reqs,            \* sign-in requests that may be in flight at the same time
    AdminReqs,       \* administrators' requests: unlock, password reset
    MaxFailures,     \* max(realm.maxLoginFailures, 1)
    ResetTime,       \* max(realm.failureResetTime, 1)
    LockoutDuration, \* realm.lockoutDuration
    PermanentAfter,  \* realm.permanentLockoutAfter, 0 = never
    Retention,       \* cleanupOldFailures keeps rows this long (24 h)
    NFailures,       \* bound: failures recorded in a behaviour
    MaxTime          \* bound: last clock value

ASSUME BruteForceAssumption ==
    /\ MaxFailures \in Nat \ {0} /\ ResetTime \in Nat \ {0} /\ LockoutDuration \in Nat
    /\ PermanentAfter \in Nat /\ Retention \in Nat /\ NFailures \in Nat /\ MaxTime \in Nat
    /\ Reqs \cap AdminReqs = {}
    /\ IsFiniteSet(Reqs)

Factors    == {"totp", "webauthn"}  \* kinds of failure beside the password
Kinds      == {"password"} \cup Factors
FailureIds == 1..NFailures
Forever    == MaxTime + LockoutDuration + 1   \* 2099-12-31

VARIABLES
    now,
    fails,    \* failure rows of the three tables
    nFail,
    until,    \* user.lockedUntil, 0 for null
    enabled,  \* user.enabled
    req,      \* per request: program counter, kind of failure, and
              \* whether the account was locked for good when it started
    perm,     \* history: locked for good and not unlocked since
    extra     \* history: wrong passwords recorded while the account was locked

vars == <<now, fails, nFail, until, enabled, req, perm, extra>>
user    == <<until, enabled>>
history == <<perm, extra>>

All     == Reqs \cup AdminReqs
NoRow   == [kind |-> "password", at |-> 0, live |-> FALSE]
IdleReq == [pc |-> "idle", kind |-> "password", barred |-> FALSE]

Init ==
    /\ now = 0
    /\ fails = [i \in FailureIds |-> NoRow] /\ nFail = 0
    /\ until = 0 /\ enabled = TRUE
    /\ req = [r \in All |-> IdleReq]
    /\ perm = FALSE /\ extra = 0

Rows(k)   == {i \in FailureIds : fails[i].live /\ fails[i].kind = k}
Recent(k) == {i \in Rows(k) : fails[i].at >= now - ResetTime}
Locked    == until > now

Goto(r, label) == req' = [req EXCEPT ![r].pc = label]
Finish(r)      == req' = [req EXCEPT ![r] = IdleReq]

InsertFailure(k) ==
    /\ nFail < NFailures
    /\ nFail' = nFail + 1
    /\ fails' = [fails EXCEPT ![nFail + 1] = [kind |-> k, at |-> now, live |-> TRUE]]

DeleteFailures(S) ==
    fails' = [i \in FailureIds |-> IF i \in S THEN [fails[i] EXCEPT !.live = FALSE]
                                              ELSE fails[i]]

-----------------------------------------------------------------------------
(* Sign-in with a password. *)

\* Mutant: the lock is not looked at.
CheckUnlocked(r) ==
    /\ req[r].pc = "idle" /\ enabled
    /\ req' = [req EXCEPT ![r] = [IdleReq EXCEPT !.pc = "verify", !.barred = perm]]
    /\ UNCHANGED <<now, fails, nFail, user, history>>

\* The user row is read; a disabled or locked account is refused.
Check(r) ==
    /\ req[r].pc = "idle" /\ enabled /\ ~Locked
    /\ req' = [req EXCEPT ![r] = [IdleReq EXCEPT !.pc = "verify", !.barred = perm]]
    /\ UNCHANGED <<now, fails, nFail, user, history>>

\* The failures of the window and all failures, the new one included.
WindowCount == Cardinality(Recent("password")) + 1
TotalCount  == Cardinality(Rows("password")) + 1

\* Mutant: the permanent lock sets lockedUntil only.
RecordFailureKeepsEnabled(r) ==
    /\ req[r].pc = "verify"
    /\ InsertFailure("password")
    /\ extra' = IF Locked THEN extra + 1 ELSE 0
    /\ \/ /\ WindowCount < MaxFailures
          /\ UNCHANGED <<user, perm>>
       \/ /\ WindowCount >= MaxFailures
          /\ IF PermanentAfter > 0 /\ TotalCount \div MaxFailures >= PermanentAfter
               THEN /\ until' = Forever /\ perm' = TRUE
                    /\ UNCHANGED enabled
               ELSE /\ until' = now + LockoutDuration
                    /\ UNCHANGED <<enabled, perm>>
    /\ Finish(r)
    /\ UNCHANGED now

\* recordFailure: one serializable transaction inserts, counts and locks.
RecordFailure(r) ==
    /\ req[r].pc = "verify"
    /\ InsertFailure("password")
    /\ extra' = IF Locked THEN extra + 1 ELSE 0
    /\ \/ /\ WindowCount < MaxFailures
          /\ UNCHANGED <<user, perm>>
       \/ /\ WindowCount >= MaxFailures
          /\ IF PermanentAfter > 0 /\ TotalCount \div MaxFailures >= PermanentAfter
               THEN /\ until' = Forever /\ enabled' = FALSE /\ perm' = TRUE
               ELSE /\ until' = now + LockoutDuration
                    /\ UNCHANGED <<enabled, perm>>
    /\ Finish(r)
    /\ UNCHANGED now

\* The password fits: resetFailures, two statements.
PasswordOk(r) ==
    /\ req[r].pc = "verify"
    /\ Goto(r, "clear")
    /\ UNCHANGED <<now, fails, nFail, user, history>>

\* UsersService.resetPassword ends with the same resetFailures.
AdminResetPassword(r) ==
    /\ req[r].pc = "idle"
    /\ req' = [req EXCEPT ![r] = [IdleReq EXCEPT !.pc = "clear"]]
    /\ UNCHANGED <<now, fails, nFail, user, history>>

ClearFailures(r) ==
    /\ req[r].pc = "clear"
    /\ DeleteFailures(Rows("password"))
    /\ Goto(r, "clear_lock")
    /\ UNCHANGED <<now, nFail, user, perm, extra>>

\* Whatever lock is there by now is lifted; enabled is not touched.
ClearLock(r) ==
    /\ req[r].pc = "clear_lock"
    /\ until' = 0
    /\ extra' = 0
    /\ Finish(r)
    /\ UNCHANGED <<now, fails, nFail, enabled, perm>>

-----------------------------------------------------------------------------
(* Failed authenticator codes and passkeys: recordTotpFailure and           *)
(* recordWebAuthnFailure, three statements.  The login page refuses a code  *)
(* (checkTotpRateLimit) while enough recent failures are stored; that query *)
(* and the insert of the failure are one step here, so parallel codes that  *)
(* all see room are not told apart from codes one after the other.          *)

FactorFailure(r, k) ==
    /\ req[r].pc = "idle"
    /\ k = "totp" => Cardinality(Recent(k)) < MaxFailures
    /\ InsertFailure(k)
    /\ req' = [req EXCEPT ![r] = [IdleReq EXCEPT !.pc = "count", !.kind = k]]
    /\ UNCHANGED <<now, user, perm, extra>>

FactorCount(r) ==
    /\ req[r].pc = "count"
    /\ IF Cardinality(Recent(req[r].kind)) >= MaxFailures THEN Goto(r, "lock") ELSE Finish(r)
    /\ UNCHANGED <<now, fails, nFail, user, history>>

FactorLock(r) ==
    /\ req[r].pc = "lock"
    /\ until' = now + LockoutDuration
    /\ extra' = IF Locked THEN extra ELSE 0
    /\ Finish(r)
    /\ UNCHANGED <<now, fails, nFail, enabled, perm>>

\* A correct authenticator code: resetTotpFailures.  Passkey failures stay.
FactorOk ==
    /\ DeleteFailures(Rows("totp"))
    /\ UNCHANGED <<now, nFail, user, req, history>>

-----------------------------------------------------------------------------
\* unlockUser: the user row first, then the password failures.
Unlock(r) ==
    /\ req[r].pc = "idle"
    /\ until' = 0 /\ enabled' = TRUE
    /\ perm' = FALSE /\ extra' = 0
    /\ req' = [req EXCEPT ![r] = [IdleReq EXCEPT !.pc = "forget"]]
    /\ UNCHANGED <<now, fails, nFail>>

Forget(r) ==
    /\ req[r].pc = "forget"
    /\ DeleteFailures(Rows("password"))
    /\ Finish(r)
    /\ UNCHANGED <<now, nFail, user, perm, extra>>

\* cleanupOldFailures
Cleanup ==
    /\ DeleteFailures({i \in FailureIds : fails[i].live /\ fails[i].at < now - Retention})
    /\ UNCHANGED <<now, nFail, user, req, history>>

\* A failed statement or a server crash ends a request between two steps.
Abort(r) ==
    /\ req[r].pc # "idle"
    /\ Finish(r)
    /\ UNCHANGED <<now, fails, nFail, user, history>>

Tick ==
    /\ now < MaxTime
    /\ now' = now + 1
    /\ UNCHANGED <<fails, nFail, user, req, history>>

Login(r) ==
    \/ Check(r) \/ RecordFailure(r) \/ PasswordOk(r)
    \/ \E k \in Factors : FactorFailure(r, k)
    \/ FactorCount(r) \/ FactorLock(r)

Next ==
    \/ \E r \in Reqs : Login(r)
    \/ \E r \in AdminReqs : AdminResetPassword(r) \/ Unlock(r) \/ Forget(r)
    \/ \E r \in All : ClearFailures(r) \/ ClearLock(r) \/ Abort(r)
    \/ FactorOk \/ Cleanup \/ Tick

Spec == Init /\ [][Next]_vars

-----------------------------------------------------------------------------
(* Properties. *)

\* The failure rows, the user row and the requests have their shapes.
TypeOK ==
    /\ now \in Nat
    /\ fails \in [FailureIds -> [kind : Kinds, at : Nat, live : BOOLEAN]]
    /\ nFail \in 0..NFailures
    /\ until \in Nat /\ enabled \in BOOLEAN
    /\ req \in [All -> [pc : {"idle", "verify", "clear", "clear_lock", "count", "lock", "forget"},
                        kind : Kinds, barred : BOOLEAN]]
    /\ perm \in BOOLEAN /\ extra \in Nat
    /\ \A i \in FailureIds : fails[i].live => i <= nFail

(* A lock admits no more guesses than were already in flight: at most       *)
(* Cardinality(Reqs) - 1 wrong passwords are examined against an account    *)
(* that is locked, until the lock ends (checkLocked reads the user row once,*)
(* before the password is verified).                                        *)
ExtraGuessesBounded == Locked => extra <= Cardinality(Reqs) - 1

(* After a permanent lockout no request that starts before an unlock gets   *)
(* as far as the password check, even when a late authenticator failure     *)
(* overwrites the 2099 lock or a late success or a password reset lifts it. *)
PermanentLockHolds == \A r \in Reqs : req[r].barred => req[r].pc = "idle"
=============================================================================
