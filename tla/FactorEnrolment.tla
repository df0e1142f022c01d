-------------------------- MODULE FactorEnrolment --------------------------
(***************************************************************************)
(* One user's second factors: setting up the authenticator app and the SMS *)
(* phone, the recovery codes that come with the first factor and go with   *)
(* the last one (MfaService, AccountController, MfaController), and the    *)
(* sign-in that a realm requiring MFA pauses until a factor is enrolled    *)
(* (LoginFlowService, LoginController).                                    *)
(*                                                                         *)
(* One action is one database statement.  An enrolment token expires by an *)
(* action of its own instead of a clock.  Secrets, codes and tokens are    *)
(* numbered in the order they are generated.                               *)
(***************************************************************************)
EXTENDS Integers, FiniteSets

CONSTANTS
    Reqs,        \* browser requests of the user that may be in flight at once
    AdminReqs,   \* requests of administrators
    MfaRequired, \* realm.mfaRequired
    SetSize,     \* recovery codes in a set (10 in generateRecoveryCodes)
    NSecrets,    \* bound: authenticator secrets generated
    NSets,       \* bound: recovery code sets generated
    NTokens      \* bound: enrolment tokens handed out

ASSUME EnrolmentAssumption ==
    /\ MfaRequired \in BOOLEAN
    /\ SetSize \in Nat \ {0} /\ NSecrets \in Nat /\ NSets \in Nat /\ NTokens \in Nat

Factors == {"totp", "sms"}
SetIds  == 1..NSets
Codes   == SetIds \X (1..SetSize)    \* <<set, position in the set>>
Tokens  == 1..NTokens
None    == 0

VARIABLES
    secret,   \* the user's totp credential: its id, None when there is none
    active,   \* is it verified?
    phone,    \* is an SMS phone enrolled?
    nSecret,
    codes,    \* recovery_codes: "none", "unused", "used" or "deleted"
    nSet,
    enrol,    \* mfa_enrollment rows: exists, verified, expired
    nTok,
    req,      \* per request: program counter and local variables
    proven,   \* history: secrets a code was checked against
    uses,     \* history: times a recovery code was accepted
    enrolled, \* history: tokens through which a factor was activated
    signins   \* history: sign-ins completed through a token

vars == <<secret, active, phone, nSecret, codes, nSet, enrol, nTok, req,
          proven, uses, enrolled, signins>>
creds   == <<secret, active, phone, nSecret>>
history == <<proven, uses, enrolled, signins>>

All     == Reqs \cup AdminReqs
IdleReq == [pc |-> "idle", tok |-> None, secret |-> None, set |-> None, made |-> 0,
            drop |-> {}]

Init ==
    /\ secret = None /\ active = FALSE /\ phone = FALSE /\ nSecret = 0
    /\ codes = [c \in Codes |-> "none"] /\ nSet = 0
    /\ enrol = [k \in Tokens |-> [live |-> FALSE, verified |-> FALSE, expired |-> FALSE]]
    /\ nTok = 0
    /\ req = [r \in All |-> IdleReq]
    /\ proven = {} /\ enrolled = {}
    /\ uses = [c \in Codes |-> 0]
    /\ signins = [k \in Tokens |-> 0]

\* getEnrolledFactors: the verified credentials.
EnrolledFactors == {f \in Factors : IF f = "totp" THEN active ELSE phone}

Unused == {c \in Codes : codes[c] = "unused"}

Goto(r, label) == req' = [req EXCEPT ![r].pc = label]
Finish(r)      == req' = [req EXCEPT ![r] = IdleReq]

\* getTotpSetupUser: a signed-in user (None) or one holding a live enrolment token.
SetupUser(k) == k = None \/ (k \in Tokens /\ enrol[k].live /\ ~enrol[k].expired)

-----------------------------------------------------------------------------
(* The paused sign-in: continueAfterPrimaryAuth hands out an enrolment      *)
(* token when the realm requires MFA and the user has no factor.            *)
StartEnrolment ==
    /\ MfaRequired /\ EnrolledFactors = {}
    /\ nTok < NTokens
    /\ nTok' = nTok + 1
    /\ enrol' = [enrol EXCEPT ![nTok + 1] =
                   [live |-> TRUE, verified |-> FALSE, expired |-> FALSE]]
    /\ UNCHANGED <<creds, codes, nSet, req, history>>

Expire(k) ==
    /\ enrol[k].live /\ ~enrol[k].expired
    /\ enrol' = [enrol EXCEPT ![k].expired = TRUE]
    /\ UNCHANGED <<creds, codes, nSet, nTok, req, history>>

\* cleanupExpiredActions
Cleanup ==
    /\ enrol' = [k \in Tokens |-> IF enrol[k].expired THEN [enrol[k] EXCEPT !.live = FALSE]
                                                      ELSE enrol[k]]
    /\ UNCHANGED <<creds, codes, nSet, nTok, req, history>>

-----------------------------------------------------------------------------
(* Authenticator app: GET totp-setup replaces an unverified secret, POST    *)
(* totp-setup activates the one it read if the code fits it.                *)

SetupRead(r, k) ==
    /\ req[r].pc = "idle" /\ SetupUser(k) /\ ~active
    /\ Goto(r, "set_delete")
    /\ UNCHANGED <<creds, codes, nSet, enrol, nTok, history>>

SetupDelete(r) ==
    /\ req[r].pc = "set_delete"
    /\ secret' = IF active THEN secret ELSE None
    /\ Goto(r, "set_create")
    /\ UNCHANGED <<active, phone, nSecret, codes, nSet, enrol, nTok, history>>

\* @@unique([userId, type]) rejects a second credential.
SetupCreate(r) ==
    /\ req[r].pc = "set_create"
    /\ nSecret < NSecrets
    /\ nSecret' = nSecret + 1
    /\ secret' = IF secret = None THEN nSecret + 1 ELSE secret
    /\ Finish(r)
    /\ UNCHANGED <<active, phone, codes, nSet, enrol, nTok, history>>

\* The typed code fits the secret that was read; other codes change nothing.
ActivateRead(r, k) ==
    /\ req[r].pc = "idle" /\ SetupUser(k)
    /\ secret # None /\ ~active
    /\ proven' = proven \cup {secret}
    /\ req' = [req EXCEPT ![r] = [IdleReq EXCEPT !.pc = "activate", !.tok = k,
                                                 !.secret = secret]]
    /\ UNCHANGED <<creds, codes, nSet, enrol, nTok, uses, enrolled, signins>>

\* Mutant: the update names the user and the type, not the row that was read.
ActivateWriteAny(r) ==
    /\ req[r].pc = "activate"
    /\ IF secret # None
         THEN /\ active' = TRUE
              /\ enrolled' = enrolled \cup {req[r].tok}
              /\ Goto(r, "count")
         ELSE Finish(r) /\ UNCHANGED <<active, enrolled>>
    /\ UNCHANGED <<secret, phone, nSecret, codes, nSet, enrol, nTok, proven, uses, signins>>

\* update by the credential's id; it throws when that row has been replaced.
ActivateWrite(r) ==
    /\ req[r].pc = "activate"
    /\ IF secret = req[r].secret
         THEN /\ active' = TRUE
              /\ enrolled' = enrolled \cup {req[r].tok}
              /\ Goto(r, "count")
         ELSE Finish(r) /\ UNCHANGED <<active, enrolled>>
    /\ UNCHANGED <<secret, phone, nSecret, codes, nSet, enrol, nTok, proven, uses, signins>>

-----------------------------------------------------------------------------
\* POST sms-setup/verify with the right code: saveEnrolledPhone upserts the phone.
SmsActivate(r, k) ==
    /\ req[r].pc = "idle" /\ SetupUser(k)
    /\ phone' = TRUE
    /\ enrolled' = enrolled \cup {k}
    /\ req' = [req EXCEPT ![r] = [IdleReq EXCEPT !.pc = "count", !.tok = k]]
    /\ UNCHANGED <<secret, active, nSecret, codes, nSet, enrol, nTok, proven, uses, signins>>

-----------------------------------------------------------------------------
(* ensureRecoveryCodes and generateRecoveryCodes, after either activation.  *)

EnsureCount(r) ==
    /\ req[r].pc = "count"
    /\ Goto(r, IF Unused # {} THEN "mark" ELSE "gen_delete")
    /\ UNCHANGED <<creds, codes, nSet, enrol, nTok, history>>

DeleteCodes == codes' = [c \in Codes |-> IF codes[c] = "none" THEN "none" ELSE "deleted"]

GenDelete(r) ==
    /\ req[r].pc = "gen_delete"
    /\ nSet < NSets
    /\ nSet' = nSet + 1
    /\ DeleteCodes
    /\ req' = [req EXCEPT ![r].pc = "gen_create", ![r].set = nSet + 1]
    /\ UNCHANGED <<creds, enrol, nTok, history>>

\* One INSERT per code.
GenCreate(r) ==
    LET n == req[r].made + 1 IN
    /\ req[r].pc = "gen_create"
    /\ codes' = [codes EXCEPT ![<<req[r].set, n>>] = "unused"]
    /\ req' = [req EXCEPT ![r].made = n,
                 ![r].pc = IF n = SetSize THEN "mark" ELSE "gen_create"]
    /\ UNCHANGED <<creds, nSet, enrol, nTok, history>>

(* markMfaEnrollmentVerified reads the row and writes it back with verified  *)
(* set; expiry is not looked at, a row that is gone is left gone.           *)
Mark(r) ==
    LET k == req[r].tok IN
    /\ req[r].pc = "mark"
    /\ enrol' = IF k # None /\ enrol[k].live THEN [enrol EXCEPT ![k].verified = TRUE]
                                             ELSE enrol
    /\ Finish(r)
    /\ UNCHANGED <<creds, codes, nSet, nTok, history>>

-----------------------------------------------------------------------------
(* POST mfa-enrollment/continue: the delete is the claim. *)

\* Mutant: the enrolment is read, not deleted, when it is consumed.
ContinueClaimKeeps(r, k) ==
    /\ req[r].pc = "idle" /\ enrol[k].live
    /\ IF enrol[k].verified /\ ~enrol[k].expired
         THEN req' = [req EXCEPT ![r] = [IdleReq EXCEPT !.pc = "signin", !.tok = k]]
         ELSE UNCHANGED req
    /\ UNCHANGED <<creds, codes, nSet, nTok, enrol, history>>

\* Mutant: an enrolment nothing was activated through is accepted too.
ContinueClaimUnverified(r, k) ==
    /\ req[r].pc = "idle" /\ enrol[k].live
    /\ enrol' = [enrol EXCEPT ![k].live = FALSE]
    /\ IF ~enrol[k].expired
         THEN req' = [req EXCEPT ![r] = [IdleReq EXCEPT !.pc = "signin", !.tok = k]]
         ELSE UNCHANGED req
    /\ UNCHANGED <<creds, codes, nSet, nTok, history>>

ContinueClaim(r, k) ==
    /\ req[r].pc = "idle" /\ enrol[k].live
    /\ enrol' = [enrol EXCEPT ![k].live = FALSE]
    /\ IF enrol[k].verified /\ ~enrol[k].expired
         THEN req' = [req EXCEPT ![r] = [IdleReq EXCEPT !.pc = "signin", !.tok = k]]
         ELSE UNCHANGED req
    /\ UNCHANGED <<creds, codes, nSet, nTok, history>>

\* The user must still have a factor; then completeLogin at the MFA level.
ContinueSignIn(r) ==
    /\ req[r].pc = "signin"
    /\ signins' = IF EnrolledFactors # {} THEN [signins EXCEPT ![req[r].tok] = @ + 1]
                                          ELSE signins
    /\ Finish(r)
    /\ UNCHANGED <<creds, codes, nSet, enrol, nTok, proven, uses, enrolled>>

-----------------------------------------------------------------------------
(* Removing factors. *)

\* handleTotpDisable and handleSmsDisable, with the right password.
SelfDisableRead(r, f) ==
    /\ req[r].pc = "idle" /\ r \in Reqs
    /\ MfaRequired => EnrolledFactors \ {f} # {}
    /\ req' = [req EXCEPT ![r] = [IdleReq EXCEPT !.pc = "drop", !.drop = {f}]]
    /\ UNCHANGED <<creds, codes, nSet, enrol, nTok, history>>

\* resetTotp, resetSms ({f}) and resetMfa (all factors) ask no such question.
AdminDisable(r, F) ==
    /\ req[r].pc = "idle" /\ r \in AdminReqs
    /\ req' = [req EXCEPT ![r] = [IdleReq EXCEPT !.pc = "drop", !.drop = F]]
    /\ UNCHANGED <<creds, codes, nSet, enrol, nTok, history>>

\* deleteMany on user_credentials; all factors: the codes go unconditionally.
Drop(r) ==
    LET F == req[r].drop IN
    /\ req[r].pc = "drop"
    /\ secret' = IF "totp" \in F THEN None ELSE secret
    /\ active' = (active /\ "totp" \notin F)
    /\ phone' = (phone /\ "sms" \notin F)
    /\ Goto(r, IF F = Factors THEN "wipe" ELSE "factors")
    /\ UNCHANGED <<nSecret, codes, nSet, enrol, nTok, history>>

\* deleteRecoveryCodesIfNoFactorLeft
FactorsLeft(r) ==
    /\ req[r].pc = "factors"
    /\ IF EnrolledFactors = {} THEN Goto(r, "wipe") ELSE Finish(r)
    /\ UNCHANGED <<creds, codes, nSet, enrol, nTok, history>>

Wipe(r) ==
    /\ req[r].pc = "wipe"
    /\ DeleteCodes
    /\ Finish(r)
    /\ UNCHANGED <<creds, nSet, enrol, nTok, history>>

\* Mutant: the update does not require used: false.
UseRecoveryCodeAny(c) ==
    /\ codes[c] \in {"unused", "used"} /\ uses[c] < 2
    /\ codes' = [codes EXCEPT ![c] = "used"]
    /\ uses' = [uses EXCEPT ![c] = @ + 1]
    /\ UNCHANGED <<creds, nSet, enrol, nTok, req, proven, enrolled, signins>>

\* verifyRecoveryCode: one conditional UPDATE.
UseRecoveryCode(c) ==
    /\ codes[c] = "unused"
    /\ codes' = [codes EXCEPT ![c] = "used"]
    /\ uses' = [uses EXCEPT ![c] = @ + 1]
    /\ UNCHANGED <<creds, nSet, enrol, nTok, req, proven, enrolled, signins>>

\* A failed statement or a server crash ends a request between two steps.
Abort(r) ==
    /\ req[r].pc # "idle"
    /\ Finish(r)
    /\ UNCHANGED <<creds, codes, nSet, enrol, nTok, history>>

Arrive(r) ==
    \/ \E k \in {None} \cup Tokens : SetupRead(r, k) \/ ActivateRead(r, k) \/ SmsActivate(r, k)
    \/ \E k \in Tokens : ContinueClaim(r, k)
    \/ \E f \in Factors : SelfDisableRead(r, f)

Step(r) ==
    \/ SetupDelete(r) \/ SetupCreate(r) \/ ActivateWrite(r)
    \/ EnsureCount(r) \/ GenDelete(r) \/ GenCreate(r) \/ Mark(r)
    \/ ContinueSignIn(r) \/ Drop(r) \/ FactorsLeft(r) \/ Wipe(r) \/ Abort(r)

Next ==
    \/ \E r \in Reqs : Arrive(r)
    \/ \E r \in AdminReqs, F \in SUBSET Factors \ {{}} : AdminDisable(r, F)
    \/ \E r \in All : Step(r)
    \/ \E c \in Codes : UseRecoveryCode(c)
    \/ \E k \in Tokens : Expire(k)
    \/ StartEnrolment \/ Cleanup

Spec == Init /\ [][Next]_vars

-----------------------------------------------------------------------------
(* Properties. *)

ReqType == [pc : {"idle", "set_delete", "set_create", "activate", "count",
                  "gen_delete", "gen_create", "mark", "signin", "drop", "factors", "wipe"},
            tok : 0..NTokens, secret : 0..NSecrets, set : 0..NSets, made : 0..SetSize,
            drop : SUBSET Factors]

\* Rows and requests have the schema's shape; a verified credential exists.
TypeOK ==
    /\ secret \in 0..nSecret /\ active \in BOOLEAN /\ phone \in BOOLEAN
    /\ nSecret \in 0..NSecrets /\ nSet \in 0..NSets /\ nTok \in 0..NTokens
    /\ codes \in [Codes -> {"none", "unused", "used", "deleted"}]
    /\ enrol \in [Tokens -> [live : BOOLEAN, verified : BOOLEAN, expired : BOOLEAN]]
    /\ req \in [All -> ReqType]
    /\ proven \subseteq 1..NSecrets /\ enrolled \subseteq 0..NTokens
    /\ uses \in [Codes -> Nat] /\ signins \in [Tokens -> Nat]
    /\ active => secret # None

(* A secret is active only if a code was checked against that very secret,  *)
(* also when another tab replaces the secret while a code is being checked  *)
(* (verifyAndActivateTotp updates the row it read).                         *)
ActiveSecretProven == active => secret \in proven

(* "Each code can only be used once": a recovery code is accepted at most   *)
(* once, whatever sets are generated and deleted meanwhile.                 *)
RecoverySingleUse == \A c \in Codes : uses[c] <= 1

(* A paused sign-in is completed at most once per enrolment token           *)
(* (consumeVerifiedMfaEnrollment: the delete is the claim).                 *)
EnrolmentOnce == \A k \in Tokens : signins[k] <= 1

(* A paused sign-in is completed only by a token through which a factor was *)
(* activated: a factor enrolled elsewhere does not finish it.               *)
EnrolmentNeedsFactor == \A k \in Tokens : signins[k] > 0 => k \in enrolled
=============================================================================
