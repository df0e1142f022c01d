------------------------------ MODULE MCSignIn ------------------------------
(***************************************************************************)
(* Instances for TLC of the parts of a sign-in: enrolling a second factor, *)
(* answering the challenge for it, and the session that results.  They     *)
(* share no state, so a behaviour is a behaviour of one of them, the part  *)
(* chosen at the beginning.                                                *)
(***************************************************************************)
EXTENDS FactorEnrolment, MfaChallenge, LoginSessions, TLC

VARIABLE part

signInVars == <<part, vars, mcVars, lsVars>>

(* The sets of requests are one set. *)
RequestSymmetry == Permutations(Reqs)

SignInInit ==
    /\ part \in {"enrolment", "challenge", "sessions"}
    /\ Init /\ McInit /\ LsInit
    /\ part # "sessions" => ~mfaRequired

-----------------------------------------------------------------------------
(* Only whether a level is above the one of a password matters here; a      *)
(* passkey is the third level in a sign-in only, and the level required     *)
(* matters to no step of a sign-in.                                         *)
LevelProfile ==
    \A r \in LsReqs :
        /\ lr'[r].need \in {0, 2}
        /\ lr'[r].kind = "login" => lr'[r].need = 0 /\ lr'[r].level \in {1, 3}

(* Many sign-ins and nothing else. *)
SignInsOnly ==
    /\ \A r \in LsReqs : lr'[r].kind # "none" => lr'[r].kind = "login" /\ lr'[r].level = 1
    /\ userOn' /\ ~mfaRequired'

(* The cookies of at most two sessions, the second there for the first to   *)
(* be confused with.  Requests that only read do not meet each other, and   *)
(* neither do two that write the same table; settings are changed at the    *)
(* beginning.                                                               *)
Cookies ==
    /\ nSso' <= 1 \/ (nSso' = 2 /\ userOn' /\ ~mfaRequired' /\ lsNow' = 0)
    /\ Cardinality({r \in LsReqs : lr'[r].kind = "login"}) <= 1
    /\ Cardinality({r \in LsReqs : lr'[r].kind = "stepup"}) <= 1
    /\ Cardinality({r \in LsReqs : lr'[r].kind \in {"silent", "admin"}}) <= 1
    /\ <<userOn, mfaRequired>>' # <<userOn, mfaRequired>> => lsNow = 0

-----------------------------------------------------------------------------
EnrolmentStep ==
    /\ part = "enrolment" /\ Next
    /\ UNCHANGED <<part, mcVars, lsVars>>

ChallengeStep ==
    /\ part = "challenge" /\ McNext
    /\ UNCHANGED <<part, vars, lsVars>>

SessionStep ==
    /\ part = "sessions" /\ LsNext /\ LevelProfile /\ (SignInsOnly \/ Cookies)
    /\ UNCHANGED <<part, vars, mcVars>>

SignInNext == EnrolmentStep \/ ChallengeStep \/ SessionStep

SignInSpec == SignInInit /\ [][SignInNext]_signInVars
=============================================================================
