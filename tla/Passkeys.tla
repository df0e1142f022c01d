------------------------------- MODULE Passkeys -------------------------------
(***************************************************************************)
(* Passkeys of one user (WebAuthnService): challenges kept as pending      *)
(* actions, one per purpose, registration, and sign-in with an assertion   *)
(* that must answer the stored challenge with a counter above the stored   *)
(* one.  The authenticator and the library that verifies its signatures    *)
(* are external: an assertion is the challenge it answers and its counter. *)
(*                                                                         *)
(* One action is one database statement.                                   *)
(***************************************************************************)
EXTENDS Integers, FiniteSets

CONSTANTS
    PkReqs,       \* requests in flight
    NChallenges,  \* bound: challenges made in a behaviour
    ChallengeTTL, \* lifetime of a challenge (5 minutes)
    PkMaxTime     \* bound: last clock value

ASSUME PasskeysAssumption ==
    /\ NChallenges \in Nat /\ ChallengeTTL \in Nat /\ PkMaxTime \in Nat
    /\ IsFiniteSet(PkReqs)

Challenges == 1..NChallenges
Slots      == {"user", "realm", "register"}  \* keys of the pending actions

VARIABLES
    pkNow,
    pending,   \* the pending_actions row of each key: challenge and expiry
    nChal,
    passkey,   \* the webauthn_credentials row
    signature, \* what the authenticator answered to each challenge, 0 if nothing
    signCount, \* the authenticator's own counter
    pk,        \* per request: program counter and local variables
    signIns,   \* history: sign-ins by each challenge
    highest,   \* history: the highest counter accepted since registration
    overlap    \* history: two sign-ins were verified at the same time since

pkVars == <<pkNow, pending, nChal, passkey, signature, signCount, pk, signIns, highest, overlap>>

NoPending == [challenge |-> 0, until |-> 0]
NoPasskey == [exists |-> FALSE, id |-> 0, counter |-> 0]
\* slot is the key looked up, challenge the one found, answered the one the
\* response answers, row the passkey that was read.
IdlePk    == [pc |-> "idle", slot |-> "user", challenge |-> 0, answered |-> 0, row |-> NoPasskey]

PkInit ==
    /\ pkNow = 0
    /\ pending = [s \in Slots |-> NoPending]
    /\ nChal = 0
    /\ passkey \in {NoPasskey, [NoPasskey EXCEPT !.exists = TRUE]}
    /\ signature = [c \in Challenges |-> 0] /\ signCount = 0
    /\ pk = [r \in PkReqs |-> IdlePk]
    /\ signIns = [c \in Challenges |-> 0]
    /\ highest = 0 /\ overlap = FALSE

Verifying == {r \in PkReqs : pk[r].row.exists}
PkGoto(r, label) == pk' = [pk EXCEPT ![r].pc = label]
PkFinish(r)      == pk' = [pk EXCEPT ![r] = IdlePk]

-----------------------------------------------------------------------------
(* generateRegistrationOptions and generateAuthenticationOptions, for a     *)
(* user or for whoever answers in the realm: storeWebAuthnChallenge deletes *)
(* and creates.                                                             *)

PkOptions(r, s) ==
    /\ pk[r].pc = "idle"
    /\ pending' = [pending EXCEPT ![s] = NoPending]
    /\ pk' = [pk EXCEPT ![r] = [IdlePk EXCEPT !.pc = "store", !.slot = s]]
    /\ UNCHANGED <<pkNow, nChal, passkey, signature, signCount, signIns, highest, overlap>>

\* The key is unique: the second of two concurrent requests fails.
PkStore(r) ==
    LET s == pk[r].slot IN
    /\ pk[r].pc = "store" /\ nChal < NChallenges
    /\ IF pending[s] = NoPending
         THEN /\ nChal' = nChal + 1
              /\ pending' = [pending EXCEPT ![s] = [challenge |-> nChal', until |-> pkNow + ChallengeTTL]]
         ELSE UNCHANGED <<nChal, pending>>
    /\ PkFinish(r)
    /\ UNCHANGED <<pkNow, passkey, signature, signCount, signIns, highest, overlap>>

\* The authenticator answers a challenge it was shown.
PkSign(c) ==
    /\ c <= nChal /\ signature[c] = 0
    /\ signCount' = signCount + 1
    /\ signature' = [signature EXCEPT ![c] = signCount']
    /\ UNCHANGED <<pkNow, pending, nChal, passkey, pk, signIns, highest, overlap>>

-----------------------------------------------------------------------------
(* verifyAuthentication and verifyRegistration.  The response to a challenge*)
(* may be sent at any time and more than once.                              *)

\* The row of the passkey, with its counter
PkBegin(r, c) ==
    /\ pk[r].pc = "idle" /\ signature[c] # 0 /\ passkey.exists
    /\ pk' = [pk EXCEPT ![r] = [IdlePk EXCEPT !.pc = "lookup", !.answered = c,
                                              !.row = passkey]]
    /\ overlap' = (overlap \/ Verifying # {})
    /\ UNCHANGED <<pkNow, pending, nChal, passkey, signature, signCount, signIns, highest>>

PkRegisterBegin(r, c) ==
    /\ pk[r].pc = "idle" /\ signature[c] # 0
    /\ pk' = [pk EXCEPT ![r] = [IdlePk EXCEPT !.pc = "lookup", !.slot = "register", !.answered = c]]
    /\ UNCHANGED <<pkNow, pending, nChal, passkey, signature, signCount, signIns, highest, overlap>>

\* Nothing usable under this key: the realm's after the user's, else an error.
NextSlot(r) ==
    IF pk[r].slot = "user" THEN pk' = [pk EXCEPT ![r].pc = "lookup", ![r].slot = "realm"]
                           ELSE PkFinish(r)

\* consumeWebAuthnChallenge: the row is read.
PkLookup(r) ==
    LET p == pending[pk[r].slot] IN
    /\ pk[r].pc = "lookup"
    /\ IF p = NoPending THEN NextSlot(r)
       ELSE pk' = [pk EXCEPT ![r].pc = IF p.until < pkNow THEN "expired" ELSE "claim",
                             ![r].challenge = p.challenge]
    /\ UNCHANGED <<pkNow, pending, nChal, passkey, signature, signCount, signIns, highest, overlap>>

Consumed(r) == pending[pk[r].slot].challenge # pk[r].challenge

\* The row is deleted by its id: an error if it has gone.
PkExpired(r) ==
    /\ pk[r].pc = "expired"
    /\ IF Consumed(r) THEN PkFinish(r) /\ UNCHANGED pending
       ELSE NextSlot(r) /\ pending' = [pending EXCEPT ![pk[r].slot] = NoPending]
    /\ UNCHANGED <<pkNow, nChal, passkey, signature, signCount, signIns, highest, overlap>>

(* The response must answer the challenge found, the signature be good and  *)
(* the counter, when one signs in, be above the one read.                   *)
Verified(r) ==
    /\ pk[r].answered = pk[r].challenge
    /\ pk[r].slot # "register" => signature[pk[r].answered] > pk[r].row.counter

\* Mutant: the challenge is deleted by deleteMany, gone or not.
PkClaimAnyway(r) ==
    /\ pk[r].pc = "claim"
    /\ pending' = IF Consumed(r) THEN pending ELSE [pending EXCEPT ![pk[r].slot] = NoPending]
    /\ IF Verified(r) THEN PkGoto(r, IF pk[r].slot = "register" THEN "register" ELSE "update")
                      ELSE PkFinish(r)
    /\ UNCHANGED <<pkNow, nChal, passkey, signature, signCount, signIns, highest, overlap>>

PkClaim(r) ==
    /\ pk[r].pc = "claim"
    /\ pending' = IF Consumed(r) THEN pending ELSE [pending EXCEPT ![pk[r].slot] = NoPending]
    /\ IF ~Consumed(r) /\ Verified(r)
         THEN PkGoto(r, IF pk[r].slot = "register" THEN "register" ELSE "update")
         ELSE PkFinish(r)
    /\ UNCHANGED <<pkNow, nChal, passkey, signature, signCount, signIns, highest, overlap>>

\* The counter; then the session is created.
PkUpdate(r) ==
    LET n == signature[pk[r].answered] IN
    /\ pk[r].pc = "update"
    /\ IF passkey.exists /\ passkey.id = pk[r].row.id
         THEN /\ passkey' = [passkey EXCEPT !.counter = n]
              /\ signIns' = [signIns EXCEPT ![pk[r].answered] = @ + 1]
              /\ highest' = IF n > highest THEN n ELSE highest
         ELSE UNCHANGED <<passkey, signIns, highest>>
    /\ PkFinish(r)
    /\ UNCHANGED <<pkNow, pending, nChal, signature, signCount, overlap>>

\* A passkey that is registered already is refused, the second time by the
\* unique credential id.
PkRegister(r) ==
    /\ pk[r].pc = "register"
    /\ IF passkey.exists THEN UNCHANGED <<passkey, highest, overlap>>
       ELSE /\ passkey' = [exists |-> TRUE, id |-> pk[r].answered, counter |-> signature[pk[r].answered]]
            /\ highest' = signature[pk[r].answered]
            /\ overlap' = FALSE
    /\ PkFinish(r)
    /\ UNCHANGED <<pkNow, pending, nChal, signature, signCount, signIns>>

-----------------------------------------------------------------------------
PkRemove ==
    /\ passkey.exists
    /\ passkey' = NoPasskey
    /\ UNCHANGED <<pkNow, pending, nChal, signature, signCount, pk, signIns, highest, overlap>>

\* A failed statement or a crash
PkAbort(r) ==
    /\ pk[r].pc # "idle"
    /\ PkFinish(r)
    /\ UNCHANGED <<pkNow, pending, nChal, passkey, signature, signCount, signIns, highest, overlap>>

PkTick ==
    /\ pkNow < PkMaxTime
    /\ pkNow' = pkNow + 1
    /\ UNCHANGED <<pending, nChal, passkey, signature, signCount, pk, signIns, highest, overlap>>

PkNext ==
    \/ \E r \in PkReqs :
         \/ PkStore(r) \/ PkLookup(r) \/ PkExpired(r) \/ PkClaim(r) \/ PkUpdate(r)
         \/ PkRegister(r) \/ PkAbort(r)
         \/ \E s \in Slots : PkOptions(r, s)
         \/ \E c \in Challenges : PkBegin(r, c) \/ PkRegisterBegin(r, c)
    \/ \E c \in Challenges : PkSign(c)
    \/ PkRemove \/ PkTick

PkSpec == PkInit /\ [][PkNext]_pkVars

-----------------------------------------------------------------------------
(* A response signs in once: a challenge is good for one sign-in, although  *)
(* it is read and deleted by two statements, one row serves all requests of *)
(* its purpose, and a response may be sent twice.  The stored counter,      *)
(* which no condition protects, is the highest accepted one unless two      *)
(* sign-ins were verified at the same time (verifyAuthentication).          *)
PasskeySignsInOnce ==
    /\ \A c \in Challenges : signIns[c] <= 1
    /\ passkey.exists => passkey.counter = highest \/ overlap
==============================================================================
