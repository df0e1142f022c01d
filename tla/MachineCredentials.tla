------------------------- MODULE MachineCredentials -------------------------
(***************************************************************************)
(* Keys of one machine owner: API_KEY credentials of a non-human identity  *)
(* (NhiService, NhiRotationScheduler) and API keys of a service account    *)
(* (ServiceAccountsService).  Administrators create, revoke and rotate     *)
(* keys, schedulers of several instances rotate those that are due.        *)
(*                                                                         *)
(* One action is one database statement of a request; key generation       *)
(* touches no state.  The tables are one here: no statement reads keys of  *)
(* both kinds.  A key is its row: whether anyone holds its plain text,     *)
(* which the scheduler shows to nobody, is not part of the state.          *)
(***************************************************************************)
EXTENDS Integers, FiniteSets

CONSTANTS
    KeyReqs,      \* administrators' requests and scheduler items in flight
    NKeys,        \* bound: keys created in a behaviour
    Grace,        \* ROTATION_GRACE_SECONDS
    RotateAge,    \* rotationIntervalDays - rotationBeforeDays of the policy
    KeyMaxTime    \* bound: last clock value

ASSUME KeyAssumption ==
    /\ NKeys \in Nat /\ Grace \in Nat /\ RotateAge \in Nat /\ KeyMaxTime \in Nat
    /\ IsFiniteSet(KeyReqs)

KeyIds    == 1..NKeys
KeyKinds  == {"nhi", "api"}
NoKey     == 0
Unlimited == KeyMaxTime + Grace + 1    \* expiresAt null

VARIABLES
    keyNow,
    keys,    \* nhi_credentials and api_keys, by id
    nKeys,   \* ids handed out
    owned,   \* per kind: the identity or service account exists
    keyReq,  \* per request: program counter and local variables
    served,  \* history: kinds given a key without an expiry, none of whose keys
             \* anybody asked to revoke since
    auto     \* history: per key, how often schedulers rotated it to the end

keyVars == <<keyNow, keys, nKeys, owned, keyReq, served, auto>>

FreshKey(k, at, until, flag) ==
    [kind |-> k, exists |-> TRUE, revoked |-> FALSE, enabled |-> TRUE, rotated |-> FALSE,
     flag |-> flag, createdAt |-> at, expiresAt |-> until]
VoidKey   == [FreshKey("nhi", 0, 0, FALSE) EXCEPT !.exists = FALSE]
IdleKeyReq == [pc |-> "idle", id |-> NoKey, kind |-> "nhi", until |-> 0, by |-> "admin"]

KeyInit ==
    /\ keyNow = 0
    /\ keys = [i \in KeyIds |-> VoidKey]
    /\ nKeys = 0
    /\ owned = KeyKinds
    /\ keyReq = [r \in KeyReqs |-> IdleKeyReq]
    /\ served = {}
    /\ auto = [i \in KeyIds |-> 0]

-----------------------------------------------------------------------------
KeysOf(k)  == {i \in KeyIds : keys[i].exists /\ keys[i].kind = k}
Usable(i)  == /\ keys[i].exists /\ ~keys[i].revoked /\ keys[i].enabled
              /\ keys[i].expiresAt >= keyNow

KeyGoto(r, label) == keyReq' = [keyReq EXCEPT ![r].pc = label]
KeyFinish(r)      == keyReq' = [keyReq EXCEPT ![r] = IdleKeyReq]

InsertKey(k, until, flag) ==
    /\ nKeys < NKeys /\ k \in owned
    /\ nKeys' = nKeys + 1
    /\ keys' = [keys EXCEPT ![nKeys + 1] = FreshKey(k, keyNow, until, flag)]

\* createCredential and createApiKey: the state of the identity is not asked for.
CreateKey(k, until, flag) ==
    /\ k = "api" => ~flag
    /\ InsertKey(k, until, flag)
    /\ served' = IF until = Unlimited THEN served \cup {k} ELSE served
    /\ UNCHANGED <<keyNow, owned, keyReq, auto>>

\* revokeCredential and revokeApiKey
RevokeKey(i) ==
    /\ keys[i].exists /\ ~keys[i].revoked
    /\ keys' = [keys EXCEPT ![i].revoked = TRUE]
    /\ served' = served \ {keys[i].kind}
    /\ UNCHANGED <<keyNow, nKeys, owned, keyReq, auto>>

(* decommission: updateMany over the credentials, then the identity, whose  *)
(* state no statement about keys reads.                                     *)
Decommission ==
    /\ "nhi" \in owned
    /\ keys' = [i \in KeyIds |-> IF i \in KeysOf("nhi") THEN [keys[i] EXCEPT !.revoked = TRUE]
                                                        ELSE keys[i]]
    /\ served' = served \ {"nhi"}
    /\ UNCHANGED <<keyNow, nKeys, owned, keyReq, auto>>

\* remove: the keys go with their owner.
RemoveOwner(k) ==
    /\ k \in owned
    /\ owned' = owned \ {k}
    /\ keys' = [i \in KeyIds |-> IF i \in KeysOf(k) THEN VoidKey ELSE keys[i]]
    /\ served' = served \ {k}
    /\ UNCHANGED <<keyNow, nKeys, keyReq, auto>>

-----------------------------------------------------------------------------
(* Rotation. *)

\* rotateCredential and rotateApiKey on request: any key, also a revoked one.
RotateRead(r, i) ==
    /\ keyReq[r].pc = "idle" /\ keys[i].exists
    /\ keyReq' = [keyReq EXCEPT ![r] = [pc |-> "successor", id |-> i, kind |-> keys[i].kind,
                                        until |-> keys[i].expiresAt, by |-> "admin"]]
    /\ UNCHANGED <<keyNow, keys, nKeys, owned, served, auto>>

\* isDueForRotation
Due(i) == keys[i].flag \/ keyNow >= keys[i].createdAt + RotateAge

\* One item of getCredentialsDueForRotation, under an autoRotate policy.
ScheduleItem(r, i) ==
    /\ keyReq[r].pc = "idle"
    /\ i \in KeysOf("nhi") /\ ~keys[i].revoked /\ keys[i].enabled /\ ~keys[i].rotated /\ Due(i)
    /\ keyReq' = [keyReq EXCEPT ![r] = [IdleKeyReq EXCEPT !.pc = "reread", !.id = i, !.by = "scheduler"]]
    /\ UNCHANGED <<keyNow, keys, nKeys, owned, served, auto>>

\* rotateCredential of the scheduler: rotated or revoked meanwhile, it skips.
ScheduleReread(r) ==
    LET i == keyReq[r].id IN
    /\ keyReq[r].pc = "reread"
    /\ IF keys[i].exists /\ ~keys[i].revoked /\ keys[i].enabled
         THEN keyReq' = [keyReq EXCEPT ![r].pc = "successor", ![r].until = keys[i].expiresAt]
         ELSE KeyFinish(r)
    /\ UNCHANGED <<keyNow, keys, nKeys, owned, served, auto>>

\* The new key inherits the expiry that was read.
CreateSuccessor(r) ==
    /\ keyReq[r].pc = "successor"
    /\ InsertKey(keyReq[r].kind, keyReq[r].until, FALSE)
    /\ KeyGoto(r, "retire")
    /\ UNCHANGED <<keyNow, owned, served, auto>>

\* Mutant: the old key is retired before its successor is created.
RetireFirst(r) ==
    LET i == keyReq[r].id IN
    /\ keyReq[r].pc \in {"successor", "retire"} /\ keys[i].exists
    /\ keys' = [keys EXCEPT ![i].revoked = TRUE, ![i].rotated = TRUE]
    /\ IF keyReq[r].pc = "retire" THEN KeyFinish(r) ELSE UNCHANGED keyReq
    /\ UNCHANGED <<keyNow, nKeys, owned, served, auto>>

\* Mutant: the scheduler leaves the old key a grace period, like rotateApiKey.
RetireWithGrace(r) ==
    LET i == keyReq[r].id IN
    /\ keyReq[r].pc = "retire" /\ keys[i].exists
    /\ keys' = [keys EXCEPT ![i].expiresAt = keyNow + Grace]
    /\ KeyFinish(r)
    /\ auto' = IF keyReq[r].by = "scheduler" THEN [auto EXCEPT ![i] = @ + 1] ELSE auto
    /\ UNCHANGED <<keyNow, nKeys, owned, served>>

(* The old key: a service account's gets a last expiry, whatever it had; a  *)
(* credential is revoked.                                                   *)
Retire(r) ==
    LET i == keyReq[r].id IN
    /\ keyReq[r].pc = "retire" /\ keys[i].exists
    /\ keys' = [keys EXCEPT ![i] =
                 CASE @.kind = "api" -> [@ EXCEPT !.expiresAt = keyNow + Grace]
                   [] @.kind = "nhi" /\ keyReq[r].by = "admin" -> [@ EXCEPT !.revoked = TRUE]
                   [] OTHER -> [@ EXCEPT !.revoked = TRUE, !.enabled = FALSE, !.rotated = TRUE]]
    /\ IF keyReq[r].kind = "nhi" /\ keyReq[r].by = "admin"
         THEN KeyGoto(r, "mark") ELSE KeyFinish(r)
    /\ auto' = IF keyReq[r].by = "scheduler" THEN [auto EXCEPT ![i] = @ + 1] ELSE auto
    /\ UNCHANGED <<keyNow, nKeys, owned, served>>

\* rotatedAt, by a statement of its own
MarkRotated(r) ==
    LET i == keyReq[r].id IN
    /\ keyReq[r].pc = "mark" /\ keys[i].exists
    /\ keys' = [keys EXCEPT ![i].rotated = TRUE]
    /\ KeyFinish(r)
    /\ UNCHANGED <<keyNow, nKeys, owned, served, auto>>

\* A failed statement (the row is gone, the database is away) or a crash.
KeyAbort(r) ==
    /\ keyReq[r].pc # "idle"
    /\ KeyFinish(r)
    /\ UNCHANGED <<keyNow, keys, nKeys, owned, served, auto>>

KeyTick ==
    /\ keyNow < KeyMaxTime
    /\ keyNow' = keyNow + 1
    /\ UNCHANGED <<keys, nKeys, owned, keyReq, served, auto>>

Rotation(r) ==
    \/ \E i \in KeyIds : RotateRead(r, i) \/ ScheduleItem(r, i)
    \/ ScheduleReread(r) \/ CreateSuccessor(r) \/ Retire(r) \/ MarkRotated(r)

KeyNext ==
    \/ \E k \in KeyKinds, until \in {KeyMaxTime, Unlimited}, flag \in BOOLEAN : CreateKey(k, until, flag)
    \/ \E i \in KeyIds : RevokeKey(i)
    \/ Decommission
    \/ \E k \in KeyKinds : RemoveOwner(k)
    \/ \E r \in KeyReqs : Rotation(r) \/ KeyAbort(r)
    \/ KeyTick

KeySpec == KeyInit /\ [][KeyNext]_keyVars

-----------------------------------------------------------------------------
(* Properties. *)

\* The key rows and the requests have their shapes.
KeyTypeOK ==
    /\ keyNow \in Nat /\ nKeys \in 0..NKeys
    /\ keys \in [KeyIds -> [kind : KeyKinds, exists : BOOLEAN, revoked : BOOLEAN, enabled : BOOLEAN,
                            rotated : BOOLEAN, flag : BOOLEAN, createdAt : Nat, expiresAt : Nat]]
    /\ \A r \in KeyReqs : keyReq[r].id \in KeyIds \cup {NoKey}

(* Rotation leaves no gap: an owner that was given a key without an expiry, *)
(* and of which nobody revoked a key since, holds a usable key without an   *)
(* expiry, whichever rotations of the same and of successive keys overlap   *)
(* and wherever one of them is cut off.  Usable means a live row: nobody    *)
(* can present the successor that a scheduler made, since its plain text is *)
(* dropped (nhi-rotation.scheduler.ts rotateCredential).                    *)
KeysNoGap ==
    \A k \in served : \E i \in KeysOf(k) : Usable(i) /\ keys[i].expiresAt = Unlimited

(* The schedulers of several instances complete the rotation of one key at  *)
(* most once each, in one overlap: no later minute finds the key due again, *)
(* although no statement is conditional on the key's state.  (A rotation    *)
(* cut off before the old key is retired is retried, and its successor      *)
(* stays; there is no bound on those.)                                      *)
KeysSuccessorsBounded == \A i \in KeyIds : auto[i] <= Cardinality(KeyReqs)
=============================================================================
