--------------------------- MODULE OperationsProofs ---------------------------
(***************************************************************************)
(* Proofs about the parts that guard and maintain the server, for any      *)
(* number of requests and instances and any limits: brute-force protection *)
(* (BruteForce), keys of machines (MachineCredentials), upgrades           *)
(* (UpgradeRollback), rate limits (RateLimiter).                           *)
(***************************************************************************)
EXTENDS BruteForce, MachineCredentials, UpgradeRollback, RateLimiter, FiniteSetTheorems, TLAPS

-----------------------------------------------------------------------------
(* Counting requests: a set of requests that loses or gains one. *)

\* A subset of a finite set is finite and counts no more.
LEMMA CountType ==
    ASSUME NEW R, IsFiniteSet(R), NEW S, S \subseteq R
    PROVE  IsFiniteSet(S) /\ Cardinality(S) \in Nat /\ Cardinality(S) <= Cardinality(R)
           /\ Cardinality(R) \in Nat
  BY FS_Subset, FS_CardinalityType

\* Counting after one member leaves...
LEMMA CountLoses ==
    ASSUME NEW R, IsFiniteSet(R), NEW S, S \subseteq R, NEW r \in S
    PROVE  Cardinality(S \ {r}) = Cardinality(S) - 1
  BY CountType, FS_RemoveElement

\* ... and after one joins.
LEMMA CountGains ==
    ASSUME NEW R, IsFiniteSet(R), NEW S, S \subseteq R, NEW r, r \notin S
    PROVE  Cardinality(S \cup {r}) = Cardinality(S) + 1
  BY CountType, FS_AddElement

-----------------------------------------------------------------------------
(* Brute-force protection.  A lock admits no new guess, so a guess recorded *)
(* under it is one of those that were being verified when it was set.       *)

ReqType == [pc : {"idle", "verify", "clear", "clear_lock", "count", "lock", "forget"},
            kind : Kinds, barred : BOOLEAN]

Guessing == {r \in Reqs : req[r].pc = "verify"}

BfTypeOK ==
    /\ now \in Nat /\ until \in Nat /\ extra \in Nat
    /\ enabled \in BOOLEAN /\ perm \in BOOLEAN
    /\ req \in [All -> ReqType]

BfInv ==
    /\ BfTypeOK
    /\ perm => ~enabled
    /\ \A r \in All : req[r].barred = FALSE
    /\ Locked => extra + Cardinality(Guessing) <= Cardinality(Reqs) - 1

\* A slot with no login in progress.
LEMMA IdleReqFacts == IdleReq \in ReqType /\ IdleReq.pc = "idle" /\ IdleReq.barred = FALSE
  BY DEF IdleReq, ReqType, Kinds, Factors

\* The logins about to verify a password are finitely many, at most the request slots.
LEMMA GuessingCount ==
    /\ IsFiniteSet(Reqs) /\ Cardinality(Reqs) \in Nat
    /\ Guessing \subseteq Reqs /\ IsFiniteSet(Guessing) /\ Cardinality(Guessing) \in Nat
    /\ Cardinality(Guessing) <= Cardinality(Reqs)
  BY BruteForceAssumption, CountType DEF Guessing

\* No account is locked and no guess in flight at the start.
LEMMA BfInvInit == ASSUME Init PROVE BfInv
  <1>1. BfTypeOK /\ ~Locked /\ perm = FALSE
    <2>1. enabled \in BOOLEAN /\ perm \in BOOLEAN /\ perm = FALSE
      BY DEF Init
    <2>2. now \in Nat /\ until \in Nat /\ extra \in Nat /\ req \in [All -> ReqType] /\ ~(until > now)
      BY IdleReqFacts DEF Init
    <2> QED
      BY <2>1, <2>2 DEF BfTypeOK, Locked
  <1>2. \A r \in All : req[r].barred = FALSE
    BY IdleReqFacts DEF Init
  <1> QED
    BY <1>1, <1>2 DEF BfInv

\* A request goes on to something other than the password check.
LEMMA BfMove ==
    ASSUME BfInv, NEW r \in All, NEW x \in ReqType, x.pc # "verify", x.barred = FALSE,
           req' = [req EXCEPT ![r] = x]
    PROVE  /\ req' \in [All -> ReqType]
           /\ \A q \in All : req'[q].barred = FALSE
           /\ Guessing' = Guessing \ {r}
  <1>1. /\ req \in [All -> ReqType] /\ req'[r] = x
        /\ \A q \in All : q # r => req'[q] = req[q]
    BY DEF BfInv, BfTypeOK
  <1>2. req' \in [All -> ReqType]
    BY <1>1
  <1>3. \A q \in All : req'[q].barred = FALSE
    BY <1>1 DEF BfInv
  <1>4. Reqs \subseteq All
    BY DEF All
  <1>5. Guessing' = Guessing \ {r}
    BY <1>1, <1>4 DEF Guessing
  <1> QED
    BY <1>2, <1>3, <1>5

\* The lock is not made longer: fewer requests may still guess.
LEMMA BfQuiet ==
    ASSUME BfInv, BfTypeOK', perm' => ~enabled', \A q \in All : req'[q].barred = FALSE,
           Guessing' \subseteq Guessing, Locked' => Locked /\ extra' = extra
    PROVE  BfInv'
  <1>1. Locked' => extra' + Cardinality(Guessing') <= Cardinality(Reqs) - 1
    <2> SUFFICES ASSUME Locked' PROVE extra' + Cardinality(Guessing') <= Cardinality(Reqs) - 1
      OBVIOUS
    <2>1. extra + Cardinality(Guessing) <= Cardinality(Reqs) - 1 /\ extra \in Nat
      BY DEF BfInv, BfTypeOK
    <2>2. Cardinality(Guessing') \in Nat /\ Cardinality(Guessing') <= Cardinality(Guessing)
      BY GuessingCount, CountType
    <2> QED
      BY <2>1, <2>2, GuessingCount
  <1> QED
    BY <1>1 DEF BfInv

\* A login passes the check: the account is enabled and no lock is in force.
LEMMA BfCheckStep ==
    ASSUME BfInv, NEW r \in Reqs, Check(r)
    PROVE  BfInv'
  <1> DEFINE x == [IdleReq EXCEPT !.pc = "verify", !.barred = perm]
  <1>1. /\ req' = [req EXCEPT ![r] = x] /\ enabled /\ ~Locked
        /\ UNCHANGED <<now, user, history>>
    BY DEF Check
  <1>2. perm = FALSE
    BY <1>1 DEF BfInv, BfTypeOK
  <1>3. x \in ReqType /\ x.barred = FALSE
    BY <1>2, IdleReqFacts DEF ReqType
  <1> HIDE DEF x
  <1>4. /\ req' \in [All -> ReqType] /\ \A q \in All : req'[q].barred = FALSE
    BY <1>1, <1>3 DEF BfInv, BfTypeOK
  <1>5. BfTypeOK' /\ ~Locked' /\ perm' = FALSE
    BY <1>1, <1>2, <1>4 DEF BfInv, BfTypeOK, user, history, Locked
  <1> QED
    BY <1>4, <1>5 DEF BfInv

\* The request that records was one of those being verified.
LEMMA BfRecordStep ==
    ASSUME BfInv, NEW r \in Reqs, RecordFailure(r)
    PROVE  BfInv'
  <1>0. /\ r \in All /\ r \in Guessing /\ req' = [req EXCEPT ![r] = IdleReq] /\ now' = now
        /\ extra' = IF Locked THEN extra + 1 ELSE 0
    BY DEF RecordFailure, Finish, Guessing, All
  <1>1. /\ req' \in [All -> ReqType] /\ \A q \in All : req'[q].barred = FALSE
        /\ Guessing' = Guessing \ {r}
    BY <1>0, IdleReqFacts, BfMove
  <1>2. Cardinality(Guessing') = Cardinality(Guessing) - 1
    BY <1>0, <1>1, GuessingCount, CountLoses
  <1>3. Forever \in Nat /\ now + LockoutDuration \in Nat /\ extra \in Nat /\ now \in Nat
    BY BruteForceAssumption DEF Forever, BfInv, BfTypeOK
  <1>4. /\ until' \in Nat /\ enabled' \in BOOLEAN /\ perm' \in BOOLEAN /\ (perm' => ~enabled')
    <2>1. CASE UNCHANGED <<user, perm>>
      BY <2>1 DEF user, BfInv, BfTypeOK
    <2>2. CASE until' = Forever /\ enabled' = FALSE /\ perm' = TRUE
      BY <1>3, <2>2
    <2>3. CASE until' = now + LockoutDuration /\ UNCHANGED <<enabled, perm>>
      BY <1>3, <2>3 DEF BfInv, BfTypeOK
    <2> QED
      BY <2>1, <2>2, <2>3 DEF RecordFailure
  <1>5. extra' \in Nat /\ BfTypeOK'
    BY <1>0, <1>1, <1>3, <1>4 DEF BfTypeOK
  <1>6. extra' + Cardinality(Guessing') <= Cardinality(Reqs) - 1
    <2>1. CASE Locked
      <3>1. extra + Cardinality(Guessing) <= Cardinality(Reqs) - 1
        BY <2>1 DEF BfInv
      <3> QED
        BY <1>0, <1>2, <1>3, <2>1, <3>1, GuessingCount
    <2>2. CASE ~Locked
      BY <1>0, <1>2, <2>2, GuessingCount
    <2> QED
      BY <2>1, <2>2
  <1> QED
    BY <1>1, <1>4, <1>5, <1>6 DEF BfInv

\* Statements of requests that leave the user row alone
LEMMA BfPassesOn ==
    ASSUME BfInv, NEW r \in All, NEW x \in ReqType, x.pc # "verify", x.barred = FALSE,
           req' = [req EXCEPT ![r] = x], UNCHANGED <<now, until, enabled, perm, extra>>
    PROVE  BfInv'
  <1>1. /\ req' \in [All -> ReqType] /\ \A q \in All : req'[q].barred = FALSE
        /\ Guessing' \subseteq Guessing
    BY BfMove
  <1>2. BfTypeOK' /\ (Locked' => Locked /\ extra' = extra) /\ (perm' => ~enabled')
    BY <1>1 DEF BfInv, BfTypeOK, Locked
  <1> QED
    BY <1>1, <1>2, BfQuiet

\* A login that moves on to clear or to write a lock changes nothing yet.
LEMMA BfGoto ==
    ASSUME BfInv, NEW r \in All, NEW label, label \in {"clear", "clear_lock", "lock"},
           Goto(r, label), UNCHANGED <<now, until, enabled, perm, extra>>
    PROVE  BfInv'
  <1> DEFINE x == [req[r] EXCEPT !.pc = label]
  <1>1. req \in [All -> ReqType] /\ req[r] \in ReqType /\ req[r].barred = FALSE
    BY DEF BfInv, BfTypeOK
  <1>2. req' = [req EXCEPT ![r] = x]
    BY <1>1 DEF Goto
  <1>3. x \in ReqType /\ x.pc = label /\ x.barred = FALSE
    BY <1>1 DEF ReqType
  <1> HIDE DEF x
  <1> QED
    BY <1>2, <1>3, BfPassesOn

\* The lock is lifted.
LEMMA BfLifted ==
    ASSUME BfInv, NEW r \in All, NEW x \in ReqType, x.pc # "verify", x.barred = FALSE,
           req' = [req EXCEPT ![r] = x], until' = 0, extra' = 0, now' = now,
           enabled' \in BOOLEAN, perm' \in BOOLEAN, perm' => ~enabled'
    PROVE  BfInv'
  <1>1. /\ req' \in [All -> ReqType] /\ \A q \in All : req'[q].barred = FALSE
    BY BfMove
  <1>2. BfTypeOK' /\ ~Locked'
    BY <1>1 DEF BfInv, BfTypeOK, Locked
  <1> QED
    BY <1>1, <1>2 DEF BfInv

\* The request that sets the lock verifies no password.
LEMMA BfFactorLockStep ==
    ASSUME BfInv, NEW r \in Reqs, FactorLock(r)
    PROVE  BfInv'
  <1>0. /\ r \in All /\ r \in Reqs \ Guessing /\ req' = [req EXCEPT ![r] = IdleReq]
        /\ UNCHANGED <<now, enabled, perm>> /\ until' = now + LockoutDuration
        /\ extra' = IF Locked THEN extra ELSE 0
    BY DEF FactorLock, Finish, Guessing, All
  <1>1. /\ req' \in [All -> ReqType] /\ \A q \in All : req'[q].barred = FALSE
        /\ Guessing' = Guessing
    <2>1. Guessing' = Guessing \ {r}
      BY <1>0, IdleReqFacts, BfMove
    <2>2. Guessing \ {r} = Guessing
      BY <1>0
    <2> QED
      BY <1>0, <2>1, <2>2, IdleReqFacts, BfMove
  <1>2. BfTypeOK'
    BY <1>0, <1>1, BruteForceAssumption DEF BfInv, BfTypeOK
  <1>3. extra' + Cardinality(Guessing) <= Cardinality(Reqs) - 1
    <2>1. CASE Locked
      BY <1>0, <2>1 DEF BfInv
    <2>2. CASE ~Locked
      <3>1. Cardinality(Guessing) <= Cardinality(Reqs) - 1
        <4>1. Guessing \subseteq Reqs \ {r} /\ IsFiniteSet(Reqs \ {r})
          BY <1>0, GuessingCount, CountType DEF Guessing
        <4>2. Cardinality(Guessing) <= Cardinality(Reqs \ {r})
          BY <4>1, CountType
        <4>3. Cardinality(Reqs \ {r}) = Cardinality(Reqs) - 1
          BY GuessingCount, CountLoses
        <4> QED
          BY <4>2, <4>3
      <3> QED
        BY <1>0, <2>2, <3>1, GuessingCount
    <2> QED
      BY <2>1, <2>2
  <1> QED
    BY <1>0, <1>1, <1>2, <1>3 DEF BfInv

\* Every step of the brute-force guard keeps its invariant.
LEMMA BfInvNext == ASSUME BfInv, [Next]_vars PROVE BfInv'
  <1>0. Reqs \subseteq All /\ AdminReqs \subseteq All
    BY DEF All
  <1>1. ASSUME NEW r \in Reqs, Check(r) \/ RecordFailure(r) \/ FactorLock(r) PROVE BfInv'
    BY <1>1, BfCheckStep, BfRecordStep, BfFactorLockStep
  <1>2. ASSUME NEW r \in Reqs, PasswordOk(r) PROVE BfInv'
    BY <1>0, <1>2, BfGoto DEF PasswordOk, user, history
  <1>3. ASSUME NEW r \in Reqs, NEW k \in Factors, FactorFailure(r, k) PROVE BfInv'
    <2> DEFINE x == [IdleReq EXCEPT !.pc = "count", !.kind = k]
    <2>1. req' = [req EXCEPT ![r] = x] /\ UNCHANGED <<now, until, enabled, perm, extra>>
      BY <1>3 DEF FactorFailure, user
    <2>2. x \in ReqType /\ x.pc = "count" /\ x.barred = FALSE
      BY IdleReqFacts DEF ReqType, Kinds
    <2> HIDE DEF x
    <2> QED
      BY <1>0, <2>1, <2>2, BfPassesOn
  <1>4. ASSUME NEW r \in Reqs, FactorCount(r) PROVE BfInv'
    <2>1. UNCHANGED <<now, until, enabled, perm, extra>> /\ (Goto(r, "lock") \/ Finish(r))
      BY <1>4 DEF FactorCount, user, history
    <2> QED
      BY <1>0, <2>1, BfGoto, BfPassesOn, IdleReqFacts DEF Finish
  <1>5. ASSUME NEW r \in AdminReqs, AdminResetPassword(r) PROVE BfInv'
    <2> DEFINE x == [IdleReq EXCEPT !.pc = "clear"]
    <2>1. req' = [req EXCEPT ![r] = x] /\ UNCHANGED <<now, until, enabled, perm, extra>>
      BY <1>5 DEF AdminResetPassword, user, history
    <2>2. x \in ReqType /\ x.pc = "clear" /\ x.barred = FALSE
      BY IdleReqFacts DEF ReqType
    <2> HIDE DEF x
    <2> QED
      BY <1>0, <2>1, <2>2, BfPassesOn
  <1>6. ASSUME NEW r \in AdminReqs, Unlock(r) PROVE BfInv'
    <2> DEFINE x == [IdleReq EXCEPT !.pc = "forget"]
    <2>1. /\ req' = [req EXCEPT ![r] = x] /\ until' = 0 /\ extra' = 0 /\ now' = now
          /\ enabled' = TRUE /\ perm' = FALSE
      BY <1>6 DEF Unlock
    <2>2. x \in ReqType /\ x.pc = "forget" /\ x.barred = FALSE
      BY IdleReqFacts DEF ReqType
    <2> HIDE DEF x
    <2> QED
      BY <1>0, <2>1, <2>2, BfLifted
  <1>7. ASSUME NEW r \in AdminReqs, Forget(r) PROVE BfInv'
    BY <1>0, <1>7, BfPassesOn, IdleReqFacts DEF Forget, Finish, user
  <1>8. ASSUME NEW r \in All, ClearFailures(r) PROVE BfInv'
    BY <1>8, BfGoto DEF ClearFailures, user
  <1>9. ASSUME NEW r \in All, ClearLock(r) PROVE BfInv'
    BY <1>9, BfLifted, IdleReqFacts DEF ClearLock, Finish, BfInv, BfTypeOK
  <1>10. ASSUME NEW r \in All, Abort(r) PROVE BfInv'
    BY <1>10, BfPassesOn, IdleReqFacts DEF Abort, Finish, user, history
  <1>11. CASE FactorOk \/ Cleanup \/ Tick \/ UNCHANGED vars
    <2>1. UNCHANGED <<until, enabled, req, perm, extra>> /\ now' \in Nat /\ now' >= now
      BY <1>11 DEF FactorOk, Cleanup, Tick, vars, user, history, BfInv, BfTypeOK
    <2>2. BfTypeOK' /\ (Locked' => Locked) /\ Guessing' = Guessing
      BY <2>1 DEF BfInv, BfTypeOK, Locked, Guessing
    <2> QED
      BY <2>1, <2>2 DEF BfInv
  <1> QED
    BY <1>1, <1>2, <1>3, <1>4, <1>5, <1>6, <1>7, <1>8, <1>9, <1>10, <1>11 DEF Next, Login

(* A lock admits no more guesses than were in flight when it was set        *)
(* (checkLocked, recordFailure), for any number of requests and any         *)
(* configuration of the realm.                                              *)
THEOREM ExtraGuessesBoundedHolds == Spec => []ExtraGuessesBounded
  <1>1. BfInv => ExtraGuessesBounded
    BY GuessingCount DEF BfInv, BfTypeOK, ExtraGuessesBounded
  <1> QED
    BY <1>1, BfInvInit, BfInvNext, PTL DEF Spec

(* No request that starts after a permanent lockout and before an unlock    *)
(* gets as far as the password (recordFailure disables the account, and     *)
(* only unlockUser enables it), for any number of requests.                 *)
THEOREM PermanentLockHoldsAlways == Spec => []PermanentLockHolds
  <1>1. BfInv => PermanentLockHolds
    BY DEF BfInv, PermanentLockHolds, All
  <1> QED
    BY <1>1, BfInvInit, BfInvNext, PTL DEF Spec

-----------------------------------------------------------------------------
(* Keys of machine owners.  A key without an expiry is only retired by a    *)
(* request that has created a later one without an expiry, so the latest    *)
(* such key is never retired by a rotation.  A key that a scheduler has     *)
(* retired is revoked or gone, so the schedulers that still hold it took it *)
(* before.                                                                  *)

KeyRowType == [kind : KeyKinds, exists : BOOLEAN, revoked : BOOLEAN, enabled : BOOLEAN,
               rotated : BOOLEAN, flag : BOOLEAN, createdAt : Nat, expiresAt : Nat]
KeyReqType == [pc : {"idle", "reread", "successor", "retire", "mark"}, id : KeyIds \cup {NoKey},
               kind : KeyKinds, until : Nat, by : {"admin", "scheduler"}]

KeyTypes ==
    /\ keyNow \in Nat /\ keyNow <= KeyMaxTime /\ nKeys \in 0..NKeys
    /\ keys \in [KeyIds -> KeyRowType] /\ keyReq \in [KeyReqs -> KeyReqType]
    /\ served \subseteq KeyKinds /\ auto \in [KeyIds -> Nat]

\* A row y that schedulers have rotated n times
KeyRowOk(y, n) == n > 0 => ~y.exists \/ y.revoked

\* What a request x knows of the key it rotates, of the keys ks 1..n
KeyReqOk(x, ks, n) ==
    x.pc # "idle" =>
        /\ x.id \in 1..n
        /\ x.by = "scheduler" => x.kind = "nhi"
        /\ ks[x.id].exists =>
             /\ ks[x.id].kind = x.kind
             /\ x.pc \in {"successor", "retire"} /\ ks[x.id].expiresAt = Unlimited
                  => x.until = Unlimited

Lasting(y, k) ==
    y.exists /\ y.kind = k /\ ~y.revoked /\ y.enabled /\ y.expiresAt = Unlimited

NoGap(k) ==
    /\ \E i \in KeyIds : Lasting(keys[i], k)
    /\ \A r \in KeyReqs : keyReq[r].pc = "retire" /\ Lasting(keys[keyReq[r].id], k) =>
         \E j \in KeyIds : j > keyReq[r].id /\ Lasting(keys[j], k)

Scheduled(i)  == {r \in KeyReqs : keyReq[r].by = "scheduler" /\ keyReq[r].id = i}
Completions(i) == auto[i] + Cardinality(Scheduled(i)) <= Cardinality(KeyReqs)

KeyInv ==
    /\ KeyTypes
    /\ \A i \in KeyIds : KeyRowOk(keys[i], auto[i])
    /\ \A i \in KeyIds : i > nKeys => ~keys[i].exists /\ auto[i] = 0
    /\ \A r \in KeyReqs : KeyReqOk(keyReq[r], keys, nKeys)
    /\ \A k \in served : NoGap(k)
    /\ \A i \in KeyIds : Completions(i)

\* The idle request, the absent key, and the types of the constants.
LEMMA KeyFacts ==
    /\ IdleKeyReq \in KeyReqType /\ IdleKeyReq.pc = "idle" /\ IdleKeyReq.by = "admin"
    /\ VoidKey \in KeyRowType /\ VoidKey.exists = FALSE
    /\ \A ks, n : KeyReqOk(IdleKeyReq, ks, n)
    /\ Unlimited \in Nat /\ KeyMaxTime \in Nat /\ Grace \in Nat /\ NKeys \in Nat
    /\ KeyIds = 1..NKeys
  <1>1. IdleKeyReq \in KeyReqType /\ IdleKeyReq.pc = "idle" /\ IdleKeyReq.by = "admin"
    BY DEF IdleKeyReq, KeyReqType, KeyKinds
  <1>2. VoidKey \in KeyRowType /\ VoidKey.exists = FALSE
    BY DEF VoidKey, FreshKey, KeyRowType, KeyKinds
  <1> QED
    BY <1>1, <1>2, KeyAssumption DEF KeyReqOk, Unlimited, KeyIds

\* The scheduler's requests on one key are at most the request slots.
LEMMA ScheduledCount ==
    ASSUME NEW i
    PROVE  /\ IsFiniteSet(KeyReqs) /\ Scheduled(i) \subseteq KeyReqs
           /\ Cardinality(Scheduled(i)) \in Nat /\ Cardinality(KeyReqs) \in Nat
           /\ Cardinality(Scheduled(i)) <= Cardinality(KeyReqs)
  BY KeyAssumption, CountType DEF Scheduled

\* No key exists at the start.
LEMMA KeyInvInit == ASSUME KeyInit PROVE KeyInv
  <1>1. KeyTypes
    BY KeyFacts DEF KeyInit, KeyTypes
  <1>2. \A i \in KeyIds : keys[i].exists = FALSE /\ auto[i] = 0
    BY KeyFacts DEF KeyInit
  <1>3. \A r \in KeyReqs : KeyReqOk(keyReq[r], keys, nKeys)
    BY KeyFacts DEF KeyInit
  <1>4. \A i \in KeyIds : Completions(i)
    BY <1>2, ScheduledCount DEF Completions
  <1> QED
    BY <1>1, <1>2, <1>3, <1>4 DEF KeyInv, KeyRowOk, KeyInit

\* The schedulers that hold a key become fewer, or it was never rotated.
LEMMA CompletionsKept ==
    ASSUME KeyInv, NEW i \in KeyIds, auto'[i] = auto[i],
           Scheduled(i)' \subseteq Scheduled(i) \/ auto[i] = 0
    PROVE  Completions(i)'
  <1>1. /\ Scheduled(i)' \subseteq KeyReqs /\ Cardinality(Scheduled(i)') \in Nat
        /\ Cardinality(Scheduled(i)') <= Cardinality(KeyReqs)
    <2>1. Scheduled(i)' \subseteq KeyReqs
      BY DEF Scheduled
    <2> QED
      BY <2>1, KeyAssumption, CountType
  <1>2. CASE auto[i] = 0
    BY <1>1, <1>2 DEF Completions
  <1>3. CASE Scheduled(i)' \subseteq Scheduled(i)
    <2>1. Cardinality(Scheduled(i)') <= Cardinality(Scheduled(i))
      BY <1>3, ScheduledCount, CountType
    <2>2. auto[i] \in Nat /\ auto[i] + Cardinality(Scheduled(i)) <= Cardinality(KeyReqs)
      BY DEF KeyInv, KeyTypes, Completions
    <2> QED
      BY <1>1, <2>1, <2>2, ScheduledCount DEF Completions
  <1> QED
    BY <1>2, <1>3

\* A request that retires nothing yet goes on; the keys stay.
LEMMA KeyReqMoves ==
    ASSUME KeyInv, NEW r \in KeyReqs, NEW x \in KeyReqType, x.pc # "retire",
           KeyReqOk(x, keys, nKeys), keyReq' = [keyReq EXCEPT ![r] = x],
           UNCHANGED <<keyNow, keys, nKeys, served, auto>>,
           x.by = "scheduler" => \/ x.id = keyReq[r].id /\ keyReq[r].by = "scheduler"
                                 \/ x.id \in KeyIds /\ auto[x.id] = 0
    PROVE  KeyInv'
  <1>1. /\ keyReq'[r] = x /\ keyReq' \in [KeyReqs -> KeyReqType]
        /\ \A q \in KeyReqs : q # r => keyReq'[q] = keyReq[q]
    BY DEF KeyInv, KeyTypes
  <1>2. KeyTypes'
    BY <1>1 DEF KeyInv, KeyTypes
  <1>3. \A q \in KeyReqs : KeyReqOk(keyReq'[q], keys', nKeys')
    BY <1>1 DEF KeyInv
  <1>4. ASSUME NEW k \in served PROVE NoGap(k)'
    BY <1>1 DEF KeyInv, NoGap
  <1>5. ASSUME NEW i \in KeyIds PROVE Completions(i)'
    <2>1. auto[i] = 0 \/ ~(x.by = "scheduler" /\ x.id = i) \/ r \in Scheduled(i)
      BY DEF Scheduled
    <2>2. Scheduled(i)' \subseteq Scheduled(i) \/ auto[i] = 0
      BY <1>1, <2>1 DEF Scheduled
    <2> QED
      BY <2>2, CompletionsKept
  <1> QED
    BY <1>2, <1>3, <1>4, <1>5 DEF KeyInv

\* An administrator's rotation reads the key it will replace.
LEMMA RotateReadStep ==
    ASSUME KeyInv, NEW r \in KeyReqs, NEW i \in KeyIds, RotateRead(r, i)
    PROVE  KeyInv'
  <1> DEFINE x == [pc |-> "successor", id |-> i, kind |-> keys[i].kind,
                   until |-> keys[i].expiresAt, by |-> "admin"]
  <1>1. /\ keys[i].exists /\ keyReq' = [keyReq EXCEPT ![r] = x]
        /\ UNCHANGED <<keyNow, keys, nKeys, served, auto>>
    BY DEF RotateRead
  <1>2. i \in 1..nKeys /\ keys[i] \in KeyRowType
    BY <1>1, KeyFacts DEF KeyInv, KeyTypes
  <1>3. x \in KeyReqType
    BY <1>2 DEF KeyReqType, KeyRowType
  <1>4. KeyReqOk(x, keys, nKeys)
    BY <1>1, <1>2 DEF KeyReqOk
  <1> QED
    BY <1>1, <1>3, <1>4, KeyReqMoves

\* What a scheduler finds due was not rotated.
LEMMA ScheduleItemStep ==
    ASSUME KeyInv, NEW r \in KeyReqs, NEW i \in KeyIds, ScheduleItem(r, i)
    PROVE  KeyInv'
  <1> DEFINE x == [IdleKeyReq EXCEPT !.pc = "reread", !.id = i, !.by = "scheduler"]
  <1>1. /\ i \in KeysOf("nhi") /\ ~keys[i].revoked /\ keyReq' = [keyReq EXCEPT ![r] = x]
        /\ UNCHANGED <<keyNow, keys, nKeys, served, auto>>
    BY DEF ScheduleItem
  <1>2. keys[i].exists /\ keys[i].kind = "nhi" /\ i \in 1..nKeys
    BY <1>1, KeyFacts DEF KeysOf, KeyInv, KeyTypes
  <1>3. auto[i] = 0
    BY <1>1, <1>2 DEF KeyInv, KeyTypes, KeyRowOk
  <1>4. /\ x \in KeyReqType /\ x.id = i /\ x.pc = "reread" /\ x.by = "scheduler"
        /\ x.kind = "nhi"
    BY DEF IdleKeyReq, KeyReqType, KeyKinds
  <1> HIDE DEF x
  <1>5. KeyReqOk(x, keys, nKeys)
    BY <1>2, <1>4 DEF KeyReqOk
  <1> QED
    BY <1>1, <1>3, <1>4, <1>5, KeyReqMoves

\* The scheduled rotation reads the key a second time, and ends if it was revoked.
LEMMA ScheduleRereadStep ==
    ASSUME KeyInv, NEW r \in KeyReqs, ScheduleReread(r)
    PROVE  KeyInv'
  <1> DEFINE i == keyReq[r].id
             x == [keyReq[r] EXCEPT !.pc = "successor", !.until = keys[i].expiresAt]
  <1>0. /\ keyReq[r] \in KeyReqType /\ keyReq \in [KeyReqs -> KeyReqType]
        /\ keyReq[r].pc = "reread" /\ UNCHANGED <<keyNow, keys, nKeys, served, auto>>
    BY DEF ScheduleReread, KeyInv, KeyTypes
  <1>1. KeyReqOk(keyReq[r], keys, nKeys)
    BY DEF KeyInv
  <1>2. CASE keyReq' = [keyReq EXCEPT ![r] = IdleKeyReq]
    BY <1>0, <1>2, KeyFacts, KeyReqMoves
  <1>3. CASE keyReq' = [keyReq EXCEPT ![r].pc = "successor", ![r].until = keys[i].expiresAt]
    <2>1. keyReq' = [keyReq EXCEPT ![r] = x]
      BY <1>0, <1>3
    <2>2. i \in KeyIds /\ keys[i].expiresAt \in Nat
      BY <1>0, <1>1, KeyFacts DEF KeyReqOk, KeyInv, KeyTypes, KeyRowType
    <2>3. /\ x \in KeyReqType /\ x.pc = "successor" /\ x.id = i /\ x.kind = keyReq[r].kind
          /\ x.by = keyReq[r].by /\ x.until = keys[i].expiresAt
      BY <1>0, <2>2 DEF KeyReqType
    <2> HIDE DEF x
    <2>4. KeyReqOk(x, keys, nKeys)
      BY <1>0, <1>1, <2>3 DEF KeyReqOk
    <2>5. x.by = "scheduler" => x.id = keyReq[r].id /\ keyReq[r].by = "scheduler"
      BY <2>3
    <2>6. x.pc # "retire"
      BY <2>3
    <2> QED
      BY <1>0, <2>1, <2>3, <2>4, <2>5, <2>6, KeyReqMoves
  <1> QED
    BY <1>2, <1>3 DEF ScheduleReread, KeyFinish

\* Keys of one kind, which nobody counts on any more, are revoked or removed.
LEMMA KeysWithdrawn ==
    ASSUME KeyInv, NEW k, keys' \in [KeyIds -> KeyRowType], served' = served \ {k},
           UNCHANGED <<keyNow, nKeys, keyReq, auto>>,
           \A i \in KeyIds : \/ keys'[i] = keys[i]
                             \/ keys'[i].exists = FALSE /\ keys[i].kind = k
                             \/ /\ keys[i].kind = k /\ keys'[i].kind = k /\ keys'[i].revoked = TRUE
                                /\ keys'[i].expiresAt = keys[i].expiresAt
                                /\ keys'[i].exists = keys[i].exists
    PROVE  KeyInv'
  <1>1. KeyTypes'
    BY DEF KeyInv, KeyTypes
  <1>2. \A i \in KeyIds : KeyRowOk(keys'[i], auto'[i])
    BY DEF KeyInv, KeyRowOk
  <1>3. \A i \in KeyIds : i > nKeys' => ~keys'[i].exists /\ auto'[i] = 0
    BY DEF KeyInv
  <1>4. ASSUME NEW r \in KeyReqs PROVE KeyReqOk(keyReq'[r], keys', nKeys')
    <2>1. KeyReqOk(keyReq[r], keys, nKeys) /\ \A n \in 1..nKeys : n \in KeyIds
      BY KeyFacts DEF KeyInv, KeyTypes
    <2> QED
      BY <2>1 DEF KeyReqOk
  <1>5. ASSUME NEW m \in served' PROVE NoGap(m)'
    <2>1. m \in served /\ m # k
      OBVIOUS
    <2>2. \A i \in KeyIds : Lasting(keys'[i], m) <=> Lasting(keys[i], m)
      BY <2>1 DEF Lasting
    <2>3. \A r \in KeyReqs : keyReq[r].pc = "retire" => keyReq[r].id \in KeyIds
      BY KeyFacts DEF KeyInv, KeyReqOk, KeyTypes
    <2> QED
      BY <2>1, <2>2, <2>3 DEF KeyInv, NoGap
  <1>6. \A i \in KeyIds : Completions(i)'
    BY CompletionsKept DEF Scheduled
  <1> QED
    BY <1>1, <1>2, <1>3, <1>4, <1>5, <1>6 DEF KeyInv

(* A new key: its id is above those of all others, so it serves every       *)
(* request that is about to retire a key of the same kind.                  *)
LEMMA KeyInserted ==
    ASSUME KeyInv, NEW k \in KeyKinds, NEW limit \in Nat, NEW flag \in BOOLEAN,
           InsertKey(k, limit, flag), UNCHANGED <<keyNow, auto>>,
           keyReq' \in [KeyReqs -> KeyReqType],
           \A q \in KeyReqs : KeyReqOk(keyReq'[q], keys, nKeys),
           \A q \in KeyReqs : keyReq'[q].by = keyReq[q].by /\ keyReq'[q].id = keyReq[q].id,
           \A q \in KeyReqs : keyReq'[q] = keyReq[q] \/ ~keys[keyReq[q].id].exists
                              \/ keys[keyReq[q].id].expiresAt # Unlimited
                              \/ (limit = Unlimited /\ k = keys[keyReq[q].id].kind),
           served' = served \/ (limit = Unlimited /\ served' = served \cup {k})
    PROVE  KeyInv'
  <1> DEFINE n == nKeys + 1
             y == FreshKey(k, keyNow, limit, flag)
  <1>0. /\ nKeys' = n /\ keys' = [keys EXCEPT ![n] = y] /\ n \in KeyIds /\ nKeys \in Nat
        /\ KeyIds = 1..NKeys /\ NKeys \in Nat /\ n \in 0..NKeys
    BY KeyFacts DEF InsertKey, KeyInv, KeyTypes
  <1>1. /\ y \in KeyRowType /\ y.kind = k /\ y.expiresAt = limit
        /\ y.exists = TRUE /\ y.revoked = FALSE /\ y.enabled = TRUE
    BY DEF FreshKey, KeyRowType, KeyInv, KeyTypes
  <1> HIDE DEF y
  <1>2. /\ keys'[n] = y /\ keys' \in [KeyIds -> KeyRowType]
        /\ \A i \in KeyIds : i # n => keys'[i] = keys[i]
        /\ keys[n].exists = FALSE /\ auto[n] = 0
    BY <1>0, <1>1 DEF KeyInv, KeyTypes, KeyRowType
  <1>3. KeyTypes'
    BY <1>0, <1>2 DEF KeyInv, KeyTypes
  <1>4. \A i \in KeyIds : KeyRowOk(keys'[i], auto'[i])
    BY <1>2 DEF KeyInv, KeyRowOk
  <1>5. \A i \in KeyIds : i > nKeys' => ~keys'[i].exists /\ auto'[i] = 0
    BY <1>0, <1>2 DEF KeyInv
  <1>6. ASSUME NEW q \in KeyReqs PROVE KeyReqOk(keyReq'[q], keys', nKeys')
    BY <1>0, <1>2 DEF KeyReqOk
  <1>7. ASSUME NEW m \in served' PROVE NoGap(m)'
    <2>1. \A i \in KeyIds : Lasting(keys[i], m) => Lasting(keys'[i], m)
      BY <1>2 DEF Lasting
    <2>2. \A q \in KeyReqs : keyReq'[q].pc = "retire" =>
            keyReq'[q].id \in KeyIds /\ keyReq'[q].id < n
      BY <1>0 DEF KeyReqOk
    <2>3. CASE limit = Unlimited /\ m = k
      <3>1. Lasting(keys'[n], m)
        BY <1>1, <1>2, <2>3 DEF Lasting
      <3> QED
        BY <1>0, <2>2, <3>1 DEF NoGap
    <2>4. CASE ~(limit = Unlimited /\ m = k)
      <3>1. m \in served /\ NoGap(m)
        BY <2>4 DEF KeyInv
      <3>2. ASSUME NEW q \in KeyReqs, keyReq'[q].pc = "retire", Lasting(keys'[keyReq'[q].id], m)
            PROVE  \E j \in KeyIds : j > keyReq'[q].id /\ Lasting(keys'[j], m)
        <4>1. keyReq'[q].id # n /\ keyReq'[q].id = keyReq[q].id /\ keyReq'[q].id \in KeyIds
          BY <1>0, <2>2, <3>2
        <4>2. Lasting(keys[keyReq[q].id], m)
          BY <1>2, <3>2, <4>1
        <4>3. keyReq'[q] = keyReq[q]
          BY <2>4, <4>2 DEF Lasting
        <4> QED
          BY <2>1, <3>1, <3>2, <4>2, <4>3 DEF NoGap
      <3>3. \E i \in KeyIds : Lasting(keys'[i], m)
        BY <2>1, <3>1 DEF NoGap
      <3> QED
        BY <3>2, <3>3 DEF NoGap
    <2> QED
      BY <2>3, <2>4
  <1>8. ASSUME NEW i \in KeyIds PROVE Completions(i)'
    <2>1. Scheduled(i)' = Scheduled(i)
      BY DEF Scheduled
    <2> QED
      BY <2>1, CompletionsKept
  <1> QED
    BY <1>3, <1>4, <1>5, <1>6, <1>7, <1>8 DEF KeyInv

\* The successor takes the kind and the expiry the rotation has read.
LEMMA CreateSuccessorStep ==
    ASSUME KeyInv, NEW r \in KeyReqs, CreateSuccessor(r)
    PROVE  KeyInv'
  <1> DEFINE x == [keyReq[r] EXCEPT !.pc = "retire"]
  <1>0. /\ keyReq[r] \in KeyReqType /\ keyReq \in [KeyReqs -> KeyReqType]
        /\ keyReq[r].pc = "successor" /\ UNCHANGED <<keyNow, served, auto>>
        /\ InsertKey(keyReq[r].kind, keyReq[r].until, FALSE)
        /\ keyReq[r].kind \in KeyKinds /\ keyReq[r].until \in Nat
    BY DEF CreateSuccessor, KeyInv, KeyTypes, KeyReqType
  <1>1. KeyReqOk(keyReq[r], keys, nKeys)
    BY DEF KeyInv
  <1>2. keyReq' = [keyReq EXCEPT ![r] = x]
    BY <1>0 DEF CreateSuccessor, KeyGoto
  <1>3. /\ x \in KeyReqType /\ x.pc = "retire" /\ x.id = keyReq[r].id /\ x.by = keyReq[r].by
        /\ x.kind = keyReq[r].kind /\ x.until = keyReq[r].until
    BY <1>0 DEF KeyReqType
  <1> HIDE DEF x
  <1>4. KeyReqOk(x, keys, nKeys)
    BY <1>0, <1>1, <1>3 DEF KeyReqOk
  <1>5. /\ keyReq'[r] = x /\ keyReq' \in [KeyReqs -> KeyReqType]
        /\ \A q \in KeyReqs : q # r => keyReq'[q] = keyReq[q]
    BY <1>0, <1>2, <1>3
  <1>6. \A q \in KeyReqs : KeyReqOk(keyReq'[q], keys, nKeys)
    BY <1>4, <1>5 DEF KeyInv
  <1>7. \A q \in KeyReqs : keyReq'[q].by = keyReq[q].by /\ keyReq'[q].id = keyReq[q].id
    BY <1>3, <1>5
  <1>8. \A q \in KeyReqs : keyReq'[q] = keyReq[q] \/ ~keys[keyReq[q].id].exists
                           \/ keys[keyReq[q].id].expiresAt # Unlimited
                           \/ (keyReq[r].until = Unlimited /\ keyReq[r].kind = keys[keyReq[q].id].kind)
    BY <1>0, <1>1, <1>5 DEF KeyReqOk
  <1>9. FALSE \in BOOLEAN
    OBVIOUS
  <1> QED
    BY <1>0, <1>5, <1>6, <1>7, <1>8, <1>9, KeyInserted

(* The key is retired: a later one without an expiry stays, and so does the *)
(* one that any other request relies on.                                    *)
LEMMA RetireStep ==
    ASSUME KeyInv, NEW r \in KeyReqs, Retire(r)
    PROVE  KeyInv'
  <1> DEFINE i == keyReq[r].id
             y == keys'[i]
             x == keyReq'[r]
  <1>0. /\ keyReq[r] \in KeyReqType /\ keyReq \in [KeyReqs -> KeyReqType]
        /\ keyReq[r].pc = "retire" /\ keys[i].exists /\ UNCHANGED <<keyNow, nKeys, served>>
        /\ keyNow \in Nat /\ keyNow <= KeyMaxTime /\ keys \in [KeyIds -> KeyRowType]
    BY DEF Retire, KeyInv, KeyTypes
  <1>1. /\ KeyReqOk(keyReq[r], keys, nKeys) /\ i \in 1..nKeys /\ i \in KeyIds
        /\ keys[i].kind = keyReq[r].kind /\ (keyReq[r].by = "scheduler" => keyReq[r].kind = "nhi")
        /\ keys[i] \in KeyRowType
    BY <1>0, KeyFacts DEF KeyInv, KeyTypes, KeyReqOk
  <1>2. /\ y \in KeyRowType /\ y.kind = keys[i].kind /\ y.exists = TRUE
        /\ y.expiresAt # Unlimited \/ y.revoked = TRUE
        /\ keys[i].revoked => y.revoked
        /\ y.expiresAt = Unlimited => keys[i].expiresAt = Unlimited
        /\ keyReq[r].by = "scheduler" => y.revoked = TRUE
        /\ keys' = [keys EXCEPT ![i] = y]
    <2> DEFINE a == [keys[i] EXCEPT !.expiresAt = keyNow + Grace]
               b == [keys[i] EXCEPT !.revoked = TRUE]
               c == [keys[i] EXCEPT !.revoked = TRUE, !.enabled = FALSE, !.rotated = TRUE]
    <2>1. keyNow + Grace \in Nat /\ keyNow + Grace # Unlimited
      BY <1>0, KeyFacts DEF Unlimited
    <2>2. /\ a \in KeyRowType /\ a.kind = keys[i].kind /\ a.exists = keys[i].exists
          /\ a.expiresAt # Unlimited /\ a.revoked = keys[i].revoked
      BY <1>1, <2>1 DEF KeyRowType
    <2>3. /\ b \in KeyRowType /\ b.kind = keys[i].kind /\ b.exists = keys[i].exists
          /\ b.revoked = TRUE /\ b.expiresAt = keys[i].expiresAt
      BY <1>1 DEF KeyRowType
    <2>4. /\ c \in KeyRowType /\ c.kind = keys[i].kind /\ c.exists = keys[i].exists
          /\ c.revoked = TRUE /\ c.expiresAt = keys[i].expiresAt
      BY <1>1 DEF KeyRowType
    <2>5. \/ keys[i].kind = "api" /\ keys' = [keys EXCEPT ![i] = a]
          \/ keys' = [keys EXCEPT ![i] = b]
          \/ keys' = [keys EXCEPT ![i] = c]
      <3>1. CASE keys[i].kind = "api"
        BY <1>0, <3>1 DEF Retire
      <3>2. CASE keys[i].kind = "nhi" /\ keyReq[r].by = "admin"
        BY <1>0, <3>2 DEF Retire
      <3>3. CASE keys[i].kind # "api" /\ ~(keys[i].kind = "nhi" /\ keyReq[r].by = "admin")
        BY <1>0, <3>3 DEF Retire
      <3> QED
        BY <3>1, <3>2, <3>3
    <2> HIDE DEF a, b, c
    <2>6. keys[i].exists = TRUE
      BY <1>0, <1>1 DEF KeyRowType
    <2>7. keys'[i] \in {a, b, c} /\ (keys'[i] = a /\ a # b /\ a # c => keys[i].kind = "api")
      BY <1>0, <1>1, <2>5
    <2>8. keys' = [keys EXCEPT ![i] = keys'[i]]
      BY <1>0, <1>1, <2>5
    <2>9. CASE keys'[i] = a /\ keys[i].kind = "api"
      BY <1>1, <2>2, <2>6, <2>8, <2>9
    <2>10. CASE keys'[i] = b \/ keys'[i] = c
      BY <1>1, <2>3, <2>4, <2>6, <2>8, <2>10
    <2> QED
      BY <2>7, <2>9, <2>10
  <1>3. /\ x \in KeyReqType /\ keyReq' = [keyReq EXCEPT ![r] = x] /\ x.pc \in {"idle", "mark"}
        /\ x.by = "admin" /\ (x.pc = "mark" => x.id = i /\ x.kind = keyReq[r].kind)
    <2> DEFINE m == [keyReq[r] EXCEPT !.pc = "mark"]
    <2>1. CASE keyReq[r].kind = "nhi" /\ keyReq[r].by = "admin"
      <3>1. keyReq' = [keyReq EXCEPT ![r] = m]
        BY <1>0, <2>1 DEF Retire, KeyGoto
      <3>2. /\ m \in KeyReqType /\ m.pc = "mark" /\ m.by = "admin" /\ m.id = i
            /\ m.kind = keyReq[r].kind
        BY <1>0, <2>1 DEF KeyReqType
      <3> HIDE DEF m
      <3> QED
        BY <1>0, <3>1, <3>2
    <2>2. CASE ~(keyReq[r].kind = "nhi" /\ keyReq[r].by = "admin")
      BY <1>0, <2>2, KeyFacts DEF Retire, KeyFinish
    <2> QED
      BY <2>1, <2>2
  <1>4. /\ auto' \in [KeyIds -> Nat] /\ \A j \in KeyIds : j # i => auto'[j] = auto[j]
        /\ auto'[i] = auto[i] + IF keyReq[r].by = "scheduler" THEN 1 ELSE 0
    <2>1. auto \in [KeyIds -> Nat]
      BY DEF KeyInv, KeyTypes
    <2>2. CASE keyReq[r].by = "scheduler"
      BY <1>1, <2>1, <2>2 DEF Retire
    <2>3. CASE keyReq[r].by # "scheduler"
      BY <1>1, <2>1, <2>3 DEF Retire
    <2> QED
      BY <2>2, <2>3
  <1> HIDE DEF x, y
  <1>5. /\ keys' \in [KeyIds -> KeyRowType] /\ keys'[i] = y
        /\ \A j \in KeyIds : j # i => keys'[j] = keys[j]
        /\ keyReq' \in [KeyReqs -> KeyReqType] /\ keyReq'[r] = x
        /\ \A q \in KeyReqs : q # r => keyReq'[q] = keyReq[q]
    BY <1>0, <1>1, <1>2, <1>3
  <1>6. KeyTypes'
    BY <1>0, <1>4, <1>5 DEF KeyInv, KeyTypes
  <1>7. ASSUME NEW j \in KeyIds PROVE KeyRowOk(keys'[j], auto'[j])
    <2>1. CASE j # i
      BY <1>4, <1>5, <2>1 DEF KeyInv, KeyRowOk
    <2>2. CASE j = i /\ keyReq[r].by = "scheduler"
      BY <1>2, <1>5, <2>2 DEF KeyRowOk
    <2>3. CASE j = i /\ keyReq[r].by # "scheduler"
      <3>1. auto'[i] = auto[i] /\ KeyRowOk(keys[i], auto[i])
        BY <1>1, <1>4, <2>3 DEF KeyInv, KeyTypes
      <3> QED
        BY <1>0, <1>2, <1>5, <2>3, <3>1 DEF KeyRowOk
    <2> QED
      BY <2>1, <2>2, <2>3
  <1>8. \A j \in KeyIds : j > nKeys' => ~keys'[j].exists /\ auto'[j] = 0
    BY <1>0, <1>1, <1>4, <1>5 DEF KeyInv, KeyTypes
  <1>9. ASSUME NEW q \in KeyReqs PROVE KeyReqOk(keyReq'[q], keys', nKeys')
    <2>1. KeyReqOk(keyReq[q], keys, nKeys) /\ \A n \in 1..nKeys : n \in KeyIds
      BY KeyFacts DEF KeyInv, KeyTypes
    <2>2. CASE q = r
      BY <1>0, <1>1, <1>2, <1>3, <1>5, <2>2 DEF KeyReqOk
    <2>3. CASE q # r
      BY <1>0, <1>2, <1>5, <2>1, <2>3 DEF KeyReqOk
    <2> QED
      BY <2>2, <2>3
  <1>10. ASSUME NEW k \in served' PROVE NoGap(k)'
    <2>0. NoGap(k) /\ \A n \in KeyIds : n \in Nat
      BY <1>0, KeyFacts DEF KeyInv
    <2>1. ~Lasting(keys'[i], k)
      BY <1>2, <1>5 DEF Lasting
    <2>2. \A j \in KeyIds : j # i => (Lasting(keys'[j], k) <=> Lasting(keys[j], k))
      BY <1>5
    <2>3. ASSUME NEW j \in KeyIds, Lasting(keys[j], k)
          PROVE  \E n \in KeyIds : n >= j /\ n # i /\ Lasting(keys[n], k)
      <3>1. CASE j # i
        BY <2>0, <2>3, <3>1
      <3>2. CASE j = i
        BY <1>0, <2>0, <2>3, <3>2 DEF NoGap
      <3> QED
        BY <3>1, <3>2
    <2>4. \E n \in KeyIds : Lasting(keys'[n], k)
      BY <2>0, <2>2, <2>3 DEF NoGap
    <2>5. ASSUME NEW q \in KeyReqs, keyReq'[q].pc = "retire", Lasting(keys'[keyReq'[q].id], k)
          PROVE  \E n \in KeyIds : n > keyReq'[q].id /\ Lasting(keys'[n], k)
      <3>1. q # r /\ keyReq'[q] = keyReq[q]
        BY <1>3, <1>5, <2>5
      <3>2. keyReq[q].id \in KeyIds /\ keyReq[q].id # i
        BY <1>9, <2>1, <2>5, <3>1, KeyFacts DEF KeyReqOk, KeyInv, KeyTypes
      <3>3. PICK j \in KeyIds : j > keyReq[q].id /\ Lasting(keys[j], k)
        BY <2>0, <2>2, <2>5, <3>1, <3>2 DEF NoGap
      <3>4. PICK n \in KeyIds : n >= j /\ n # i /\ Lasting(keys[n], k)
        BY <2>3, <3>3
      <3> QED
        BY <2>0, <2>2, <3>1, <3>2, <3>3, <3>4
    <2> QED
      BY <2>4, <2>5 DEF NoGap
  <1>11. ASSUME NEW j \in KeyIds PROVE Completions(j)'
    <2>1. Scheduled(j)' = IF keyReq[r].by = "scheduler" /\ j = i THEN Scheduled(j) \ {r}
                                                                ELSE Scheduled(j)
      BY <1>3, <1>5 DEF Scheduled
    <2>2. CASE keyReq[r].by = "scheduler" /\ j = i
      <3>1. r \in Scheduled(j)
        BY <2>2 DEF Scheduled
      <3>2. Cardinality(Scheduled(j)') = Cardinality(Scheduled(j)) - 1
        BY <2>1, <2>2, <3>1, ScheduledCount, CountLoses
      <3>3. auto[j] \in Nat /\ auto[j] + Cardinality(Scheduled(j)) <= Cardinality(KeyReqs)
        BY DEF KeyInv, KeyTypes, Completions
      <3> QED
        BY <1>4, <2>2, <3>2, <3>3, ScheduledCount DEF Completions
    <2>3. CASE ~(keyReq[r].by = "scheduler" /\ j = i)
      <3>1. auto'[j] = auto[j]
        BY <1>4, <2>3 DEF KeyInv, KeyTypes
      <3> QED
        BY <2>1, <2>3, <3>1, CompletionsKept
    <2> QED
      BY <2>2, <2>3
  <1> QED
    BY <1>6, <1>7, <1>8, <1>9, <1>10, <1>11 DEF KeyInv

\* The old key is marked as rotated, and the rotation ends.
LEMMA MarkRotatedStep ==
    ASSUME KeyInv, NEW r \in KeyReqs, MarkRotated(r)
    PROVE  KeyInv'
  <1> DEFINE i == keyReq[r].id
             y == [keys[i] EXCEPT !.rotated = TRUE]
  <1>0. /\ keyReq[r].pc = "mark" /\ KeyFinish(r) /\ keys \in [KeyIds -> KeyRowType]
        /\ UNCHANGED <<keyNow, nKeys, owned, served, auto>> /\ i \in KeyIds
        /\ keys[i] \in KeyRowType /\ keys' = [keys EXCEPT ![i] = y]
    BY KeyFacts DEF MarkRotated, KeyInv, KeyTypes, KeyReqOk
  <1>1. /\ y \in KeyRowType /\ y.kind = keys[i].kind /\ y.exists = keys[i].exists
        /\ y.revoked = keys[i].revoked /\ y.enabled = keys[i].enabled
        /\ y.expiresAt = keys[i].expiresAt
    BY <1>0 DEF KeyRowType
  <1> HIDE DEF y
  <1>2. /\ keys' \in [KeyIds -> KeyRowType]
        /\ \A j \in KeyIds : /\ keys'[j].kind = keys[j].kind /\ keys'[j].exists = keys[j].exists
                             /\ keys'[j].revoked = keys[j].revoked
                             /\ keys'[j].enabled = keys[j].enabled
                             /\ keys'[j].expiresAt = keys[j].expiresAt
    BY <1>0, <1>1
  <1>3. /\ keyReq'[r] = IdleKeyReq /\ keyReq' \in [KeyReqs -> KeyReqType]
        /\ \A q \in KeyReqs : q # r => keyReq'[q] = keyReq[q]
    BY <1>0, KeyFacts DEF KeyFinish, KeyInv, KeyTypes
  <1>4. KeyTypes'
    BY <1>0, <1>2, <1>3 DEF KeyInv, KeyTypes
  <1>5. \A j \in KeyIds : /\ KeyRowOk(keys'[j], auto'[j])
                          /\ j > nKeys' => ~keys'[j].exists /\ auto'[j] = 0
    BY <1>0, <1>2 DEF KeyInv, KeyRowOk
  <1>6. ASSUME NEW q \in KeyReqs PROVE KeyReqOk(keyReq'[q], keys', nKeys')
    <2>1. KeyReqOk(keyReq[q], keys, nKeys) /\ \A n \in 1..nKeys : n \in KeyIds
      BY KeyFacts DEF KeyInv, KeyTypes
    <2> QED
      BY <1>0, <1>2, <1>3, <2>1, KeyFacts DEF KeyReqOk
  <1>7. ASSUME NEW k \in served' PROVE NoGap(k)'
    <2>1. NoGap(k) /\ \A j \in KeyIds : Lasting(keys'[j], k) <=> Lasting(keys[j], k)
      BY <1>0, <1>2 DEF Lasting, KeyInv
    <2>2. \A q \in KeyReqs : keyReq[q].pc = "retire" => keyReq[q].id \in KeyIds
      BY KeyFacts DEF KeyInv, KeyReqOk, KeyTypes
    <2> QED
      BY <1>3, <2>1, <2>2, KeyFacts DEF NoGap
  <1>8. ASSUME NEW j \in KeyIds PROVE Completions(j)'
    <2>1. Scheduled(j)' \subseteq Scheduled(j)
      BY <1>3, KeyFacts DEF Scheduled
    <2> QED
      BY <1>0, <2>1, CompletionsKept
  <1> QED
    BY <1>4, <1>5, <1>6, <1>7, <1>8 DEF KeyInv

\* Every step of the key store keeps its invariant.
LEMMA KeyInvNext == ASSUME KeyInv, [KeyNext]_keyVars PROVE KeyInv'
  <1>0. keys \in [KeyIds -> KeyRowType]
    BY DEF KeyInv, KeyTypes
  <1>1. ASSUME NEW k \in KeyKinds, NEW limit \in {KeyMaxTime, Unlimited}, NEW flag \in BOOLEAN,
               CreateKey(k, limit, flag)
        PROVE  KeyInv'
    <2>1. /\ InsertKey(k, limit, flag) /\ UNCHANGED <<keyNow, owned, keyReq, auto>>
          /\ served' = served \/ (limit = Unlimited /\ served' = served \cup {k})
      BY <1>1 DEF CreateKey
    <2>2. /\ limit \in Nat /\ keyReq' \in [KeyReqs -> KeyReqType]
          /\ \A q \in KeyReqs : KeyReqOk(keyReq'[q], keys, nKeys)
      BY <2>1, KeyFacts DEF KeyInv, KeyTypes
    <2> QED
      BY <2>1, <2>2, KeyInserted
  <1>2. ASSUME NEW i \in KeyIds, RevokeKey(i) PROVE KeyInv'
    <2> DEFINE y == [keys[i] EXCEPT !.revoked = TRUE]
    <2>1. /\ keys' = [keys EXCEPT ![i] = y] /\ served' = served \ {keys[i].kind}
          /\ UNCHANGED <<keyNow, nKeys, owned, keyReq, auto>>
      BY <1>0, <1>2 DEF RevokeKey
    <2>2. /\ y \in KeyRowType /\ y.kind = keys[i].kind /\ y.exists = keys[i].exists
          /\ y.revoked = TRUE /\ y.expiresAt = keys[i].expiresAt
      BY <1>0 DEF KeyRowType
    <2> HIDE DEF y
    <2>3. keys' \in [KeyIds -> KeyRowType] /\ keys'[i] = y
          /\ \A j \in KeyIds : j # i => keys'[j] = keys[j]
      BY <1>0, <2>1, <2>2
    <2> QED
      BY <2>1, <2>2, <2>3, KeysWithdrawn
  <1>3. CASE Decommission
    <2>1. /\ keys' = [i \in KeyIds |-> IF i \in KeysOf("nhi") THEN [keys[i] EXCEPT !.revoked = TRUE]
                                                             ELSE keys[i]]
          /\ served' = served \ {"nhi"} /\ UNCHANGED <<keyNow, nKeys, owned, keyReq, auto>>
      BY <1>3 DEF Decommission
    <2>2. ASSUME NEW i \in KeyIds
          PROVE  LET y == [keys[i] EXCEPT !.revoked = TRUE] IN
                 /\ y \in KeyRowType /\ y.kind = keys[i].kind /\ y.exists = keys[i].exists
                 /\ y.revoked = TRUE /\ y.expiresAt = keys[i].expiresAt
      BY <1>0 DEF KeyRowType
    <2>3. keys' \in [KeyIds -> KeyRowType]
      BY <1>0, <2>1, <2>2
    <2>4. ASSUME NEW i \in KeyIds
          PROVE  \/ keys'[i] = keys[i]
                 \/ /\ keys[i].kind = "nhi" /\ keys'[i].kind = "nhi" /\ keys'[i].revoked = TRUE
                    /\ keys'[i].expiresAt = keys[i].expiresAt
                    /\ keys'[i].exists = keys[i].exists
      <3>1. CASE i \in KeysOf("nhi")
        <4>1. keys'[i] = [keys[i] EXCEPT !.revoked = TRUE] /\ keys[i].kind = "nhi"
          BY <2>1, <3>1 DEF KeysOf
        <4> QED
          BY <2>2, <4>1
      <3>2. CASE i \notin KeysOf("nhi")
        BY <2>1, <3>2
      <3> QED
        BY <3>1, <3>2
    <2> QED
      BY <2>1, <2>3, <2>4, KeysWithdrawn
  <1>4. ASSUME NEW k \in KeyKinds, RemoveOwner(k) PROVE KeyInv'
    <2>1. /\ keys' = [i \in KeyIds |-> IF i \in KeysOf(k) THEN VoidKey ELSE keys[i]]
          /\ served' = served \ {k} /\ UNCHANGED <<keyNow, nKeys, keyReq, auto>>
      BY <1>4 DEF RemoveOwner
    <2>2. /\ keys' \in [KeyIds -> KeyRowType]
          /\ \A i \in KeyIds : keys'[i] = keys[i] \/ (keys'[i].exists = FALSE /\ keys[i].kind = k)
      BY <1>0, <2>1, KeyFacts DEF KeysOf
    <2> QED
      BY <2>1, <2>2, KeysWithdrawn
  <1>5. ASSUME NEW r \in KeyReqs, Rotation(r) PROVE KeyInv'
    BY <1>5, RotateReadStep, ScheduleItemStep, ScheduleRereadStep, CreateSuccessorStep,
       RetireStep, MarkRotatedStep DEF Rotation
  <1>6. ASSUME NEW r \in KeyReqs, KeyAbort(r) PROVE KeyInv'
    BY <1>6, KeyFacts, KeyReqMoves DEF KeyAbort, KeyFinish
  <1>7. CASE KeyTick \/ UNCHANGED keyVars
    <2>1. /\ UNCHANGED <<keys, nKeys, keyReq, served, auto>>
          /\ keyNow' \in Nat /\ keyNow' <= KeyMaxTime
      BY <1>7, KeyFacts DEF KeyTick, keyVars, KeyInv, KeyTypes
    <2>2. KeyTypes'
      BY <2>1 DEF KeyInv, KeyTypes
    <2>3. \A k \in served' : NoGap(k)'
      BY <2>1 DEF KeyInv, NoGap
    <2>4. \A i \in KeyIds : Completions(i)'
      BY <2>1 DEF KeyInv, Completions, Scheduled
    <2> QED
      BY <2>1, <2>2, <2>3, <2>4 DEF KeyInv
  <1> QED
    BY <1>1, <1>2, <1>3, <1>4, <1>5, <1>6, <1>7 DEF KeyNext

(* Rotation leaves no gap (rotateCredential, rotateApiKey), for any number  *)
(* of rotations of the same and of successive keys at once, wherever they   *)
(* are cut off, any number of keys and any periods.                         *)
THEOREM KeysNoGapHolds == KeySpec => []KeysNoGap
  <1>1. KeyInv => KeysNoGap
    <2> SUFFICES ASSUME KeyInv, NEW k \in served
                 PROVE  \E i \in KeysOf(k) : Usable(i) /\ keys[i].expiresAt = Unlimited
      BY DEF KeysNoGap
    <2>1. PICK i \in KeyIds : Lasting(keys[i], k)
      BY DEF KeyInv, NoGap
    <2>2. Unlimited >= keyNow
      BY KeyFacts DEF Unlimited, KeyInv, KeyTypes
    <2> QED
      BY <2>1, <2>2 DEF Lasting, KeysOf, Usable
  <1> QED
    BY <1>1, KeyInvInit, KeyInvNext, PTL DEF KeySpec

(* Schedulers complete the rotation of one key at most once each            *)
(* (NhiRotationScheduler), although no statement is conditional on the      *)
(* key's state, for any number of them.                                     *)
THEOREM KeysSuccessorsBoundedHolds == KeySpec => []KeysSuccessorsBounded
  <1>1. KeyInv => KeysSuccessorsBounded
    <2> SUFFICES ASSUME KeyInv, NEW i \in KeyIds PROVE auto[i] <= Cardinality(KeyReqs)
      BY DEF KeysSuccessorsBounded
    <2>1. auto[i] \in Nat /\ auto[i] + Cardinality(Scheduled(i)) <= Cardinality(KeyReqs)
      BY DEF KeyInv, KeyTypes, Completions
    <2> QED
      BY <2>1, ScheduledCount
  <1> QED
    BY <1>1, KeyInvInit, KeyInvNext, PTL DEF KeySpec

-----------------------------------------------------------------------------
(* Upgrades.  Until its migration starts an undisturbed run has the         *)
(* database it found; from then on the database has grown out of that one   *)
(* by migrations of the run only; from the record of its dump on, the       *)
(* archive on its audit row is the database it found; every path that ends  *)
(* a run lowers its flag.                                                   *)

JobPcs == {"idle", "done", "dead", "check", "initialize", "validate", "dump", "record_dump",
           "config", "migrate", "migrating", "health", "complete", "fail", "rollback",
           "restore", "record", "manual_restore", "manual_record"}
Answers == {"none", "refused", "success", "failed", "rolled_back", "rollback_failed"}
Dumps   == Databases \cup {NoBackup}

JobType   == [pc : JobPcs, at : Instances \cup {Nobody}, dry : BOOLEAN, force : BOOLEAN,
              dump : Dumps, of : UpgReqs \cup {Nobody}, restored : BOOLEAN, answer : Answers]
AuditType == [status : {"none", "running", "completed", "failed"}, startedAt : Nat,
              doneAt : Nat, backup : Dumps]
SeenType  == [before : Dumps, end : Dumps, disturbed : BOOLEAN, migrated : BOOLEAN]

UpgTypes ==
    /\ upgNow \in Nat /\ db \in Databases
    /\ audit \in [UpgReqs -> AuditType] /\ job \in [UpgReqs -> JobType]
    /\ seen \in [UpgReqs -> SeenType] /\ inFlight \in [Instances -> BOOLEAN]

Migrated(d) == d.applied = Target /\ ~d.failed

\* Migrations after those of database a were applied, one or several or none.
Grown(a, d) ==
    /\ a.applied <= d.applied /\ a.made \subseteq d.made
    /\ d.made \ a.made \subseteq Creating \cap (a.applied + 1)..Target

\* A run x that has not changed the database
Untouched(x) ==
    \/ x.pc \in {"check", "initialize", "validate", "dump", "record_dump", "config", "migrate"}
    \/ x.dry /\ x.pc \in {"health", "complete"}
    \/ x.pc = "fail" /\ x.of = Nobody

\* A run x whose dump is on its audit row
Covered(x) ==
    \/ ~x.dry /\ x.pc \in {"config", "migrate", "migrating", "health", "complete", "rollback",
                           "restore", "record"}
    \/ x.pc = "fail" /\ x.of # Nobody

Restored(x) == x.restored /\ (x.pc = "record" \/ (x.pc = "fail" /\ x.of # Nobody))

Truthful(x, h, b) ==
    /\ x.answer = "success" => IF x.dry THEN h.end = h.before ELSE Migrated(h.end)
    /\ x.answer = "failed" => h.end = h.before
    /\ x.answer = "rolled_back" => BackTo(h.before, h.end)
    /\ x.answer = "rollback_failed" => b = h.before

\* Request r with local variables x, history h and archive b, on database d
JobOk(r, x, h, b, d) ==
    /\ x.pc \in {"idle", "check", "initialize"} => b = NoBackup
    /\ x.pc \in {"idle", "check", "initialize", "validate", "dump", "record_dump"} => ~h.migrated
    /\ x.pc \in {"check", "migrate", "migrating", "rollback", "restore", "record"} => ~x.dry
    /\ x.pc \in {"restore", "record"} => x.of = r
    /\ x.pc \in {"check", "initialize", "validate", "dump", "record_dump", "config",
                "migrate", "migrating", "health"} => x.of = Nobody
    /\ x.pc \in {"check", "initialize", "validate", "dump", "record_dump", "config",
                "migrate", "migrating", "health", "rollback"} => ~x.restored
    /\ x.pc = "record_dump" => x.dump \in Databases
    /\ Covered(x) \/ h.migrated => b # NoBackup
    /\ ~h.disturbed =>
         /\ Untouched(x) => d = h.before
         /\ x.pc = "record_dump" => x.dump = h.before
         /\ Covered(x) \/ h.migrated => b = h.before
         /\ Covered(x) /\ ~Untouched(x) => Grown(h.before, d)
         /\ ~x.dry /\ x.pc \in {"health", "complete"} => Migrated(d)
         /\ Restored(x) => BackTo(h.before, d)
         /\ x.pc = "done" => Truthful(x, h, b)

\* A manual rollback has found an archive.
ManualOk(x, au) == x.pc = "manual_restore" => x.of \in UpgReqs /\ au[x.of].backup # NoBackup

\* A run x that keeps the flag of instance i up
Holds(x, i) ==
    /\ x.pc \notin {"idle", "done", "dead", "check", "manual_restore", "manual_record"}
    /\ x.at = i /\ ~x.dry

UpgInv ==
    /\ UpgTypes
    /\ \A r \in UpgReqs : JobOk(r, job[r], seen[r], audit[r].backup, db)
    /\ \A r \in UpgReqs : ManualOk(job[r], audit)
    /\ \A i \in Instances : inFlight[i] => \E r \in UpgReqs : Holds(job[r], i)

\* The idle job, the absent backup, audit row and history.
LEMMA UpgFacts ==
    /\ NoBackup \notin Databases /\ Databases \subseteq Dumps
    /\ NoJob \in JobType /\ NoJob.pc = "idle" /\ NoJob.answer = "none" /\ NoJob.of = Nobody
    /\ NoJob.restored = FALSE
    /\ NoAudit \in AuditType /\ NoAudit.backup = NoBackup
    /\ NotSeen \in SeenType /\ NotSeen.disturbed = FALSE /\ NotSeen.migrated = FALSE
  <1>1. NoBackup \notin Databases /\ Databases \subseteq Dumps /\ NoBackup \in Dumps
    BY UpgradeAssumption DEF NoBackup, Databases, Dumps
  <1>2. NoJob \in JobType /\ NoJob.pc = "idle" /\ NoJob.answer = "none" /\ NoJob.of = Nobody
        /\ NoJob.restored = FALSE
    BY <1>1 DEF NoJob, JobType, JobPcs, Answers
  <1>3. NoAudit \in AuditType /\ NoAudit.backup = NoBackup
    BY <1>1 DEF NoAudit, AuditType
  <1>4. NotSeen \in SeenType /\ NotSeen.disturbed = FALSE /\ NotSeen.migrated = FALSE
    BY <1>1 DEF NotSeen, SeenType
  <1> QED
    BY <1>1, <1>2, <1>3, <1>4

\* No upgrade has been asked for at the start.
LEMMA UpgInvInit == ASSUME UpgInit PROVE UpgInv
  <1>1. db \in Databases
    BY UpgradeAssumption DEF UpgInit, Databases
  <1>2. UpgTypes
    BY <1>1, UpgFacts DEF UpgInit, UpgTypes
  <1>3. ASSUME NEW r \in UpgReqs
        PROVE  JobOk(r, job[r], seen[r], audit[r].backup, db) /\ ManualOk(job[r], audit)
    <2>1. job[r] = NoJob /\ audit[r] = NoAudit /\ seen[r] = NotSeen
      BY DEF UpgInit
    <2>2. ~Covered(NoJob) /\ ~Untouched(NoJob) /\ ~Restored(NoJob)
      BY UpgFacts DEF Covered, Untouched, Restored
    <2> QED
      BY <2>1, <2>2, UpgFacts DEF JobOk, ManualOk
  <1>4. \A i \in Instances : inFlight[i] = FALSE
    BY DEF UpgInit
  <1> QED
    BY <1>2, <1>3, <1>4 DEF UpgInv

\* What a step of another request does to the history h of run x
Spared(x, h, h2, d, d2) ==
    /\ h2.before = h.before /\ h2.end = h.end /\ h2.migrated = h.migrated
    /\ h.disturbed => h2.disturbed
    /\ x.pc \notin {"idle", "done", "dead"} /\ d2 # d => h2.disturbed

\* What is known of a job survives a write of the database that marks the job as disturbed.
LEMMA JobOkSpared ==
    ASSUME NEW r, NEW x, NEW h, NEW h2, NEW b, NEW d, NEW d2,
           JobOk(r, x, h, b, d), Spared(x, h, h2, d, d2)
    PROVE  JobOk(r, x, h2, b, d2)
  <1>1. Untouched(x) \/ Covered(x) \/ Restored(x) \/ x.pc \in {"health", "complete"}
          => x.pc \notin {"idle", "done", "dead"}
    BY DEF Untouched, Covered, Restored
  <1>2. Truthful(x, h, b) => Truthful(x, h2, b)
    BY DEF Spared, Truthful
  <1>3. /\ h2.migrated = h.migrated /\ h2.before = h.before /\ (~h2.disturbed => ~h.disturbed)
        /\ ~h2.disturbed /\ x.pc \notin {"idle", "done", "dead"} => d2 = d
    BY DEF Spared
  <1> QED
    BY <1>1, <1>2, <1>3 DEF JobOk

(* A step of request r, which goes on as y: the others are spared, and a    *)
(* flag that is up afterwards is kept up by r, or was before, not by r.     *)
LEMMA UpgStep ==
    ASSUME UpgInv, NEW r \in UpgReqs, NEW y \in JobType, job' = [job EXCEPT ![r] = y],
           upgNow' = upgNow, db' \in Databases,
           audit' \in [UpgReqs -> AuditType], seen' \in [UpgReqs -> SeenType],
           inFlight' \in [Instances -> BOOLEAN],
           \A q \in UpgReqs : q # r => audit'[q] = audit[q],
           audit[r].backup # NoBackup => audit'[r].backup # NoBackup,
           \A q \in UpgReqs : q # r => Spared(job[q], seen[q], seen'[q], db, db'),
           JobOk(r, y, seen'[r], audit'[r].backup, db'), ManualOk(y, audit'),
           \A i \in Instances : inFlight'[i] => Holds(y, i) \/ (inFlight[i] /\ ~Holds(job[r], i))
    PROVE  UpgInv'
  <1>1. /\ job'[r] = y /\ job' \in [UpgReqs -> JobType]
        /\ \A q \in UpgReqs : q # r => job'[q] = job[q]
    BY DEF UpgInv, UpgTypes
  <1>2. UpgTypes'
    BY <1>1 DEF UpgInv, UpgTypes
  <1>3. ASSUME NEW q \in UpgReqs PROVE JobOk(q, job'[q], seen'[q], audit'[q].backup, db')
    <2>1. CASE q = r
      BY <1>1, <2>1
    <2>2. CASE q # r
      BY <1>1, <2>2, JobOkSpared DEF UpgInv
    <2> QED
      BY <2>1, <2>2
  <1>4. ASSUME NEW q \in UpgReqs PROVE ManualOk(job'[q], audit')
    <2>1. CASE q = r
      BY <1>1, <2>1
    <2>2. CASE q # r
      <3>1. ManualOk(job[q], audit) /\ job'[q] = job[q]
        BY <1>1, <2>2 DEF UpgInv
      <3>2. \A p \in UpgReqs : audit[p].backup # NoBackup => audit'[p].backup # NoBackup
        OBVIOUS
      <3> QED
        BY <3>1, <3>2 DEF ManualOk
    <2> QED
      BY <2>1, <2>2
  <1>5. ASSUME NEW i \in Instances, inFlight'[i] PROVE \E q \in UpgReqs : Holds(job'[q], i)
    <2>1. CASE Holds(y, i)
      BY <1>1, <2>1
    <2>2. CASE inFlight[i] /\ ~Holds(job[r], i)
      <3>1. PICK q \in UpgReqs : Holds(job[q], i)
        BY <2>2 DEF UpgInv
      <3> QED
        BY <1>1, <2>2, <3>1
    <2> QED
      BY <1>5, <2>1, <2>2
  <1> QED
    BY <1>2, <1>3, <1>4, <1>5 DEF UpgInv

\* A step that only changes local variables
LEMMA UpgLocal ==
    ASSUME UpgInv, NEW r \in UpgReqs, NEW y \in JobType, job' = [job EXCEPT ![r] = y],
           UNCHANGED <<upgNow, db, audit, inFlight, seen>>,
           JobOk(r, y, seen[r], audit[r].backup, db), ManualOk(y, audit),
           \A i \in Instances : Holds(job[r], i) => Holds(y, i)
    PROVE  UpgInv'
  <1>1. \A q \in UpgReqs : Spared(job[q], seen[q], seen'[q], db, db')
    BY DEF Spared
  <1>2. /\ db' \in Databases /\ audit' \in [UpgReqs -> AuditType]
        /\ seen' \in [UpgReqs -> SeenType] /\ inFlight' \in [Instances -> BOOLEAN]
    BY DEF UpgInv, UpgTypes
  <1>3. \A i \in Instances : inFlight'[i] => Holds(y, i) \/ (inFlight[i] /\ ~Holds(job[r], i))
    OBVIOUS
  <1>4. JobOk(r, y, seen'[r], audit'[r].backup, db') /\ ManualOk(y, audit')
    OBVIOUS
  <1> QED
    BY <1>1, <1>2, <1>3, <1>4, UpgStep

\* A run under way goes to another label.
LEMMA UpgGoesTo ==
    ASSUME UpgInv, NEW r \in UpgReqs, NEW label \in JobPcs, UpgGoto(r, label),
           UNCHANGED <<upgNow, db, audit, inFlight, seen>>,
           label \notin {"idle", "done", "dead", "check", "manual_restore", "manual_record"},
           \A y \in JobType :
              /\ y.pc = label /\ y.dry = job[r].dry /\ y.of = job[r].of /\ y.dump = job[r].dump
              /\ y.restored = job[r].restored
              => JobOk(r, y, seen[r], audit[r].backup, db)
    PROVE  UpgInv'
  <1> DEFINE y == [job[r] EXCEPT !.pc = label]
  <1>0. job[r] \in JobType /\ job \in [UpgReqs -> JobType]
    BY DEF UpgInv, UpgTypes
  <1>1. job' = [job EXCEPT ![r] = y]
    BY <1>0 DEF UpgGoto
  <1>2. /\ y \in JobType /\ y.pc = label /\ y.at = job[r].at /\ y.dry = job[r].dry
        /\ y.of = job[r].of /\ y.dump = job[r].dump /\ y.restored = job[r].restored
    BY <1>0 DEF JobType
  <1> HIDE DEF y
  <1>3. JobOk(r, y, seen[r], audit[r].backup, db)
    BY <1>2
  <1>4. ManualOk(y, audit) /\ \A i \in Instances : Holds(job[r], i) => Holds(y, i)
    BY <1>2 DEF ManualOk, Holds
  <1> QED
    BY <1>1, <1>2, <1>3, <1>4, UpgLocal

\* An upgrade is asked for.
LEMMA UpgStartStep ==
    ASSUME UpgInv, NEW r \in UpgReqs, NEW i \in Instances, NEW dry \in BOOLEAN,
           NEW force \in BOOLEAN, UpgStart(r, i, dry, force)
    PROVE  UpgInv'
  <1> DEFINE l == IF dry THEN "initialize" ELSE "check"
             y == [NoJob EXCEPT !.pc = l, !.at = i, !.dry = dry, !.force = force]
             h == [seen[r] EXCEPT !.before = db]
  <1>0. /\ job[r].pc = "idle" /\ job' = [job EXCEPT ![r] = y]
        /\ UNCHANGED <<upgNow, db, audit, inFlight, migrator>>
        /\ seen \in [UpgReqs -> SeenType] /\ db \in Databases
        /\ JobOk(r, job[r], seen[r], audit[r].backup, db)
    BY DEF UpgStart, UpgInv, UpgTypes
  <1>1. seen' = [seen EXCEPT ![r] = h]
    BY <1>0 DEF UpgStart
  <1>2. /\ h \in SeenType /\ h.before = db /\ h.migrated = seen[r].migrated
        /\ h.disturbed = seen[r].disturbed
    BY <1>0, UpgFacts DEF SeenType
  <1>3. l \in JobPcs /\ l \in {"initialize", "check"} /\ (l = "check" => ~dry)
    BY DEF JobPcs
  <1> HIDE DEF h, l
  <1>4. y \in JobType /\ y.pc = l /\ y.dry = dry /\ y.of = Nobody /\ y.restored = FALSE
    BY <1>3, UpgFacts DEF JobType
  <1> HIDE DEF y
  <1>5. seen' \in [UpgReqs -> SeenType] /\ seen'[r] = h
        /\ \A q \in UpgReqs : q # r => seen'[q] = seen[q]
    BY <1>0, <1>1, <1>2
  <1>6. ~Covered(y) /\ ~Restored(y)
    BY <1>3, <1>4 DEF Covered, Restored
  <1>7. JobOk(r, y, h, audit[r].backup, db)
    BY <1>0, <1>2, <1>3, <1>4, <1>6 DEF JobOk
  <1>8. \A q \in UpgReqs : q # r => Spared(job[q], seen[q], seen'[q], db, db')
    BY <1>0, <1>5 DEF Spared
  <1>9. /\ ManualOk(y, audit') /\ \A j \in Instances : ~Holds(job[r], j)
    BY <1>0, <1>3, <1>4 DEF ManualOk, Holds
  <1>10. /\ db' \in Databases /\ audit' \in [UpgReqs -> AuditType]
         /\ inFlight' \in [Instances -> BOOLEAN]
    BY <1>0 DEF UpgInv, UpgTypes
  <1>11. JobOk(r, y, seen'[r], audit'[r].backup, db')
    BY <1>0, <1>5, <1>7
  <1> QED
    BY <1>0, <1>4, <1>5, <1>8, <1>9, <1>10, <1>11, UpgStep

\* It is admitted, or refused because the audit table shows one in progress.
LEMMA UpgAdmitStep ==
    ASSUME UpgInv, NEW r \in UpgReqs, UpgAdmit(r)
    PROVE  UpgInv'
  <1>0. /\ job[r].pc = "check" /\ UNCHANGED <<upgNow, db, audit, migrator, seen>>
        /\ JobOk(r, job[r], seen[r], audit[r].backup, db)
        /\ job[r] \in JobType /\ job \in [UpgReqs -> JobType]
    BY DEF UpgAdmit, UpgAt, UpgInv, UpgTypes
  <1>1. CASE InProgress # {}
    <2> DEFINE y == [job[r] EXCEPT !.pc = "done", !.answer = "refused"]
    <2>1. job' = [job EXCEPT ![r] = y] /\ inFlight' = inFlight
      BY <1>0, <1>1 DEF UpgAdmit
    <2>2. y \in JobType /\ y.pc = "done" /\ y.answer = "refused"
      BY <1>0 DEF JobType, JobPcs, Answers
    <2> HIDE DEF y
    <2>3. ~Covered(y) /\ ~Untouched(y) /\ ~Restored(y) /\ Truthful(y, seen[r], audit[r].backup)
      BY <2>2 DEF Covered, Untouched, Restored, Truthful
    <2>4. JobOk(r, y, seen[r], audit[r].backup, db)
      BY <1>0, <2>2, <2>3 DEF JobOk
    <2>5. ManualOk(y, audit) /\ \A i \in Instances : ~Holds(job[r], i)
      BY <1>0, <2>2 DEF ManualOk, Holds
    <2> QED
      BY <1>0, <2>1, <2>2, <2>4, <2>5, UpgLocal
  <1>2. CASE InProgress = {}
    <2> DEFINE y == [job[r] EXCEPT !.pc = "initialize"]
    <2>1. job' = [job EXCEPT ![r] = y] /\ inFlight' = [inFlight EXCEPT ![job[r].at] = TRUE]
      BY <1>0, <1>2 DEF UpgAdmit, UpgGoto
    <2>2. y \in JobType /\ y.pc = "initialize" /\ y.at = job[r].at /\ y.dry = job[r].dry
          /\ y.of = job[r].of /\ y.restored = job[r].restored
      BY <1>0 DEF JobType, JobPcs
    <2> HIDE DEF y
    <2>3. ~Covered(y) /\ Untouched(y) /\ Untouched(job[r]) /\ ~Restored(y)
      BY <1>0, <2>2 DEF Covered, Untouched, Restored
    <2>4. JobOk(r, y, seen'[r], audit'[r].backup, db')
      BY <1>0, <2>2, <2>3 DEF JobOk
    <2>5. ManualOk(y, audit') /\ ~y.dry
      BY <1>0, <2>2 DEF ManualOk, JobOk
    <2>6. \A i \in Instances : Holds(y, i) <=> i = job[r].at
      BY <2>2, <2>5 DEF Holds
    <2>7. \A i \in Instances : ~Holds(job[r], i)
      BY <1>0 DEF Holds
    <2>8. /\ inFlight' \in [Instances -> BOOLEAN]
          /\ \A i \in Instances : inFlight'[i] => Holds(y, i) \/ (inFlight[i] /\ ~Holds(job[r], i))
      BY <2>1, <2>6, <2>7 DEF UpgInv, UpgTypes
    <2>9. \A q \in UpgReqs : Spared(job[q], seen[q], seen'[q], db, db')
      BY <1>0 DEF Spared
    <2>10. /\ db' \in Databases /\ audit' \in [UpgReqs -> AuditType]
           /\ seen' \in [UpgReqs -> SeenType]
      BY <1>0 DEF UpgInv, UpgTypes
    <2> QED
      BY <1>0, <2>1, <2>2, <2>4, <2>5, <2>8, <2>9, <2>10, UpgStep
  <1> QED
    BY <1>1, <1>2

\* The audit row changes, but for its archive.
AuditKept(r) ==
    /\ audit' \in [UpgReqs -> AuditType] /\ audit'[r].backup = audit[r].backup
    /\ \A q \in UpgReqs : q # r => audit'[q] = audit[q]

(* The run ends with a reply that is true: the flag of its instance goes    *)
(* down, unless the run is dry and never raised it.                         *)
LEMMA UpgReplyStep ==
    ASSUME UpgInv, NEW r \in UpgReqs, NEW answer \in Answers, UpgReply(r, answer),
           UNCHANGED <<upgNow, db>>, AuditKept(r),
           NEW dry, dry = job[r].dry,
           ~seen[r].disturbed =>
              /\ answer = "success" => IF dry THEN db = seen[r].before ELSE Migrated(db)
              /\ answer = "failed" => db = seen[r].before
              /\ answer = "rolled_back" => BackTo(seen[r].before, db)
              /\ answer = "rollback_failed" => audit[r].backup = seen[r].before
    PROVE  UpgInv'
  <1> DEFINE y == [NoJob EXCEPT !.pc = "done", !.answer = answer, !.dry = job[r].dry]
             h == [seen[r] EXCEPT !.end = db]
  <1>0. /\ job[r] \in JobType /\ job \in [UpgReqs -> JobType] /\ seen \in [UpgReqs -> SeenType]
        /\ seen[r] \in SeenType /\ db \in Databases /\ inFlight \in [Instances -> BOOLEAN]
        /\ JobOk(r, job[r], seen[r], audit[r].backup, db) /\ job[r].dry \in BOOLEAN
    BY DEF UpgInv, UpgTypes, JobType
  <1>1. /\ job' = [job EXCEPT ![r] = y] /\ seen' = [seen EXCEPT ![r] = h]
        /\ inFlight' = IF job[r].dry THEN inFlight ELSE [inFlight EXCEPT ![job[r].at] = FALSE]
    BY <1>0 DEF UpgReply
  <1>2. y \in JobType /\ y.pc = "done" /\ y.answer = answer /\ y.dry = dry
    BY <1>0, UpgFacts DEF JobType, JobPcs
  <1>3. /\ h \in SeenType /\ h.end = db /\ h.before = seen[r].before
        /\ h.migrated = seen[r].migrated /\ h.disturbed = seen[r].disturbed
    BY <1>0, UpgFacts DEF SeenType
  <1> HIDE DEF y, h
  <1>4. /\ seen' \in [UpgReqs -> SeenType] /\ seen'[r] = h
        /\ \A q \in UpgReqs : q # r => seen'[q] = seen[q]
    BY <1>0, <1>1, <1>3
  <1>5. ~Covered(y) /\ ~Untouched(y) /\ ~Restored(y)
    BY <1>2 DEF Covered, Untouched, Restored
  <1>6. ~h.disturbed => Truthful(y, h, audit[r].backup)
    BY <1>2, <1>3 DEF Truthful
  <1>7. JobOk(r, y, seen'[r], audit'[r].backup, db')
    BY <1>0, <1>2, <1>3, <1>4, <1>5, <1>6 DEF JobOk, AuditKept
  <1>8. \A q \in UpgReqs : q # r => Spared(job[q], seen[q], seen'[q], db, db')
    BY <1>4 DEF Spared
  <1>9. ManualOk(y, audit')
    BY <1>2 DEF ManualOk
  <1>10. inFlight' \in [Instances -> BOOLEAN]
    BY <1>0, <1>1
  <1>11. ASSUME NEW i \in Instances, inFlight'[i] PROVE inFlight[i] /\ ~Holds(job[r], i)
    <2>1. CASE job[r].dry
      BY <1>1, <1>11, <2>1 DEF Holds
    <2>2. CASE ~job[r].dry
      BY <1>0, <1>1, <1>11, <2>2 DEF Holds
    <2> QED
      BY <2>1, <2>2
  <1>12. /\ upgNow' = upgNow /\ db' \in Databases /\ audit' \in [UpgReqs -> AuditType]
         /\ \A q \in UpgReqs : q # r => audit'[q] = audit[q]
         /\ audit[r].backup # NoBackup => audit'[r].backup # NoBackup
         /\ job' = [job EXCEPT ![r] = y]
    BY <1>0, <1>1 DEF AuditKept
  <1>13. \A i \in Instances : inFlight'[i] => Holds(y, i) \/ (inFlight[i] /\ ~Holds(job[r], i))
    BY <1>11
  <1> QED
    BY <1>2, <1>4, <1>7, <1>8, <1>9, <1>10, <1>12, <1>13, UpgStep

\* Its audit row is written, or the request fails.
LEMMA UpgInitializeStep ==
    ASSUME UpgInv, NEW r \in UpgReqs, NEW ok \in BOOLEAN, UpgInitialize(r, ok)
    PROVE  UpgInv'
  <1>0. /\ job[r].pc = "initialize" /\ UNCHANGED <<upgNow, db, migrator>>
        /\ JobOk(r, job[r], seen[r], audit[r].backup, db) /\ db \in Databases
        /\ job[r] \in JobType /\ job \in [UpgReqs -> JobType] /\ upgNow \in Nat
        /\ audit \in [UpgReqs -> AuditType] /\ seen \in [UpgReqs -> SeenType]
        /\ inFlight \in [Instances -> BOOLEAN]
    BY DEF UpgInitialize, UpgAt, UpgInv, UpgTypes
  <1>1. CASE ~ok
    <2>1. UpgReply(r, "failed") /\ audit' = audit
      BY <1>1 DEF UpgInitialize
    <2>2. AuditKept(r) /\ "failed" \in Answers
      BY <1>0, <2>1 DEF AuditKept, Answers
    <2>3. ~seen[r].disturbed => db = seen[r].before
      BY <1>0 DEF JobOk, Untouched
    <2> QED
      BY <1>0, <2>1, <2>2, <2>3, UpgReplyStep
  <1>2. CASE ok
    <2> DEFINE y == [job[r] EXCEPT !.pc = "validate"]
               a == [NoAudit EXCEPT !.status = "running", !.startedAt = upgNow]
    <2>1. job' = [job EXCEPT ![r] = y] /\ audit' = [audit EXCEPT ![r] = a]
          /\ UNCHANGED <<inFlight, seen>>
      BY <1>0, <1>2 DEF UpgInitialize, UpgGoto
    <2>2. y \in JobType /\ y.pc = "validate" /\ y.at = job[r].at /\ y.dry = job[r].dry
          /\ y.of = job[r].of /\ y.restored = job[r].restored
      BY <1>0 DEF JobType, JobPcs
    <2>3. a \in AuditType /\ a.backup = NoBackup
      BY <1>0, UpgFacts DEF AuditType
    <2> HIDE DEF y, a
    <2>4. /\ audit' \in [UpgReqs -> AuditType] /\ audit'[r] = a
          /\ \A q \in UpgReqs : q # r => audit'[q] = audit[q]
      BY <1>0, <2>1, <2>3
    <2>5. ~Covered(y) /\ Untouched(y) /\ Untouched(job[r]) /\ ~Restored(y)
      BY <1>0, <2>2 DEF Covered, Untouched, Restored
    <2>6. JobOk(r, y, seen'[r], audit'[r].backup, db')
      BY <1>0, <2>1, <2>2, <2>3, <2>4, <2>5 DEF JobOk
    <2>7. \A q \in UpgReqs : Spared(job[q], seen[q], seen'[q], db, db')
      BY <1>0, <2>1 DEF Spared
    <2>8. /\ ManualOk(y, audit')
          /\ \A i \in Instances : inFlight'[i] => Holds(y, i) \/ (inFlight[i] /\ ~Holds(job[r], i))
      BY <1>0, <2>1, <2>2 DEF ManualOk, Holds
    <2>9. audit[r].backup = NoBackup
      BY <1>0 DEF JobOk
    <2>10. /\ db' \in Databases /\ seen' \in [UpgReqs -> SeenType]
           /\ inFlight' \in [Instances -> BOOLEAN]
      BY <1>0, <2>1
    <2>11. /\ upgNow' = upgNow /\ (audit[r].backup # NoBackup => audit'[r].backup # NoBackup)
           /\ \A q \in UpgReqs : q # r => Spared(job[q], seen[q], seen'[q], db, db')
      BY <1>0, <2>7, <2>9
    <2>12. y \in JobType /\ job' = [job EXCEPT ![r] = y]
      BY <2>1, <2>2
    <2> QED
      BY <2>4, <2>6, <2>8, <2>10, <2>11, <2>12, UpgStep
  <1> QED
    BY <1>1, <1>2

\* Validation passes (or is forced), or fails the upgrade; a dry run skips the dump.
LEMMA UpgValidateStep ==
    ASSUME UpgInv, NEW r \in UpgReqs, NEW result, UpgValidate(r, result)
    PROVE  UpgInv'
  <1>0. /\ job[r].pc = "validate" /\ UNCHANGED <<upgNow, db, audit, inFlight, seen>>
        /\ JobOk(r, job[r], seen[r], audit[r].backup, db)
        /\ job[r] \in JobType /\ job[r].of \in UpgReqs \cup {Nobody} /\ job[r].dry \in BOOLEAN
    BY DEF UpgValidate, UpgAt, UpgInv, UpgTypes, JobType
  <1> DEFINE l == IF result = "pass" \/ (result = "checks" /\ job[r].force)
                    THEN IF job[r].dry THEN "config" ELSE "dump"
                    ELSE "fail"
  <1>1. UpgGoto(r, l)
    BY DEF UpgValidate
  <1>2. l \in {"config", "dump", "fail"} /\ (l = "config" => job[r].dry)
    OBVIOUS
  <1> HIDE DEF l
  <1>3. ASSUME NEW y \in JobType, y.pc = l, y.dry = job[r].dry, y.of = job[r].of,
               y.restored = job[r].restored
        PROVE  JobOk(r, y, seen[r], audit[r].backup, db)
    <2>1. ~Covered(y) /\ ~Restored(y) /\ Untouched(job[r])
      BY <1>0, <1>2, <1>3 DEF Covered, Restored, Untouched, JobOk
    <2> QED
      BY <1>0, <1>2, <1>3, <2>1 DEF JobOk
  <1>4. /\ l \in JobPcs
        /\ l \notin {"idle", "done", "dead", "check", "manual_restore", "manual_record"}
    BY <1>2 DEF JobPcs
  <1> QED
    BY <1>0, <1>1, <1>3, <1>4, UpgGoesTo

\* The dump is taken, or the upgrade fails before any change.
LEMMA UpgDumpStep ==
    ASSUME UpgInv, NEW r \in UpgReqs, NEW ok \in BOOLEAN, UpgDump(r, ok)
    PROVE  UpgInv'
  <1> DEFINE l == IF ok THEN "record_dump" ELSE "fail"
             d == IF ok THEN db ELSE NoBackup
             y == [job[r] EXCEPT !.pc = l, !.dump = d]
  <1>0. /\ job[r].pc = "dump" /\ UNCHANGED <<upgNow, db, audit, inFlight, seen>>
        /\ JobOk(r, job[r], seen[r], audit[r].backup, db) /\ db \in Databases
        /\ job[r] \in JobType /\ job \in [UpgReqs -> JobType]
    BY DEF UpgDump, UpgAt, UpgInv, UpgTypes
  <1>1. job' = [job EXCEPT ![r] = y]
    BY <1>0 DEF UpgDump
  <1>2. l \in JobPcs /\ l \in {"record_dump", "fail"} /\ d \in Dumps /\ (l = "record_dump" => d = db)
    BY <1>0 DEF JobPcs, Dumps
  <1> HIDE DEF l, d
  <1>3. /\ y \in JobType /\ y.pc = l /\ y.at = job[r].at /\ y.dry = job[r].dry
        /\ y.of = job[r].of /\ y.dump = d /\ y.restored = job[r].restored
    BY <1>0, <1>2 DEF JobType
  <1> HIDE DEF y
  <1>4. ~Covered(y) /\ ~Restored(y) /\ Untouched(job[r])
    BY <1>0, <1>2, <1>3 DEF Covered, Restored, Untouched, JobOk
  <1>5. JobOk(r, y, seen[r], audit[r].backup, db)
    BY <1>0, <1>2, <1>3, <1>4 DEF JobOk
  <1>6. ManualOk(y, audit) /\ \A i \in Instances : Holds(job[r], i) => Holds(y, i)
    BY <1>2, <1>3 DEF ManualOk, Holds
  <1> QED
    BY <1>0, <1>1, <1>3, <1>5, <1>6, UpgLocal

\* From here on the way back is on the row.
LEMMA UpgRecordDumpStep ==
    ASSUME UpgInv, NEW r \in UpgReqs, NEW ok \in BOOLEAN, UpgRecordDump(r, ok)
    PROVE  UpgInv'
  <1> DEFINE l == IF ok THEN "config" ELSE "fail"
             y == [job[r] EXCEPT !.pc = l]
             a == IF ok THEN [audit[r] EXCEPT !.backup = job[r].dump] ELSE audit[r]
  <1>0. /\ job[r].pc = "record_dump" /\ UNCHANGED <<upgNow, db, inFlight, seen>>
        /\ JobOk(r, job[r], seen[r], audit[r].backup, db) /\ db \in Databases
        /\ job[r] \in JobType /\ job \in [UpgReqs -> JobType]
        /\ audit \in [UpgReqs -> AuditType] /\ audit[r] \in AuditType
        /\ seen \in [UpgReqs -> SeenType] /\ inFlight \in [Instances -> BOOLEAN]
    BY DEF UpgRecordDump, UpgAt, UpgInv, UpgTypes
  <1>1. job' = [job EXCEPT ![r] = y] /\ audit' = [audit EXCEPT ![r] = a]
    <2>1. job' = [job EXCEPT ![r] = y]
      BY <1>0 DEF UpgRecordDump, UpgGoto
    <2>2. audit' = [audit EXCEPT ![r] = a]
      <3>1. CASE ok
        BY <1>0, <3>1 DEF UpgRecordDump
      <3>2. CASE ~ok
        BY <1>0, <3>2 DEF UpgRecordDump
      <3> QED
        BY <3>1, <3>2
    <2> QED
      BY <2>1, <2>2
  <1>2. l \in JobPcs /\ l \in {"config", "fail"}
    BY DEF JobPcs
  <1>3. /\ a \in AuditType /\ a.backup = IF l = "config" THEN job[r].dump ELSE audit[r].backup
    BY <1>0 DEF AuditType, JobType
  <1> HIDE DEF l, a
  <1>4. /\ y \in JobType /\ y.pc = l /\ y.at = job[r].at /\ y.dry = job[r].dry
        /\ y.of = job[r].of /\ y.restored = job[r].restored
    BY <1>0, <1>2 DEF JobType
  <1> HIDE DEF y
  <1>5. /\ audit' \in [UpgReqs -> AuditType] /\ audit'[r] = a
        /\ \A q \in UpgReqs : q # r => audit'[q] = audit[q]
    BY <1>0, <1>1, <1>3
  <1>6. ~Restored(y) /\ Untouched(job[r]) /\ (l = "fail" => ~Covered(y)) /\ job[r].dump # NoBackup
        /\ (l = "config" => Untouched(y))
    BY <1>0, <1>2, <1>4, UpgFacts DEF Covered, Restored, Untouched, JobOk
  <1>7. JobOk(r, y, seen'[r], audit'[r].backup, db')
    BY <1>0, <1>2, <1>3, <1>4, <1>5, <1>6 DEF JobOk
  <1>8. \A q \in UpgReqs : Spared(job[q], seen[q], seen'[q], db, db')
    BY <1>0 DEF Spared
  <1>9. /\ ManualOk(y, audit')
        /\ \A i \in Instances : inFlight'[i] => Holds(y, i) \/ (inFlight[i] /\ ~Holds(job[r], i))
    BY <1>0, <1>2, <1>4 DEF ManualOk, Holds
  <1>10. audit[r].backup # NoBackup => audit'[r].backup # NoBackup
    BY <1>2, <1>3, <1>5, <1>6
  <1>11. db' \in Databases /\ seen' \in [UpgReqs -> SeenType] /\ inFlight' \in [Instances -> BOOLEAN]
    BY <1>0
  <1>12. /\ upgNow' = upgNow
         /\ \A q \in UpgReqs : q # r => Spared(job[q], seen[q], seen'[q], db, db')
    BY <1>0, <1>8
  <1> QED
    BY <1>1, <1>4, <1>5, <1>7, <1>9, <1>10, <1>11, <1>12, UpgStep

\* The configuration step passes on to the migration, or a dry run to the health check.
LEMMA UpgConfigStep ==
    ASSUME UpgInv, NEW r \in UpgReqs, NEW ok \in BOOLEAN, UpgConfig(r, ok)
    PROVE  UpgInv'
  <1> DEFINE l == IF ~ok THEN "fail" ELSE IF job[r].dry THEN "health" ELSE "migrate"
  <1>0. /\ job[r].pc = "config" /\ UNCHANGED <<upgNow, db, audit, inFlight, seen>>
        /\ JobOk(r, job[r], seen[r], audit[r].backup, db) /\ job[r].dry \in BOOLEAN
    BY DEF UpgConfig, UpgAt, UpgInv, UpgTypes, JobType
  <1>1. UpgGoto(r, l)
    BY DEF UpgConfig
  <1>2. /\ l \in {"health", "migrate", "fail"} /\ (l = "health" => job[r].dry)
        /\ l = "migrate" => ~job[r].dry
    OBVIOUS
  <1> HIDE DEF l
  <1>3. ASSUME NEW y \in JobType, y.pc = l, y.dry = job[r].dry, y.of = job[r].of,
               y.restored = job[r].restored
        PROVE  JobOk(r, y, seen[r], audit[r].backup, db)
    <2>1. /\ Covered(y) => Covered(job[r]) /\ Untouched(y)
          /\ ~Restored(y) /\ Untouched(job[r])
      BY <1>0, <1>2, <1>3 DEF Covered, Restored, Untouched, JobOk
    <2> QED
      BY <1>0, <1>2, <1>3, <2>1 DEF JobOk
  <1>4. /\ l \in JobPcs
        /\ l \notin {"idle", "done", "dead", "check", "manual_restore", "manual_record"}
    BY <1>2 DEF JobPcs
  <1> QED
    BY <1>0, <1>1, <1>3, <1>4, UpgGoesTo

\* A database has grown out of itself.
LEMMA GrownSelf == \A d \in Databases : Grown(d, d)
  BY DEF Grown, Databases

\* One more migration is applied.
LEMMA GrownByOne ==
    ASSUME NEW d \in Databases, NEW a \in Dumps, Grown(a, d), NEW e \in Databases,
           d.applied < Target, e.applied = d.applied + 1,
           e.made = d.made \cup ({d.applied + 1} \cap Creating)
    PROVE  Grown(a, e)
  <1>1. a.applied \in Int /\ d.applied \in Int /\ Target \in Int
    BY UpgradeAssumption DEF Dumps, Databases, NoBackup
  <1>2. d.applied + 1 \in (a.applied + 1)..Target /\ a.applied <= e.applied
    BY <1>1 DEF Grown
  <1> QED
    BY <1>2 DEF Grown

\* The migration begins, or is refused its lock and goes to the rollback.
LEMMA UpgMigrateStep ==
    ASSUME UpgInv, NEW r \in UpgReqs, UpgMigrate(r)
    PROVE  UpgInv'
  <1>0. /\ job[r].pc = "migrate" /\ UNCHANGED <<upgNow, db, audit, inFlight, seen>>
        /\ JobOk(r, job[r], seen[r], audit[r].backup, db)
    BY DEF UpgMigrate, UpgAt, UpgInv
  <1>a. Grown(db, db)
    BY GrownSelf DEF UpgInv, UpgTypes
  <1>1. PICK l \in {"migrating", "rollback"} : UpgGoto(r, l)
    BY DEF UpgMigrate
  <1>2. ASSUME NEW y \in JobType, y.pc = l, y.dry = job[r].dry, y.of = job[r].of,
               y.restored = job[r].restored
        PROVE  JobOk(r, y, seen[r], audit[r].backup, db)
    <2>1. Covered(job[r]) /\ ~Restored(y) /\ ~Untouched(y) /\ Untouched(job[r])
      BY <1>0, <1>1, <1>2 DEF Covered, Restored, Untouched, JobOk
    <2> QED
      BY <1>0, <1>a, <1>1, <1>2, <2>1 DEF JobOk
  <1>3. /\ l \in JobPcs
        /\ l \notin {"idle", "done", "dead", "check", "manual_restore", "manual_record"}
    BY <1>1 DEF JobPcs
  <1> QED
    BY <1>0, <1>1, <1>2, <1>3, UpgGoesTo

\* A request that writes the database spares the others.
LEMMA WriteSpares ==
    ASSUME UpgInv, NEW r \in UpgReqs, NEW value, WriteDb(r, value)
    PROVE  /\ seen' \in [UpgReqs -> SeenType] /\ db' = value
           /\ \A q \in UpgReqs : q # r => Spared(job[q], seen[q], seen'[q], db, db')
           /\ seen'[r].before = seen[r].before /\ seen'[r].end = seen[r].end
           /\ seen'[r].disturbed = seen[r].disturbed
           /\ seen'[r].migrated => seen[r].migrated \/ job[r].pc = "migrating"
  <1> DEFINE own == [seen[r] EXCEPT !.migrated = @ \/ job[r].pc = "migrating"]
             other(q) == [seen[q] EXCEPT !.disturbed = @ \/ (q \in UpgActive /\ value # db)]
  <1>0. seen \in [UpgReqs -> SeenType] /\ seen[r] \in SeenType
    BY DEF UpgInv, UpgTypes
  <1>1. /\ db' = value /\ DOMAIN seen' = UpgReqs /\ seen'[r] = own
        /\ \A q \in UpgReqs : q # r => seen'[q] = other(q)
    BY DEF WriteDb
  <1>2. /\ own \in SeenType /\ own.before = seen[r].before /\ own.end = seen[r].end
        /\ own.disturbed = seen[r].disturbed
        /\ own.migrated = (seen[r].migrated \/ job[r].pc = "migrating")
    BY <1>0 DEF SeenType
  <1>3. ASSUME NEW q \in UpgReqs
        PROVE  /\ other(q) \in SeenType /\ other(q).before = seen[q].before
               /\ other(q).end = seen[q].end /\ other(q).migrated = seen[q].migrated
               /\ other(q).disturbed = (seen[q].disturbed \/ (q \in UpgActive /\ value # db))
    BY <1>0 DEF SeenType
  <1> HIDE DEF own, other
  <1>4. ASSUME NEW q \in UpgReqs, q # r PROVE Spared(job[q], seen[q], seen'[q], db, db')
    <2>1. job[q].pc \notin {"idle", "done", "dead"} => q \in UpgActive
      BY DEF UpgActive, Ended
    <2> QED
      BY <1>1, <1>3, <1>4, <2>1 DEF Spared
  <1>5. seen' \in [UpgReqs -> SeenType]
    <2>1. \A q \in UpgReqs : seen'[q] \in SeenType
      BY <1>1, <1>2, <1>3
    <2>2. seen' = [q \in UpgReqs |-> seen'[q]]
      BY DEF WriteDb
    <2> QED
      BY <2>1, <2>2
  <1> QED
    BY <1>1, <1>2, <1>4, <1>5

\* A write of the migration: the run goes on, or to its rollback.
LEMMA MigrationWrites ==
    ASSUME UpgInv, NEW r \in UpgReqs, NEW value \in Databases, WriteDb(r, value),
           job[r].pc = "migrating", UNCHANGED <<upgNow, audit, inFlight>>,
           \A a \in Dumps : Grown(a, db) => Grown(a, value),
           NEW l \in {"migrating", "rollback"}, job' = [job EXCEPT ![r].pc = l]
    PROVE  UpgInv'
  <1> DEFINE y == [job[r] EXCEPT !.pc = l]
  <1>0. /\ JobOk(r, job[r], seen[r], audit[r].backup, db)
        /\ job[r] \in JobType /\ job \in [UpgReqs -> JobType]
    BY DEF UpgInv, UpgTypes
  <1>1. job' = [job EXCEPT ![r] = y]
    BY <1>0
  <1>2. /\ y \in JobType /\ y.pc = l /\ y.at = job[r].at /\ y.dry = job[r].dry
        /\ y.of = job[r].of /\ y.restored = job[r].restored
    BY <1>0 DEF JobType, JobPcs
  <1> HIDE DEF y
  <1>3. Covered(job[r]) /\ ~Untouched(job[r]) /\ ~Untouched(y) /\ ~Restored(y)
    BY <1>0, <1>2 DEF Covered, Untouched, Restored, JobOk
  <1>4. JobOk(r, y, seen'[r], audit'[r].backup, db')
    <2>1. /\ seen'[r].before = seen[r].before /\ seen'[r].disturbed = seen[r].disturbed
          /\ audit'[r].backup = audit[r].backup /\ db' = value /\ seen[r].before \in Dumps
      BY WriteSpares DEF UpgInv, UpgTypes, SeenType
    <2> QED
      BY <1>0, <1>2, <1>3, <2>1 DEF JobOk
  <1>5. /\ ManualOk(y, audit')
        /\ \A i \in Instances : inFlight'[i] => Holds(y, i) \/ (inFlight[i] /\ ~Holds(job[r], i))
    BY <1>2 DEF ManualOk, Holds
  <1>6. audit' \in [UpgReqs -> AuditType] /\ inFlight' \in [Instances -> BOOLEAN]
    BY DEF UpgInv, UpgTypes
  <1>7. /\ upgNow' = upgNow /\ db' \in Databases /\ seen' \in [UpgReqs -> SeenType]
        /\ \A q \in UpgReqs : q # r => audit'[q] = audit[q]
        /\ audit[r].backup # NoBackup => audit'[r].backup # NoBackup
        /\ \A q \in UpgReqs : q # r => Spared(job[q], seen[q], seen'[q], db, db')
    BY WriteSpares
  <1> QED
    BY <1>1, <1>2, <1>4, <1>5, <1>6, <1>7, UpgStep

\* A database marked as broken is still one of the databases.
LEMMA BrokenDatabase ==
    ASSUME UpgInv, NEW broken \in {db.failed, db.failed \/ db.applied < Target}
    PROVE  /\ [db EXCEPT !.failed = broken] \in Databases
           /\ \A a \in Dumps : Grown(a, db) => Grown(a, [db EXCEPT !.failed = broken])
  <1> DEFINE d == [db EXCEPT !.failed = broken]
  <1>1. db \in Databases /\ broken \in BOOLEAN
    BY DEF UpgInv, UpgTypes, Databases
  <1>2. d \in Databases /\ d.applied = db.applied /\ d.made = db.made
    BY <1>1 DEF Databases
  <1>3. \A a \in Dumps : Grown(a, db) => Grown(a, d)
    BY <1>2 DEF Grown
  <1> QED
    BY <1>2, <1>3

\* One migration is applied.
LEMMA UpgApplyStep ==
    ASSUME UpgInv, NEW r \in UpgReqs, UpgApply(r)
    PROVE  UpgInv'
  <1> DEFINE n == db.applied + 1
             m == db.made \cup ({n} \cap Creating)
             d == [db EXCEPT !.applied = n, !.made = m]
  <1>0. db \in Databases /\ n \in 0..Target /\ m \in SUBSET Creating /\ db.applied < Target
    BY UpgradeAssumption DEF UpgApply, UpgInv, UpgTypes, Databases
  <1>1. d \in Databases /\ \A a \in Dumps : Grown(a, db) => Grown(a, d)
    <2> HIDE DEF n, m
    <2>1. d \in Databases /\ d.applied = n /\ d.made = m
      BY <1>0 DEF Databases
    <2> HIDE DEF d
    <2>2. \A a \in Dumps : Grown(a, db) => Grown(a, d)
      BY <1>0, <2>1, GrownByOne DEF n, m
    <2> QED
      BY <2>1, <2>2
  <1>2. job' = [job EXCEPT ![r].pc = "migrating"]
    BY DEF UpgApply, UpgInv, UpgTypes, JobType
  <1>3. WriteDb(r, d) /\ job[r].pc = "migrating" /\ UNCHANGED <<upgNow, audit, inFlight>>
    BY DEF UpgApply
  <1> HIDE DEF d
  <1> QED
    BY <1>1, <1>2, <1>3, MigrationWrites

\* The migration fails, perhaps half-way through a file, and goes to the rollback.
LEMMA UpgMigrationFailsStep ==
    ASSUME UpgInv, NEW r \in UpgReqs, UpgMigrationFails(r)
    PROVE  UpgInv'
  <1>1. PICK broken \in {db.failed, db.failed \/ db.applied < Target} :
            WriteDb(r, [db EXCEPT !.failed = broken])
    BY DEF UpgMigrationFails
  <1>2. /\ job[r].pc = "migrating" /\ UNCHANGED <<upgNow, audit, inFlight>>
        /\ job' = [job EXCEPT ![r].pc = "rollback"]
    BY DEF UpgMigrationFails, UpgGoto
  <1> QED
    BY <1>1, <1>2, BrokenDatabase, MigrationWrites

\* The migration ends with every file applied.
LEMMA UpgMigratedStep ==
    ASSUME UpgInv, NEW r \in UpgReqs, UpgMigrated(r)
    PROVE  UpgInv'
  <1>0. /\ job[r].pc = "migrating" /\ UNCHANGED <<upgNow, db, audit, inFlight, seen>>
        /\ JobOk(r, job[r], seen[r], audit[r].backup, db) /\ UpgGoto(r, "health")
    BY DEF UpgMigrated, UpgInv
  <1>1. Migrated(db)
    BY DEF UpgMigrated, Migrated
  <1>2. ASSUME NEW y \in JobType, y.pc = "health", y.dry = job[r].dry, y.of = job[r].of,
               y.restored = job[r].restored
        PROVE  JobOk(r, y, seen[r], audit[r].backup, db)
    <2>1. Covered(job[r]) /\ ~Untouched(job[r]) /\ ~Restored(y) /\ ~Untouched(y)
      BY <1>0, <1>2 DEF Covered, Restored, Untouched, JobOk
    <2> QED
      BY <1>0, <1>1, <1>2, <2>1 DEF JobOk
  <1> QED
    BY <1>0, <1>2, UpgGoesTo DEF JobPcs

\* The health check passes, or sends the upgrade to the rollback.
LEMMA UpgHealthStep ==
    ASSUME UpgInv, NEW r \in UpgReqs, NEW ok \in BOOLEAN, UpgHealth(r, ok)
    PROVE  UpgInv'
  <1> DEFINE l == IF ok THEN "complete" ELSE IF job[r].dry THEN "fail" ELSE "rollback"
  <1>0. /\ job[r].pc = "health" /\ UNCHANGED <<upgNow, db, audit, inFlight, seen>>
        /\ JobOk(r, job[r], seen[r], audit[r].backup, db) /\ job[r].dry \in BOOLEAN
    BY DEF UpgHealth, UpgAt, UpgInv, UpgTypes, JobType
  <1>1. UpgGoto(r, l)
    BY DEF UpgHealth
  <1>2. /\ l \in {"complete", "rollback", "fail"} /\ (l = "fail" => job[r].dry)
        /\ l = "rollback" => ~job[r].dry
    OBVIOUS
  <1> HIDE DEF l
  <1>3. ASSUME NEW y \in JobType, y.pc = l, y.dry = job[r].dry, y.of = job[r].of,
               y.restored = job[r].restored
        PROVE  JobOk(r, y, seen[r], audit[r].backup, db)
    <2>1. /\ Covered(y) => Covered(job[r])
          /\ Untouched(y) => Untouched(job[r])
          /\ Covered(y) /\ ~Untouched(y) => ~Untouched(job[r])
          /\ ~Restored(y)
      BY <1>0, <1>2, <1>3 DEF Covered, Restored, Untouched, JobOk
    <2> QED
      BY <1>0, <1>2, <1>3, <2>1 DEF JobOk
  <1>4. /\ l \in JobPcs
        /\ l \notin {"idle", "done", "dead", "check", "manual_restore", "manual_record"}
    BY <1>2 DEF JobPcs
  <1> QED
    BY <1>0, <1>1, <1>3, <1>4, UpgGoesTo

\* The row of the run is closed, or cannot be written.
LEMMA AuditClosed ==
    ASSUME UpgInv, NEW r \in UpgReqs, NEW ok \in BOOLEAN,
           NEW status \in {"completed", "failed"},
           IF ok THEN audit' = [audit EXCEPT ![r].status = status, ![r].doneAt = upgNow]
                 ELSE UNCHANGED audit
    PROVE  AuditKept(r)
  <1> DEFINE a == [audit[r] EXCEPT !.status = status, !.doneAt = upgNow]
  <1>0. audit \in [UpgReqs -> AuditType] /\ audit[r] \in AuditType /\ upgNow \in Nat
    BY DEF UpgInv, UpgTypes
  <1>1. audit' = audit \/ audit' = [audit EXCEPT ![r] = a]
    BY <1>0
  <1>2. a \in AuditType /\ a.backup = audit[r].backup
    BY <1>0 DEF AuditType
  <1> HIDE DEF a
  <1> QED
    BY <1>0, <1>1, <1>2 DEF AuditKept

\* The upgrade answers success, its audit row written or not.
LEMMA UpgCompleteStep ==
    ASSUME UpgInv, NEW r \in UpgReqs, NEW ok \in BOOLEAN, UpgComplete(r, ok)
    PROVE  UpgInv'
  <1>0. /\ job[r].pc = "complete" /\ UNCHANGED <<upgNow, db>> /\ UpgReply(r, "success")
        /\ JobOk(r, job[r], seen[r], audit[r].backup, db) /\ job[r].dry \in BOOLEAN
    BY DEF UpgComplete, UpgAt, UpgInv, UpgTypes, JobType
  <1>1. AuditKept(r) /\ "success" \in Answers
    BY AuditClosed DEF UpgComplete, Answers
  <1>2. ~seen[r].disturbed => IF job[r].dry THEN db = seen[r].before ELSE Migrated(db)
    BY <1>0 DEF JobOk, Untouched
  <1> QED
    BY <1>0, <1>1, <1>2, UpgReplyStep

\* The failure is answered, with what became of the rollback.
LEMMA UpgFailStep ==
    ASSUME UpgInv, NEW r \in UpgReqs, NEW ok \in BOOLEAN, UpgFail(r, ok)
    PROVE  UpgInv'
  <1> DEFINE answer == IF job[r].of = Nobody THEN "failed"
                       ELSE IF job[r].restored THEN "rolled_back" ELSE "rollback_failed"
  <1>0. /\ job[r].pc = "fail" /\ UNCHANGED <<upgNow, db>> /\ UpgReply(r, answer)
        /\ JobOk(r, job[r], seen[r], audit[r].backup, db)
    BY DEF UpgFail, UpgAt, UpgInv
  <1>1. AuditKept(r)
    BY AuditClosed DEF UpgFail
  <1>2. /\ answer \in {"failed", "rolled_back", "rollback_failed"}
        /\ answer = "failed" => job[r].of = Nobody
        /\ answer = "rolled_back" => job[r].of # Nobody /\ job[r].restored
        /\ answer = "rollback_failed" => job[r].of # Nobody
    OBVIOUS
  <1> HIDE DEF answer
  <1>3. ~seen[r].disturbed =>
          /\ answer = "failed" => db = seen[r].before
          /\ answer = "rolled_back" => BackTo(seen[r].before, db)
          /\ answer = "rollback_failed" => audit[r].backup = seen[r].before
    BY <1>0, <1>2 DEF JobOk, Untouched, Covered, Restored
  <1>4. answer \in Answers /\ answer # "success"
    BY <1>2 DEF Answers
  <1> QED
    BY <1>0, <1>1, <1>3, <1>4, UpgReplyStep

\* The rollback goes on to restore the recorded backup, or gives up.
LEMMA UpgRollbackStep ==
    ASSUME UpgInv, NEW r \in UpgReqs, UpgRollback(r)
    PROVE  UpgInv'
  <1>0. /\ job[r].pc = "rollback" /\ UNCHANGED <<upgNow, db, audit, inFlight, seen>>
        /\ JobOk(r, job[r], seen[r], audit[r].backup, db)
        /\ job[r] \in JobType /\ job \in [UpgReqs -> JobType] /\ r # Nobody
    BY UpgradeAssumption DEF UpgRollback, UpgAt, UpgInv, UpgTypes
  <1>1. PICK l \in {"restore", "fail"} : job' = [job EXCEPT ![r].pc = l, ![r].of = r]
    BY DEF UpgRollback
  <1> DEFINE y == [job[r] EXCEPT !.pc = l, !.of = r]
  <1>2. job' = [job EXCEPT ![r] = y]
    BY <1>0, <1>1
  <1>3. /\ y \in JobType /\ y.pc = l /\ y.of = r /\ y.at = job[r].at /\ y.dry = job[r].dry
        /\ y.restored = job[r].restored
    BY <1>0, <1>1 DEF JobType, JobPcs
  <1> HIDE DEF y
  <1>4. Covered(job[r]) /\ ~Untouched(job[r]) /\ ~Untouched(y) /\ ~Restored(y)
    BY <1>0, <1>1, <1>3 DEF Covered, Untouched, Restored, JobOk
  <1>5. JobOk(r, y, seen[r], audit[r].backup, db)
    BY <1>0, <1>1, <1>3, <1>4 DEF JobOk
  <1>6. ManualOk(y, audit) /\ \A i \in Instances : Holds(job[r], i) => Holds(y, i)
    BY <1>1, <1>3 DEF ManualOk, Holds
  <1> QED
    BY <1>0, <1>2, <1>3, <1>5, <1>6, UpgLocal

\* An administrator asks for the backup of a recorded upgrade.
LEMMA UpgManualRollbackStep ==
    ASSUME UpgInv, NEW r \in UpgReqs, NEW i \in Instances, NEW q \in UpgReqs,
           UpgManualRollback(r, i, q)
    PROVE  UpgInv'
  <1> DEFINE y == [NoJob EXCEPT !.pc = "manual_restore", !.at = i, !.of = q]
  <1>0. /\ job[r].pc = "idle" /\ UNCHANGED <<upgNow, db, audit, inFlight, seen>>
        /\ JobOk(r, job[r], seen[r], audit[r].backup, db) /\ audit[q].backup # NoBackup
        /\ job' = [job EXCEPT ![r] = y]
    BY DEF UpgManualRollback, UpgInv
  <1>1. y \in JobType /\ y.pc = "manual_restore" /\ y.of = q
    BY UpgFacts DEF JobType, JobPcs
  <1> HIDE DEF y
  <1>2. ~Covered(y) /\ ~Untouched(y) /\ ~Restored(y)
    BY <1>1 DEF Covered, Untouched, Restored
  <1>3. JobOk(r, y, seen[r], audit[r].backup, db)
    BY <1>0, <1>1, <1>2 DEF JobOk
  <1>4. ManualOk(y, audit) /\ \A j \in Instances : ~Holds(job[r], j)
    BY <1>0, <1>1 DEF ManualOk, Holds
  <1> QED
    BY <1>0, <1>1, <1>3, <1>4, UpgLocal

\* A run restores its own archive: the database it found, and what it made since.
LEMMA UpgRestoreStep ==
    ASSUME UpgInv, NEW r \in UpgReqs, NEW ok \in BOOLEAN, UpgRestore(r, ok)
    PROVE  UpgInv'
  <1> DEFINE l == IF job[r].pc = "manual_restore" THEN "manual_record" ELSE "record"
             y == [job[r] EXCEPT !.pc = l, !.restored = ok]
             b == audit[job[r].of].backup
             v == [b EXCEPT !.made = @ \cup (db.made \ b.made)]
  <1>0. /\ job[r].pc \in {"restore", "manual_restore"} /\ UNCHANGED <<upgNow, audit, inFlight>>
        /\ JobOk(r, job[r], seen[r], audit[r].backup, db) /\ ManualOk(job[r], audit)
        /\ job[r] \in JobType /\ job \in [UpgReqs -> JobType] /\ db \in Databases
        /\ audit \in [UpgReqs -> AuditType] /\ seen \in [UpgReqs -> SeenType]
        /\ inFlight \in [Instances -> BOOLEAN]
    BY DEF UpgRestore, UpgAt, UpgInv, UpgTypes
  <1>1. /\ job' = [job EXCEPT ![r] = y]
        /\ IF ok THEN WriteDb(r, v) ELSE UNCHANGED <<db, seen>>
        /\ ok => (db.made \ b.made) \cap Referencing = {}
    BY <1>0 DEF UpgRestore, Leftover
  <1>2. /\ l \in JobPcs /\ (job[r].pc = "restore" => l = "record")
        /\ job[r].pc = "manual_restore" => l = "manual_record"
    BY DEF JobPcs
  <1>3. job[r].pc = "restore" => Covered(job[r]) /\ ~Untouched(job[r]) /\ job[r].of = r
                                /\ ~job[r].dry
    BY <1>0 DEF JobOk, Covered, Untouched
  <1>4. /\ b \in Databases /\ v \in Databases /\ v.applied = b.applied /\ v.failed = b.failed
        /\ v.made = b.made \cup db.made
    <2>1. job[r].of \in UpgReqs /\ b # NoBackup
      BY <1>0, <1>3 DEF JobOk, ManualOk
    <2>2. b \in Databases
      BY <1>0, <2>1 DEF AuditType, Dumps
    <2> HIDE DEF b
    <2> QED
      BY <1>0, <2>2 DEF Databases
  <1> HIDE DEF l, b, v
  <1>5. /\ y \in JobType /\ y.pc = l /\ y.at = job[r].at /\ y.dry = job[r].dry
        /\ y.of = job[r].of /\ y.restored = ok
    BY <1>0, <1>2 DEF JobType
  <1> HIDE DEF y
  <1>6. /\ seen' \in [UpgReqs -> SeenType] /\ db' \in Databases
        /\ \A q \in UpgReqs : q # r => Spared(job[q], seen[q], seen'[q], db, db')
        /\ seen'[r].before = seen[r].before /\ seen'[r].disturbed = seen[r].disturbed
        /\ seen'[r].migrated => seen[r].migrated
        /\ ok => db' = v
    <2>1. CASE ok
      <3>1. WriteDb(r, v)
        BY <1>1, <2>1
      <3> QED
        BY <1>0, <1>4, <3>1, WriteSpares
    <2>2. CASE ~ok
      BY <1>0, <1>1, <2>2 DEF Spared
    <2> QED
      BY <2>1, <2>2
  <1>7. JobOk(r, y, seen'[r], audit'[r].backup, db')
    <2>1. audit'[r].backup = audit[r].backup /\ ~Untouched(y)
      BY <1>0, <1>2, <1>5 DEF Untouched
    <2>2. CASE job[r].pc = "restore"
      <3>1. b = audit[r].backup
        BY <1>3, <2>2 DEF b
      <3>2. ASSUME ok, ~seen[r].disturbed
            PROVE  BackTo(seen[r].before, db') /\ Grown(seen[r].before, db')
        <4>1. db' = v /\ b = seen[r].before /\ Grown(b, db)
          BY <1>0, <1>3, <1>6, <2>2, <3>1, <3>2 DEF JobOk
        <4>2. (db.made \ b.made) \cap Referencing = {} /\ b.applied \in Int
          BY <1>1, <1>4, <3>2 DEF Databases
        <4> QED
          BY <1>4, <4>1, <4>2 DEF BackTo, Grown
      <3>4. ~ok => db' = db
        BY <1>1
      <3>3. Restored(y) => ok
        BY <1>5 DEF Restored
      <3> QED
        BY <1>0, <1>2, <1>3, <1>5, <1>6, <2>1, <2>2, <3>2, <3>3, <3>4 DEF JobOk
    <2>3. CASE job[r].pc = "manual_restore"
      <3>1. ~Covered(y) /\ ~Restored(y)
        BY <1>2, <1>5, <2>3 DEF Covered, Restored
      <3> QED
        BY <1>0, <1>2, <1>5, <1>6, <2>1, <2>3, <3>1 DEF JobOk
    <2> QED
      BY <1>0, <2>2, <2>3
  <1>8. /\ ManualOk(y, audit')
        /\ \A i \in Instances : inFlight'[i] => Holds(y, i) \/ (inFlight[i] /\ ~Holds(job[r], i))
    BY <1>0, <1>2, <1>5 DEF ManualOk, Holds
  <1>9. /\ upgNow' = upgNow /\ audit' \in [UpgReqs -> AuditType]
        /\ inFlight' \in [Instances -> BOOLEAN] /\ job' = [job EXCEPT ![r] = y]
        /\ \A q \in UpgReqs : q # r => audit'[q] = audit[q]
        /\ audit[r].backup # NoBackup => audit'[r].backup # NoBackup
    BY <1>0, <1>1
  <1> QED
    BY <1>5, <1>6, <1>7, <1>8, <1>9, UpgStep

\* The rollback is recorded; one that could not be does not count as restored.
LEMMA UpgRecordRollbackStep ==
    ASSUME UpgInv, NEW r \in UpgReqs, NEW ok \in BOOLEAN, UpgRecordRollback(r, ok)
    PROVE  UpgInv'
  <1>0. /\ UNCHANGED <<upgNow, db, audit, inFlight, seen>>
        /\ JobOk(r, job[r], seen[r], audit[r].backup, db)
        /\ job[r] \in JobType /\ job \in [UpgReqs -> JobType] /\ job[r].restored \in BOOLEAN
        /\ r # Nobody
    BY UpgradeAssumption DEF UpgRecordRollback, UpgInv, UpgTypes, JobType
  <1> DEFINE done == job[r].restored /\ ok
  <1>1. CASE job[r].pc = "record" /\ job' = [job EXCEPT ![r].pc = "fail", ![r].restored = done]
    <2> DEFINE y == [job[r] EXCEPT !.pc = "fail", !.restored = done]
    <2>1. job' = [job EXCEPT ![r] = y]
      BY <1>0, <1>1
    <2>2. /\ y \in JobType /\ y.pc = "fail" /\ y.of = job[r].of /\ y.at = job[r].at
          /\ y.dry = job[r].dry /\ (y.restored => job[r].restored)
      BY <1>0 DEF JobType, JobPcs
    <2> HIDE DEF y
    <2>3. /\ Covered(job[r]) /\ ~Untouched(job[r]) /\ job[r].of = r /\ ~Untouched(y)
          /\ Restored(y) => Restored(job[r])
      BY <1>0, <1>1, <2>2 DEF Covered, JobOk, Untouched, Restored
    <2>4. JobOk(r, y, seen[r], audit[r].backup, db)
      BY <1>0, <1>1, <2>2, <2>3 DEF JobOk
    <2>5. ManualOk(y, audit) /\ \A i \in Instances : Holds(job[r], i) => Holds(y, i)
      BY <2>2 DEF ManualOk, Holds
    <2> QED
      BY <1>0, <2>1, <2>2, <2>4, <2>5, UpgLocal
  <1>2. CASE job[r].pc = "manual_record" /\ job' = [job EXCEPT ![r] = [NoJob EXCEPT !.pc = "done"]]
    <2> DEFINE y == [NoJob EXCEPT !.pc = "done"]
    <2>1. y \in JobType /\ y.pc = "done" /\ y.answer = "none"
      BY UpgFacts DEF JobType, JobPcs
    <2>2. job' = [job EXCEPT ![r] = y]
      BY <1>2
    <2> HIDE DEF y
    <2>3. ~Covered(y) /\ ~Untouched(y) /\ ~Restored(y) /\ Truthful(y, seen[r], audit[r].backup)
      BY <2>1 DEF Covered, Untouched, Restored, Truthful
    <2>4. JobOk(r, y, seen[r], audit[r].backup, db)
      BY <1>0, <1>2, <2>1, <2>3 DEF JobOk
    <2>5. ManualOk(y, audit) /\ \A i \in Instances : ~Holds(job[r], i)
      BY <1>2, <2>1 DEF ManualOk, Holds
    <2> QED
      BY <1>0, <2>1, <2>2, <2>4, <2>5, UpgLocal
  <1> QED
    BY <1>1, <1>2 DEF UpgRecordRollback, UpgAt

\* The runs of an instance die with it, and its flag.
LEMMA UpgCrashStep ==
    ASSUME UpgInv, NEW i \in Instances, UpgCrash(i)
    PROVE  UpgInv'
  <1> DEFINE hit == {r \in UpgActive : job[r].at = i}
             y == [NoJob EXCEPT !.pc = "dead"]
  <1>0. /\ inFlight' = [inFlight EXCEPT ![i] = FALSE] /\ UNCHANGED <<upgNow, audit>>
        /\ job' = [r \in UpgReqs |-> IF r \in hit THEN y ELSE job[r]]
        /\ UpgTypes
    BY DEF UpgCrash, UpgInv
  <1>1. y \in JobType /\ y.pc = "dead"
    BY UpgFacts DEF JobType, JobPcs
  <1> HIDE DEF y
  <1>2. ~Covered(y) /\ ~Untouched(y) /\ ~Restored(y)
    BY <1>1 DEF Covered, Untouched, Restored
  <1>3. /\ seen' \in [UpgReqs -> SeenType] /\ db' \in Databases
        /\ \A r \in UpgReqs : \/ Spared(job[r], seen[r], seen'[r], db, db')
                              \/ /\ r \in hit /\ seen'[r].before = seen[r].before
                                 /\ seen'[r].disturbed = seen[r].disturbed
                                 /\ seen'[r].migrated => seen[r].migrated \/ job[r].pc = "migrating"
    <2>1. CASE migrator \in hit
      <3>1. PICK broken \in {db.failed, db.failed \/ db.applied < Target} :
              WriteDb(migrator, [db EXCEPT !.failed = broken])
        BY <2>1 DEF UpgCrash
      <3>2. migrator \in UpgReqs
        BY <2>1 DEF UpgActive
      <3> QED
        BY <2>1, <3>1, <3>2, BrokenDatabase, WriteSpares
    <2>2. CASE migrator \notin hit
      <3>1. UNCHANGED <<db, seen>>
        BY <2>2 DEF UpgCrash
      <3>2. \A r \in UpgReqs : Spared(job[r], seen[r], seen'[r], db, db')
        BY <3>1 DEF Spared
      <3> QED
        BY <1>0, <3>1, <3>2 DEF UpgTypes
    <2> QED
      BY <2>1, <2>2
  <1>4. /\ job' \in [UpgReqs -> JobType]
        /\ \A r \in UpgReqs : job'[r] = IF r \in hit THEN y ELSE job[r]
    BY <1>0, <1>1 DEF UpgTypes
  <1>5. UpgTypes'
    BY <1>0, <1>3, <1>4 DEF UpgTypes
  <1>6. ASSUME NEW r \in UpgReqs PROVE JobOk(r, job'[r], seen'[r], audit'[r].backup, db')
    <2>1. JobOk(r, job[r], seen[r], audit[r].backup, db) /\ audit' = audit
      BY <1>0 DEF UpgInv
    <2>2. CASE r \notin hit
      BY <1>3, <1>4, <2>1, <2>2, JobOkSpared
    <2>3. CASE r \in hit
      <3>1. /\ seen'[r].before = seen[r].before
            /\ ~seen'[r].disturbed => ~seen[r].disturbed
            /\ seen'[r].migrated => seen[r].migrated \/ job[r].pc = "migrating"
        BY <1>3 DEF Spared
      <3>2. job[r].pc = "migrating" => Covered(job[r])
        BY <2>1 DEF Covered, JobOk
      <3>3. job'[r] = y
        BY <1>4, <2>3
      <3> QED
        BY <1>1, <1>2, <2>1, <3>1, <3>2, <3>3 DEF JobOk
    <2> QED
      BY <2>2, <2>3
  <1>7. ASSUME NEW r \in UpgReqs PROVE ManualOk(job'[r], audit')
    <2>1. ManualOk(job[r], audit) /\ audit' = audit
      BY <1>0 DEF UpgInv
    <2>2. job'[r] = job[r] \/ job'[r] = y
      BY <1>4
    <2> QED
      BY <1>1, <2>1, <2>2 DEF ManualOk
  <1>8. ASSUME NEW j \in Instances, inFlight'[j] PROVE \E r \in UpgReqs : Holds(job'[r], j)
    <2>1. j # i /\ inFlight[j]
      BY <1>0, <1>8 DEF UpgTypes
    <2>2. PICK r \in UpgReqs : Holds(job[r], j)
      BY <2>1 DEF UpgInv
    <2>3. r \notin hit
      BY <2>1, <2>2 DEF Holds
    <2> QED
      BY <1>4, <2>2, <2>3
  <1> QED
    BY <1>5, <1>6, <1>7, <1>8 DEF UpgInv

\* Every step of upgrade and rollback keeps the invariant.
LEMMA UpgInvNext == ASSUME UpgInv, [UpgNext]_upgVars PROVE UpgInv'
  <1>1. ASSUME NEW r \in UpgReqs, UpgStage(r) PROVE UpgInv'
    <2>1. CASE \/ UpgAdmit(r) \/ UpgMigrate(r) \/ UpgApply(r) \/ UpgMigrated(r)
               \/ UpgMigrationFails(r) \/ UpgRollback(r)
               \/ \E result \in {"pass", "checks", "error"} : UpgValidate(r, result)
      BY <2>1, UpgAdmitStep, UpgMigrateStep, UpgApplyStep, UpgMigratedStep,
         UpgMigrationFailsStep, UpgRollbackStep, UpgValidateStep
    <2>2. ASSUME NEW ok \in BOOLEAN,
                 \/ UpgInitialize(r, ok) \/ UpgDump(r, ok) \/ UpgRecordDump(r, ok)
                 \/ UpgConfig(r, ok) \/ UpgHealth(r, ok) \/ UpgComplete(r, ok) \/ UpgFail(r, ok)
                 \/ UpgRestore(r, ok) \/ UpgRecordRollback(r, ok)
          PROVE  UpgInv'
      BY <2>2, UpgInitializeStep, UpgDumpStep, UpgRecordDumpStep, UpgConfigStep, UpgHealthStep,
         UpgCompleteStep, UpgFailStep, UpgRestoreStep, UpgRecordRollbackStep
    <2> QED
      BY <1>1, <2>1, <2>2 DEF UpgStage
  <1>2. ASSUME NEW r \in UpgReqs, NEW i \in Instances,
               \/ \E dry, force \in BOOLEAN : UpgStart(r, i, dry, force)
               \/ \E q \in UpgReqs : UpgManualRollback(r, i, q)
               \/ UpgRollbackLast(r, i)
        PROVE  UpgInv'
    BY <1>2, UpgStartStep, UpgManualRollbackStep DEF UpgRollbackLast, LastCompleted
  <1>3. ASSUME NEW i \in Instances, UpgCrash(i) PROVE UpgInv'
    BY <1>3, UpgCrashStep
  <1>4. CASE UpgTick \/ UNCHANGED upgVars
    <2>1. UNCHANGED <<db, audit, inFlight, job, seen>> /\ upgNow' \in Nat
      BY <1>4 DEF UpgTick, upgVars, UpgInv, UpgTypes
    <2> QED
      BY <2>1 DEF UpgInv, UpgTypes
  <1> QED
    BY <1>1, <1>2, <1>3, <1>4 DEF UpgNext

(* What a run reports is true of the database unless another request        *)
(* changed it meanwhile (runUpgrade, buildFailureResult), for any number of *)
(* requests, instances and migrations, with live restore allowed or not,    *)
(* and whichever migrations create tables: a restore leaves those behind    *)
(* that are not in the archive (restoreBackup), so "rolled back" means the  *)
(* database before the run and at most such tables and types.               *)
THEOREM UpgAnswerTruthfulHolds == UpgSpec => []UpgAnswerTruthful
  <1>1. UpgInv => UpgAnswerTruthful
    <2> SUFFICES ASSUME UpgInv, NEW r \in UpgReqs, job[r].pc = "done", ~seen[r].disturbed
                 PROVE  CASE job[r].answer = "success" ->
                               IF job[r].dry THEN seen[r].end = seen[r].before
                               ELSE seen[r].end.applied = Target /\ ~seen[r].end.failed
                          [] job[r].answer = "failed" -> seen[r].end = seen[r].before
                          [] job[r].answer = "rolled_back" -> BackTo(seen[r].before, seen[r].end)
                          [] job[r].answer = "rollback_failed" -> audit[r].backup = seen[r].before
                          [] OTHER -> TRUE
      BY DEF UpgAnswerTruthful
    <2>1. Truthful(job[r], seen[r], audit[r].backup)
      BY DEF UpgInv, JobOk
    <2> QED
      BY <2>1 DEF Truthful, Migrated
  <1> QED
    BY <1>1, UpgInvInit, UpgInvNext, PTL DEF UpgSpec

(* A run that has changed the database has its archive on its audit row,    *)
(* also after a crash (createBackup, executeRollback), for any number of    *)
(* requests, instances and migrations.                                      *)
THEOREM UpgWayBackHolds == UpgSpec => []UpgWayBack
  <1>1. UpgInv => UpgWayBack
    BY DEF UpgInv, JobOk, UpgWayBack
  <1> QED
    BY <1>1, UpgInvInit, UpgInvNext, PTL DEF UpgSpec

(* No exit path of runUpgrade leaves inFlight up, for any number of         *)
(* requests and instances.                                                  *)
THEOREM UpgFlagMeansRunningHolds == UpgSpec => []UpgFlagMeansRunning
  <1>1. UpgInv => UpgFlagMeansRunning
    BY DEF UpgInv, UpgFlagMeansRunning, Holds, UpgRunning, UpgActive, Ended
  <1> QED
    BY <1>1, UpgInvInit, UpgInvNext, PTL DEF UpgSpec

-----------------------------------------------------------------------------
(* Rate limits.  A Redis counter is what was let through plus the requests  *)
(* that may still take their count back, as long as no error interferes;    *)
(* the row of the database is followed through the one window that nobody   *)
(* else was counted in when it began.                                       *)

RlPcs  == {"idle", "minute", "hour", "undo_minute", "undo_hour",
           "upsert", "reset_minute", "reset_hour", "decide"}
RlRec  == [pc : RlPcs, at : Minutes, minute : Int, hour : Int, start : Minutes,
           hourOver : BOOLEAN, counted : BOOLEAN]
RowRec == [exists : BOOLEAN, minute : Int, minuteStart : Minutes, hour : Int, hourStart : Minutes]
Tally  == [minute : [Minutes -> Nat], hour : [Hours -> Nat], db : [Minutes -> Nat]]

RlTypes ==
    /\ rlNow \in Minutes /\ redisUp \in BOOLEAN
    /\ contested \subseteq Minutes /\ lost \subseteq {"extra", "missing"}
    /\ minuteKey \in [Minutes -> Int] /\ hourKey \in [Hours -> Int]
    /\ entry \in RowRec /\ passed \in Tally
    /\ rl \in [RlReqs -> RlRec]
    /\ entry.minuteStart <= rlNow /\ \A r \in RlReqs : rl[r].at <= rlNow

\* A request x in the minute counter, seen below the limit, in the hour counter
InMinute(x, t) == x.counted /\ x.pc \in {"hour", "undo_minute"} /\ x.at = t
OkMinute(x, t) == x.counted /\ x.pc = "hour" /\ x.minute <= PerMinute /\ x.at = t
InHour(x, h)   == x.pc \in {"undo_minute", "undo_hour"} /\ HourOf(x.at) = h
\* A request x in the row, in the window it found there, and below the limit
InRow(x, t) == x.pc \in {"reset_minute", "reset_hour", "decide"} /\ x.start = t
InWin(x, t) == x.pc \in {"reset_hour", "decide"} /\ x.start = t
OkWin(x, t) == InWin(x, t) /\ x.minute <= PerMinute

NInMinute(f, t) == Cardinality({q \in RlReqs : InMinute(f[q], t)})
NOkMinute(f, t) == Cardinality({q \in RlReqs : OkMinute(f[q], t)})
NInHour(f, h)   == Cardinality({q \in RlReqs : InHour(f[q], h)})
NInRow(f, t)    == Cardinality({q \in RlReqs : InRow(f[q], t)})
NInWin(f, t)    == Cardinality({q \in RlReqs : InWin(f[q], t)})
NOkWin(f, t)    == Cardinality({q \in RlReqs : OkWin(f[q], t)})

RedisInv ==
    /\ "missing" \in lost => "extra" \in lost
    /\ \A r \in RlReqs : rl[r].pc = "minute" => rl[r].counted
    /\ "missing" \notin lost =>
         /\ \A r \in RlReqs : rl[r].pc = "undo_minute" => rl[r].counted
         /\ \A t \in Minutes : /\ minuteKey[t] >= passed.minute[t] + NInMinute(rl, t)
                               /\ passed.minute[t] + NOkMinute(rl, t) <= PerMinute
         /\ \A h \in Hours : /\ hourKey[h] >= passed.hour[h] + NInHour(rl, h)
                             /\ passed.hour[h] <= PerHour
    /\ "extra" \notin lost =>
         /\ \A t \in Minutes : minuteKey[t] <= passed.minute[t] + NInMinute(rl, t)
         /\ \A h \in Hours : hourKey[h] <= passed.hour[h] + NInHour(rl, h)

RateRowInv ==
    "extra" \notin lost /\ entry.exists =>
        entry.minute <= passed.db[entry.minuteStart] + NInRow(rl, entry.minuteStart)

WinStarted(t) ==
    \/ passed.db[t] > 0
    \/ \E r \in RlReqs : InWin(rl[r], t)
    \/ entry.exists /\ entry.minuteStart = t

(* A window that began at t and was not contested: nobody can begin it a    *)
(* second time, and while the row is in it the row counts for it only.      *)
WinOk(t) ==
    /\ t <= rlNow
    /\ \A r \in RlReqs : rl[r].pc \in InDb => rl[r].at >= t
    /\ \A r \in RlReqs : rl[r].pc = "reset_minute" => rl[r].at > t
    /\ entry.exists => entry.minuteStart >= t
    /\ ~entry.exists => rlNow > t /\ \A r \in RlReqs : rl[r].pc \in InDb => rl[r].at > t
    /\ entry.exists /\ entry.minuteStart = t =>
         /\ \A r \in RlReqs : rl[r].pc \in {"reset_hour", "decide"} => rl[r].start = t
         /\ entry.minute >= passed.db[t] + NInWin(rl, t)
    /\ passed.db[t] + NOkWin(rl, t) <= PerMinute

WinInv == \A t \in Minutes \ contested : WinStarted(t) => WinOk(t)

RlInv == RlTypes /\ RedisInv /\ RateRowInv /\ WinInv

One(b) == IF b THEN 1 ELSE 0

\* Sets of requests that differ in r only
LEMMA OneMoves ==
    ASSUME NEW r \in RlReqs, NEW S, NEW T, S \subseteq RlReqs, T \subseteq RlReqs,
           \A q \in RlReqs : q # r => (q \in S <=> q \in T)
    PROVE  /\ Cardinality(S) \in Nat /\ Cardinality(T) \in Nat
           /\ Cardinality(T) = Cardinality(S) + One(r \in T) - One(r \in S)
  <1>0. /\ IsFiniteSet(RlReqs) /\ Cardinality(S) \in Nat /\ Cardinality(T) \in Nat
    BY RateLimiterAssumption, CountType
  <1>1. CASE r \in T /\ r \notin S
    <2>1. T = S \cup {r}
      BY <1>1
    <2> QED
      BY <1>0, <1>1, <2>1, CountGains DEF One
  <1>2. CASE r \notin T /\ r \in S
    <2>1. T = S \ {r}
      BY <1>2
    <2> QED
      BY <1>0, <1>2, <2>1, CountLoses DEF One
  <1>3. CASE r \in T <=> r \in S
    <2>1. T = S
      BY <1>3
    <2> QED
      BY <1>0, <2>1 DEF One
  <1> QED
    BY <1>1, <1>2, <1>3

\* Nobody is counted at the beginning.
LEMMA RlNoCounts ==
    ASSUME NEW f, \A q \in RlReqs : f[q] = IdleRl, NEW t
    PROVE  /\ NInMinute(f, t) = 0 /\ NOkMinute(f, t) = 0 /\ NInHour(f, t) = 0
           /\ NInRow(f, t) = 0 /\ NInWin(f, t) = 0 /\ NOkWin(f, t) = 0
  <1>1. IdleRl.pc = "idle"
    BY DEF IdleRl
  <1>2. /\ {q \in RlReqs : InMinute(f[q], t)} = {} /\ {q \in RlReqs : OkMinute(f[q], t)} = {}
        /\ {q \in RlReqs : InHour(f[q], t)} = {} /\ {q \in RlReqs : InRow(f[q], t)} = {}
        /\ {q \in RlReqs : InWin(f[q], t)} = {} /\ {q \in RlReqs : OkWin(f[q], t)} = {}
    BY <1>1 DEF InMinute, OkMinute, InHour, InRow, InWin, OkWin
  <1>3. Cardinality({}) = 0
    BY FS_EmptySet
  <1> QED
    BY <1>2, <1>3 DEF NInMinute, NOkMinute, NInHour, NInRow, NInWin, NOkWin

\* The idle request, the absent row, and the types of the constants.
LEMMA RlFacts ==
    /\ RlMaxTime \in Nat /\ PerMinute \in Nat /\ PerHour \in Nat /\ PerMinute >= 1
    /\ Hour \in Nat /\ Hour >= 1
    /\ Minutes \subseteq Nat /\ 0 \in Minutes /\ \A t \in Minutes : HourOf(t) \in Hours
    /\ IdleRl \in RlRec /\ IdleRl.pc = "idle" /\ IdleRl.at = 0 /\ IdleRl.counted = TRUE
    /\ NoEntry \in RowRec /\ NoEntry.exists = FALSE /\ NoEntry.minuteStart = 0
  <1>1. /\ RlMaxTime \in Nat /\ PerMinute \in Nat /\ PerHour \in Nat /\ PerMinute >= 1
        /\ Hour \in Nat /\ Hour >= 1
    BY RateLimiterAssumption
  <1>2. Minutes \subseteq Nat /\ 0 \in Minutes
    BY <1>1 DEF Minutes
  <1>3. \A t \in Minutes : HourOf(t) \in Hours
    BY DEF Hours
  <1>4. IdleRl \in RlRec /\ IdleRl.pc = "idle" /\ IdleRl.at = 0 /\ IdleRl.counted = TRUE
    BY <1>2 DEF IdleRl, RlRec, RlPcs
  <1>5. NoEntry \in RowRec /\ NoEntry.exists = FALSE /\ NoEntry.minuteStart = 0
    BY <1>2 DEF NoEntry, RowRec
  <1> QED
    BY <1>1, <1>2, <1>3, <1>4, <1>5

\* Nothing is counted at the start.
LEMMA RlInvInit == ASSUME RlInit PROVE RlInv
  <1>1. /\ \A q \in RlReqs : rl[q] = IdleRl
        /\ passed.minute = [t \in Minutes |-> 0] /\ passed.hour = [h \in Hours |-> 0]
        /\ passed.db = [t \in Minutes |-> 0]
        /\ entry.exists = FALSE /\ lost = {}
    BY RlFacts DEF RlInit
  <1>2. passed \in Tally
    BY DEF RlInit, Tally
  <1>3. RlTypes
    BY <1>1, <1>2, RlFacts DEF RlInit, RlTypes
  <1>4. RedisInv
    BY <1>1, RlFacts, RlNoCounts DEF RlInit, RedisInv
  <1>5. RateRowInv
    BY <1>1 DEF RateRowInv
  <1>6. \A t \in Minutes : ~WinStarted(t)
    BY <1>1, RlFacts DEF WinStarted, InWin
  <1> QED
    BY <1>3, <1>4, <1>5, <1>6 DEF RlInv, WinInv

\* Request r goes on as y.
RlMoves(r, y) == y \in RlRec /\ y.at <= rlNow /\ rl' = [rl EXCEPT ![r] = y]

\* One request moves, the others stand.
LEMMA RlMoved ==
    ASSUME RlTypes, NEW r \in RlReqs, NEW y, RlMoves(r, y)
    PROVE  /\ rl' \in [RlReqs -> RlRec] /\ rl'[r] = y
           /\ \A q \in RlReqs : q # r => rl'[q] = rl[q]
           /\ \A q \in RlReqs : rl'[q].at <= rlNow
  <1>1. /\ rl' \in [RlReqs -> RlRec] /\ rl'[r] = y
        /\ \A q \in RlReqs : q # r => rl'[q] = rl[q]
    BY DEF RlTypes, RlMoves
  <1> QED
    BY <1>1 DEF RlTypes, RlMoves

\* The counts change by what r was and is.
LEMMA RedisCounts ==
    ASSUME RlTypes, NEW r \in RlReqs, NEW y, RlMoves(r, y), NEW t
    PROVE  /\ NInMinute(rl, t) \in Nat /\ NOkMinute(rl, t) \in Nat /\ NInHour(rl, t) \in Nat
           /\ NInMinute(rl', t) = NInMinute(rl, t) + One(InMinute(y, t)) - One(InMinute(rl[r], t))
           /\ NOkMinute(rl', t) = NOkMinute(rl, t) + One(OkMinute(y, t)) - One(OkMinute(rl[r], t))
           /\ NInHour(rl', t) = NInHour(rl, t) + One(InHour(y, t)) - One(InHour(rl[r], t))
           /\ NOkMinute(rl, t) <= NInMinute(rl, t)
  <1> DEFINE In(e)  == {q \in RlReqs : InMinute(e[q], t)}
             Ok(e)  == {q \in RlReqs : OkMinute(e[q], t)}
             Hr(e)  == {q \in RlReqs : InHour(e[q], t)}
  <1>0. rl'[r] = y /\ \A q \in RlReqs : q # r => rl'[q] = rl[q]
    BY RlMoved
  <1>1. /\ (r \in In(rl) <=> InMinute(rl[r], t)) /\ (r \in In(rl') <=> InMinute(y, t))
        /\ (r \in Ok(rl) <=> OkMinute(rl[r], t)) /\ (r \in Ok(rl') <=> OkMinute(y, t))
        /\ (r \in Hr(rl) <=> InHour(rl[r], t)) /\ (r \in Hr(rl') <=> InHour(y, t))
    BY <1>0
  <1>2. \A q \in RlReqs : q # r => /\ q \in In(rl) <=> q \in In(rl')
                                   /\ q \in Ok(rl) <=> q \in Ok(rl')
                                   /\ q \in Hr(rl) <=> q \in Hr(rl')
    BY <1>0
  <1>3. /\ In(rl) \subseteq RlReqs /\ In(rl') \subseteq RlReqs /\ Ok(rl) \subseteq RlReqs
        /\ Ok(rl') \subseteq RlReqs /\ Hr(rl) \subseteq RlReqs /\ Hr(rl') \subseteq RlReqs
    OBVIOUS
  <1>4. /\ NInMinute(rl, t) = Cardinality(In(rl)) /\ NInMinute(rl', t) = Cardinality(In(rl'))
        /\ NOkMinute(rl, t) = Cardinality(Ok(rl)) /\ NOkMinute(rl', t) = Cardinality(Ok(rl'))
        /\ NInHour(rl, t) = Cardinality(Hr(rl)) /\ NInHour(rl', t) = Cardinality(Hr(rl'))
    BY DEF NInMinute, NOkMinute, NInHour
  <1>8. Ok(rl) \subseteq In(rl)
    BY DEF OkMinute, InMinute
  <1> HIDE DEF In, Ok, Hr
  <1>5. /\ Cardinality(In(rl)) \in Nat
        /\ Cardinality(In(rl')) = Cardinality(In(rl)) + One(InMinute(y, t)) - One(InMinute(rl[r], t))
    BY <1>1, <1>2, <1>3, OneMoves DEF One
  <1>6. /\ Cardinality(Ok(rl)) \in Nat
        /\ Cardinality(Ok(rl')) = Cardinality(Ok(rl)) + One(OkMinute(y, t)) - One(OkMinute(rl[r], t))
    BY <1>1, <1>2, <1>3, OneMoves DEF One
  <1>7. /\ Cardinality(Hr(rl)) \in Nat
        /\ Cardinality(Hr(rl')) = Cardinality(Hr(rl)) + One(InHour(y, t)) - One(InHour(rl[r], t))
    BY <1>1, <1>2, <1>3, OneMoves DEF One
  <1>9. Cardinality(Ok(rl)) <= Cardinality(In(rl))
    <2>1. IsFiniteSet(In(rl))
      BY <1>3, RateLimiterAssumption, CountType
    <2> QED
      BY <1>8, <2>1, CountType
  <1> QED
    BY <1>4, <1>5, <1>6, <1>7, <1>9

\* So each count of requests changes by that request alone.
LEMMA RowCounts ==
    ASSUME RlTypes, NEW r \in RlReqs, NEW y, RlMoves(r, y), NEW t
    PROVE  /\ NInRow(rl, t) \in Nat /\ NInWin(rl, t) \in Nat /\ NOkWin(rl, t) \in Nat
           /\ NInRow(rl', t) = NInRow(rl, t) + One(InRow(y, t)) - One(InRow(rl[r], t))
           /\ NInWin(rl', t) = NInWin(rl, t) + One(InWin(y, t)) - One(InWin(rl[r], t))
           /\ NOkWin(rl', t) = NOkWin(rl, t) + One(OkWin(y, t)) - One(OkWin(rl[r], t))
           /\ NOkWin(rl, t) <= NInWin(rl, t)
  <1> DEFINE Row(e) == {q \in RlReqs : InRow(e[q], t)}
             Win(e) == {q \in RlReqs : InWin(e[q], t)}
             Ok(e)  == {q \in RlReqs : OkWin(e[q], t)}
  <1>0. rl'[r] = y /\ \A q \in RlReqs : q # r => rl'[q] = rl[q]
    BY RlMoved
  <1>1. /\ (r \in Row(rl) <=> InRow(rl[r], t)) /\ (r \in Row(rl') <=> InRow(y, t))
        /\ (r \in Win(rl) <=> InWin(rl[r], t)) /\ (r \in Win(rl') <=> InWin(y, t))
        /\ (r \in Ok(rl) <=> OkWin(rl[r], t)) /\ (r \in Ok(rl') <=> OkWin(y, t))
    BY <1>0
  <1>2. \A q \in RlReqs : q # r => /\ q \in Row(rl) <=> q \in Row(rl')
                                   /\ q \in Win(rl) <=> q \in Win(rl')
                                   /\ q \in Ok(rl) <=> q \in Ok(rl')
    BY <1>0
  <1>3. /\ Row(rl) \subseteq RlReqs /\ Row(rl') \subseteq RlReqs /\ Win(rl) \subseteq RlReqs
        /\ Win(rl') \subseteq RlReqs /\ Ok(rl) \subseteq RlReqs /\ Ok(rl') \subseteq RlReqs
    OBVIOUS
  <1>4. /\ NInRow(rl, t) = Cardinality(Row(rl)) /\ NInRow(rl', t) = Cardinality(Row(rl'))
        /\ NInWin(rl, t) = Cardinality(Win(rl)) /\ NInWin(rl', t) = Cardinality(Win(rl'))
        /\ NOkWin(rl, t) = Cardinality(Ok(rl)) /\ NOkWin(rl', t) = Cardinality(Ok(rl'))
    BY DEF NInRow, NInWin, NOkWin
  <1>8. Ok(rl) \subseteq Win(rl)
    BY DEF OkWin
  <1> HIDE DEF Row, Win, Ok
  <1>5. /\ Cardinality(Row(rl)) \in Nat
        /\ Cardinality(Row(rl')) = Cardinality(Row(rl)) + One(InRow(y, t)) - One(InRow(rl[r], t))
    BY <1>1, <1>2, <1>3, OneMoves DEF One
  <1>6. /\ Cardinality(Win(rl)) \in Nat
        /\ Cardinality(Win(rl')) = Cardinality(Win(rl)) + One(InWin(y, t)) - One(InWin(rl[r], t))
    BY <1>1, <1>2, <1>3, OneMoves DEF One
  <1>7. /\ Cardinality(Ok(rl)) \in Nat
        /\ Cardinality(Ok(rl')) = Cardinality(Ok(rl)) + One(OkWin(y, t)) - One(OkWin(rl[r], t))
    BY <1>1, <1>2, <1>3, OneMoves DEF One
  <1>9. Cardinality(Ok(rl)) <= Cardinality(Win(rl))
    <2>1. IsFiniteSet(Win(rl))
      BY <1>3, RateLimiterAssumption, CountType
    <2> QED
      BY <1>8, <2>1, CountType
  <1> QED
    BY <1>4, <1>5, <1>6, <1>7, <1>9

\* The step keeps the types if what it writes is typed.
LEMMA RlTypesKept ==
    ASSUME RlTypes, NEW r \in RlReqs, NEW y, RlMoves(r, y), UNCHANGED <<rlNow, redisUp>>,
           contested' \subseteq Minutes, lost' \subseteq {"extra", "missing"},
           minuteKey' \in [Minutes -> Int], hourKey' \in [Hours -> Int],
           entry' = entry \/ (entry' \in RowRec /\ entry'.minuteStart <= rlNow), passed' \in Tally
    PROVE  RlTypes'
  BY RlMoved DEF RlTypes

(* A request that holds no count in Redis afterwards: an error may have     *)
(* left one behind, or added one.                                           *)
LEMMA RedisLeaves ==
    ASSUME RlTypes, RedisInv, NEW r \in RlReqs, NEW y, RlMoves(r, y),
           passed'.minute = passed.minute, passed'.hour = passed.hour,
           "missing" \in lost' <=> "missing" \in lost, "extra" \in lost => "extra" \in lost',
           minuteKey' \in [Minutes -> Int], hourKey' \in [Hours -> Int],
           \A t \in Minutes : minuteKey'[t] >= minuteKey[t],
           \A h \in Hours : hourKey'[h] >= hourKey[h],
           y.pc \notin {"undo_minute", "undo_hour"}, y.pc = "hour" => ~y.counted,
           y.pc = "minute" => y.counted,
           "extra" \notin lost' =>
              /\ minuteKey' = minuteKey /\ hourKey' = hourKey
              /\ rl[r].pc \notin {"undo_minute", "undo_hour"} /\ (rl[r].pc = "hour" => ~rl[r].counted)
    PROVE  RedisInv'
  <1>0. /\ rl'[r] = y /\ \A q \in RlReqs : q # r => rl'[q] = rl[q]
    BY RlMoved
  <1>1. \A t : ~InMinute(y, t) /\ ~OkMinute(y, t) /\ ~InHour(y, t)
    BY DEF InMinute, OkMinute, InHour
  <1>2. \A t : /\ NInMinute(rl', t) <= NInMinute(rl, t) /\ NOkMinute(rl', t) <= NOkMinute(rl, t)
               /\ NInHour(rl', t) <= NInHour(rl, t)
               /\ NInMinute(rl, t) \in Nat /\ NOkMinute(rl, t) \in Nat /\ NInHour(rl, t) \in Nat
               /\ NInMinute(rl', t) \in Int /\ NOkMinute(rl', t) \in Int /\ NInHour(rl', t) \in Int
    <2> TAKE t
    <2>1. /\ One(InMinute(y, t)) = 0 /\ One(OkMinute(y, t)) = 0 /\ One(InHour(y, t)) = 0
          /\ One(InMinute(rl[r], t)) \in {0, 1} /\ One(OkMinute(rl[r], t)) \in {0, 1}
          /\ One(InHour(rl[r], t)) \in {0, 1}
      BY <1>1 DEF One
    <2> QED
      BY <2>1, RedisCounts
  <1>3. ASSUME "extra" \notin lost' PROVE \A t : /\ NInMinute(rl', t) = NInMinute(rl, t)
                                                 /\ NInHour(rl', t) = NInHour(rl, t)
    <2>1. \A t : ~InMinute(rl[r], t) /\ ~InHour(rl[r], t)
      BY <1>3 DEF InMinute, InHour
    <2> QED
      <3> TAKE t
      <3>1. /\ One(InMinute(y, t)) = 0 /\ One(InHour(y, t)) = 0
            /\ One(InMinute(rl[r], t)) = 0 /\ One(InHour(rl[r], t)) = 0
        BY <1>1, <2>1 DEF One
      <3> QED
        BY <3>1, RedisCounts
  <1>4. /\ passed.minute \in [Minutes -> Nat] /\ passed.hour \in [Hours -> Nat]
        /\ minuteKey \in [Minutes -> Int] /\ hourKey \in [Hours -> Int]
    BY DEF RlTypes, Tally
  <1>5. ASSUME "missing" \notin lost'
        PROVE  /\ \A q \in RlReqs : rl'[q].pc = "undo_minute" => rl'[q].counted
               /\ \A t \in Minutes : /\ minuteKey'[t] >= passed'.minute[t] + NInMinute(rl', t)
                                     /\ passed'.minute[t] + NOkMinute(rl', t) <= PerMinute
               /\ \A h \in Hours : /\ hourKey'[h] >= passed'.hour[h] + NInHour(rl', h)
                                   /\ passed'.hour[h] <= PerHour
    <2>1. \A q \in RlReqs : rl'[q].pc = "undo_minute" => rl'[q].counted
      BY <1>0, <1>5 DEF RedisInv
    <2>2. ASSUME NEW t \in Minutes
          PROVE  /\ minuteKey'[t] >= passed'.minute[t] + NInMinute(rl', t)
                 /\ passed'.minute[t] + NOkMinute(rl', t) <= PerMinute
      <3>1. /\ minuteKey[t] >= passed.minute[t] + NInMinute(rl, t)
            /\ passed.minute[t] + NOkMinute(rl, t) <= PerMinute
        BY <1>5 DEF RedisInv
      <3> QED
        BY <1>2, <1>4, <3>1, RlFacts
    <2>3. ASSUME NEW h \in Hours
          PROVE  /\ hourKey'[h] >= passed'.hour[h] + NInHour(rl', h)
                 /\ passed'.hour[h] <= PerHour
      <3>1. /\ hourKey[h] >= passed.hour[h] + NInHour(rl, h) /\ passed.hour[h] <= PerHour
        BY <1>5 DEF RedisInv
      <3> QED
        BY <1>2, <1>4, <3>1, RlFacts
    <2> QED
      BY <2>1, <2>2, <2>3
  <1>6. ASSUME "extra" \notin lost'
        PROVE  /\ \A t \in Minutes : minuteKey'[t] <= passed'.minute[t] + NInMinute(rl', t)
               /\ \A h \in Hours : hourKey'[h] <= passed'.hour[h] + NInHour(rl', h)
    BY <1>3, <1>6 DEF RedisInv
  <1>7. /\ "missing" \in lost' => "extra" \in lost'
        /\ \A q \in RlReqs : rl'[q].pc = "minute" => rl'[q].counted
    BY <1>0 DEF RedisInv
  <1> QED
    BY <1>5, <1>6, <1>7 DEF RedisInv

\* A step that leaves the counts of the row alone, but for a request that goes
LEMMA DbQuiet ==
    ASSUME RlTypes, RateRowInv, WinInv, NEW r \in RlReqs, NEW y, RlMoves(r, y),
           UNCHANGED <<rlNow, contested>>, passed'.db = passed.db, "extra" \in lost => "extra" \in lost',
           entry'.exists = entry.exists, entry'.minute = entry.minute,
           entry'.minuteStart = entry.minuteStart,
           "extra" \notin lost' => \A t : InRow(rl[r], t) => InRow(y, t),
           \A t : /\ InWin(y, t) => InWin(rl[r], t)
                  /\ OkWin(y, t) => OkWin(rl[r], t),
           y.pc \in InDb => \/ y.pc = "upsert" /\ y.at = rlNow
                            \/ rl[r].pc \in InDb /\ y.at = rl[r].at /\ y.pc # "reset_minute"
    PROVE  RateRowInv' /\ WinInv'
  <1>0. /\ rl'[r] = y /\ \A q \in RlReqs : q # r => rl'[q] = rl[q]
    BY RlMoved
  <1>1. \A t : /\ NInWin(rl', t) <= NInWin(rl, t) /\ NOkWin(rl', t) <= NOkWin(rl, t)
               /\ NInWin(rl, t) \in Nat /\ NOkWin(rl, t) \in Nat /\ NInRow(rl, t) \in Nat
               /\ NInWin(rl', t) \in Int /\ NOkWin(rl', t) \in Int /\ NInRow(rl', t) \in Int
    <2> TAKE t
    <2>1. /\ One(InWin(y, t)) <= One(InWin(rl[r], t)) /\ One(OkWin(y, t)) <= One(OkWin(rl[r], t))
          /\ One(InWin(y, t)) \in {0, 1} /\ One(OkWin(y, t)) \in {0, 1}
          /\ One(InWin(rl[r], t)) \in {0, 1} /\ One(OkWin(rl[r], t)) \in {0, 1}
          /\ One(InRow(y, t)) \in {0, 1} /\ One(InRow(rl[r], t)) \in {0, 1}
      BY DEF One
    <2> QED
      BY <2>1, RowCounts
  <1>2. /\ passed.db \in [Minutes -> Nat] /\ entry.minute \in Int /\ entry.minuteStart \in Minutes
        /\ y.at \in Nat /\ rlNow \in Nat
    BY RlFacts DEF RlTypes, Tally, RowRec, RlRec, RlMoves
  <1>3. RateRowInv'
    <2> SUFFICES ASSUME "extra" \notin lost', entry.exists
                 PROVE  entry.minute <= passed.db[entry.minuteStart] + NInRow(rl', entry.minuteStart)
      BY DEF RateRowInv
    <2>1. NInRow(rl', entry.minuteStart) >= NInRow(rl, entry.minuteStart)
      <3> DEFINE t == entry.minuteStart
      <3>1. /\ One(InRow(y, t)) >= One(InRow(rl[r], t))
            /\ One(InRow(y, t)) \in {0, 1} /\ One(InRow(rl[r], t)) \in {0, 1}
        BY DEF One
      <3> HIDE DEF t
      <3>2. NInRow(rl', t) >= NInRow(rl, t)
        BY <3>1, RowCounts
      <3> QED
        BY <3>2 DEF t
    <2>2. entry.minute <= passed.db[entry.minuteStart] + NInRow(rl, entry.minuteStart)
      BY DEF RateRowInv
    <2> QED
      BY <1>1, <1>2, <2>1, <2>2
  <1>4. ASSUME NEW t \in Minutes, t \notin contested', WinStarted(t)' PROVE WinOk(t)'
    <2>1. WinStarted(t)
      BY <1>0, <1>4 DEF WinStarted
    <2>2. WinOk(t)
      BY <1>4, <2>1 DEF WinInv
    <2>3. t \in Nat
      BY RlFacts
    <2>4. /\ t <= rlNow' /\ (entry'.exists => entry'.minuteStart >= t)
          /\ ~entry'.exists => rlNow' > t
      BY <2>2 DEF WinOk
    <2>5. ASSUME NEW q \in RlReqs, rl'[q].pc \in InDb
          PROVE  /\ rl'[q].at >= t /\ (rl'[q].pc = "reset_minute" => rl'[q].at > t)
                 /\ ~entry'.exists => rl'[q].at > t
      BY <1>0, <1>2, <2>2, <2>3, <2>4, <2>5 DEF WinOk
    <2>6. rl'[r].pc = "reset_minute" => rl'[r].pc \in InDb
      BY DEF InDb
    <2>7. ASSUME entry'.exists, entry'.minuteStart = t
          PROVE  /\ \A q \in RlReqs : rl'[q].pc \in {"reset_hour", "decide"} => rl'[q].start = t
                 /\ entry'.minute >= passed'.db[t] + NInWin(rl', t)
      <3>1. y.pc \in {"reset_hour", "decide"} => InWin(rl[r], y.start)
        BY DEF InWin
      <3>2. y.pc \in {"reset_hour", "decide"} => y.start = t
        BY <2>2, <2>7, <3>1 DEF WinOk, InWin
      <3>3. entry.minute >= passed.db[t] + NInWin(rl, t)
        BY <2>2, <2>7 DEF WinOk
      <3> QED
        BY <1>0, <1>1, <1>2, <2>2, <2>7, <3>2, <3>3 DEF WinOk
    <2>8. passed'.db[t] + NOkWin(rl', t) <= PerMinute
      BY <1>1, <1>2, <2>2, RlFacts DEF WinOk
    <2>9. \A q \in RlReqs : rl'[q].pc = "reset_minute" => rl'[q].pc \in InDb
      BY DEF InDb
    <2> QED
      BY <2>4, <2>5, <2>7, <2>8, <2>9 DEF WinOk
  <1> QED
    BY <1>3, <1>4 DEF WinInv

\* A step that has nothing to do with the row keeps what is known of the row.
LEMMA DbAside ==
    ASSUME RlInv, NEW r \in RlReqs, NEW y, RlMoves(r, y),
           UNCHANGED <<rlNow, contested, entry>>, passed'.db = passed.db,
           "extra" \in lost => "extra" \in lost',
           y.pc \notin {"reset_minute", "reset_hour", "decide"},
           y.pc = "upsert" => y.at = rlNow,
           "extra" \notin lost' => rl[r].pc \notin {"reset_minute", "reset_hour", "decide"}
    PROVE  RateRowInv' /\ WinInv'
  <1>1. "extra" \notin lost' => \A t : InRow(rl[r], t) => InRow(y, t)
    BY DEF InRow
  <1>2. \A t : /\ InWin(y, t) => InWin(rl[r], t)
               /\ OkWin(y, t) => OkWin(rl[r], t)
    BY DEF InWin, OkWin
  <1>3. y.pc \in InDb => y.pc = "upsert" /\ y.at = rlNow
    BY DEF InDb
  <1>4. RlTypes /\ RateRowInv /\ WinInv
    BY DEF RlInv
  <1> QED
    BY <1>1, <1>2, <1>3, <1>4, DbQuiet

\* A request begins, goes over to the database, or ends without its answer.
LEMMA RlLeaves ==
    ASSUME RlInv, NEW r \in RlReqs, NEW y, RlMoves(r, y),
           UNCHANGED <<rlNow, redisUp, entry, contested, passed>>,
           lost' \in {lost, lost \cup {"extra"}},
           minuteKey' \in [Minutes -> Int], hourKey' \in [Hours -> Int],
           \A t \in Minutes : minuteKey'[t] >= minuteKey[t],
           \A h \in Hours : hourKey'[h] >= hourKey[h],
           y.pc \in {"idle", "minute", "hour", "upsert"}, y.pc = "hour" => ~y.counted,
           y.pc = "upsert" => y.at = rlNow, y.pc = "minute" => y.counted,
           "extra" \notin lost' =>
              /\ minuteKey' = minuteKey /\ hourKey' = hourKey
              /\ rl[r].pc \notin {"undo_minute", "undo_hour", "reset_minute", "reset_hour", "decide"}
              /\ rl[r].pc = "hour" => ~rl[r].counted
    PROVE  RlInv'
  <1>0. /\ RlTypes /\ RedisInv /\ ("missing" \in lost' <=> "missing" \in lost)
        /\ "extra" \in lost => "extra" \in lost'
    BY DEF RlInv
  <1>1. RlTypes'
    <2>1. /\ contested' \subseteq Minutes /\ entry' \in RowRec /\ passed' \in Tally
          /\ lost' \subseteq {"extra", "missing"}
      BY <1>0 DEF RlTypes
    <2> QED
      BY <1>0, <2>1, RlTypesKept
  <1>2. RedisInv'
    <2>1. /\ passed'.minute = passed.minute /\ passed'.hour = passed.hour
          /\ y.pc \notin {"undo_minute", "undo_hour"}
          /\ "extra" \notin lost' =>
               /\ minuteKey' = minuteKey /\ hourKey' = hourKey
               /\ rl[r].pc \notin {"undo_minute", "undo_hour"} /\ (rl[r].pc = "hour" => ~rl[r].counted)
      OBVIOUS
    <2> QED
      BY <1>0, <2>1, RedisLeaves
  <1>3. RateRowInv' /\ WinInv'
    <2>1. /\ passed'.db = passed.db /\ y.pc \notin {"reset_minute", "reset_hour", "decide"}
          /\ "extra" \notin lost' => rl[r].pc \notin {"reset_minute", "reset_hour", "decide"}
      OBVIOUS
    <2> QED
      BY <1>0, <2>1, DbAside
  <1> QED
    BY <1>1, <1>2, <1>3 DEF RlInv

\* A request picks Redis or the database by the state of the link.
LEMMA RlStartStep ==
    ASSUME RlInv, NEW r \in RlReqs, RlStart(r)
    PROVE  RlInv'
  <1> DEFINE l == IF redisUp THEN "minute" ELSE "upsert"
             y == [IdleRl EXCEPT !.pc = l, !.at = rlNow]
  <1>0. /\ rl[r].pc = "idle" /\ rl' = [rl EXCEPT ![r] = y] /\ RlTypes /\ rlNow \in Minutes
        /\ UNCHANGED <<rlNow, redisUp, minuteKey, hourKey, entry, passed, lost, contested>>
    BY DEF RlStart, RlInv, RlTypes
  <1>1. l \in {"minute", "upsert"} /\ l \in RlPcs
    BY DEF RlPcs
  <1> HIDE DEF l
  <1>2. y \in RlRec /\ y.pc = l /\ y.at = rlNow /\ y.counted
    BY <1>0, <1>1, RlFacts DEF RlRec
  <1> HIDE DEF y
  <1>3. RlMoves(r, y)
    BY <1>0, <1>2, RlFacts DEF RlMoves
  <1>4. /\ minuteKey' \in [Minutes -> Int] /\ hourKey' \in [Hours -> Int]
        /\ \A t \in Minutes : minuteKey'[t] >= minuteKey[t]
        /\ \A h \in Hours : hourKey'[h] >= hourKey[h]
    BY <1>0 DEF RlTypes
  <1> QED
    BY <1>0, <1>1, <1>2, <1>3, <1>4, RlLeaves

\* A request dies at any statement; what it had counted is marked as extra.
LEMMA RlAbortStep ==
    ASSUME RlInv, NEW r \in RlReqs, RlAbort(r)
    PROVE  RlInv'
  <1>0. /\ rl' = [rl EXCEPT ![r] = IdleRl] /\ RlTypes /\ lost' = lost \cup {"extra"}
        /\ UNCHANGED <<rlNow, redisUp, minuteKey, hourKey, entry, passed, contested>>
    BY DEF RlAbort, RlFinish, RlInv
  <1>3. RlMoves(r, IdleRl)
    BY <1>0, RlFacts DEF RlMoves, RlTypes
  <1>4. /\ minuteKey' \in [Minutes -> Int] /\ hourKey' \in [Hours -> Int]
        /\ \A t \in Minutes : minuteKey'[t] >= minuteKey[t]
        /\ \A h \in Hours : hourKey'[h] >= hourKey[h]
    BY <1>0 DEF RlTypes
  <1> QED
    BY <1>0, <1>3, <1>4, RlFacts, RlLeaves

\* A Redis failure sends the request to the database, its increment made or not.
LEMMA RlFallbackStep ==
    ASSUME RlInv, NEW r \in RlReqs, NEW done \in BOOLEAN, RlFallback(r, done)
    PROVE  RlInv'
  <1> DEFINE y == [IdleRl EXCEPT !.pc = "upsert", !.at = rlNow]
             t == rl[r].at
  <1>0. /\ rl[r].pc \in {"minute", "hour"} /\ rl' = [rl EXCEPT ![r] = y] /\ RlTypes
        /\ UNCHANGED <<rlNow, redisUp, entry, passed, contested>>
        /\ rlNow \in Minutes /\ t \in Minutes /\ HourOf(t) \in Hours
        /\ minuteKey \in [Minutes -> Int] /\ hourKey \in [Hours -> Int]
    BY RlFacts DEF RlFallback, RlInv, RlTypes, RlRec
  <1>1. /\ minuteKey' \in {minuteKey, [minuteKey EXCEPT ![t] = @ + 1]}
        /\ hourKey' \in {hourKey, [hourKey EXCEPT ![HourOf(t)] = @ + 1]}
        /\ lost' \in {lost, lost \cup {"extra"}}
        /\ "extra" \notin lost' => ~done /\ (rl[r].pc = "hour" => ~rl[r].counted)
        /\ ~done => minuteKey' = minuteKey /\ hourKey' = hourKey
    BY DEF RlFallback
  <1>2. y \in RlRec /\ y.pc = "upsert" /\ y.at = rlNow
    BY <1>0, RlFacts DEF RlRec, RlPcs
  <1> HIDE DEF y, t
  <1>3. RlMoves(r, y)
    BY <1>0, <1>2, RlFacts DEF RlMoves
  <1>4. /\ minuteKey' \in [Minutes -> Int] /\ hourKey' \in [Hours -> Int]
        /\ \A u \in Minutes : minuteKey'[u] >= minuteKey[u]
        /\ \A h \in Hours : hourKey'[h] >= hourKey[h]
    BY <1>0, <1>1
  <1> QED
    BY <1>0, <1>1, <1>2, <1>3, <1>4, RlLeaves

\* The minute is counted: what r saw leaves room for it below the limit.
LEMMA IncrMinuteStep ==
    ASSUME RlInv, NEW r \in RlReqs, IncrMinute(r)
    PROVE  RlInv'
  <1> DEFINE t == rl[r].at
  <1>0. /\ rl[r].pc = "minute" /\ RlTypes /\ RedisInv
        /\ UNCHANGED <<rlNow, redisUp, hourKey, entry, passed, lost, contested>>
        /\ t \in Minutes /\ t <= rlNow /\ rl[r] \in RlRec /\ rl \in [RlReqs -> RlRec]
        /\ minuteKey \in [Minutes -> Int] /\ hourKey \in [Hours -> Int]
        /\ passed.minute \in [Minutes -> Nat] /\ passed.hour \in [Hours -> Nat]
        /\ entry \in RowRec /\ passed \in Tally
        /\ contested \subseteq Minutes /\ lost \subseteq {"extra", "missing"}
    BY RlFacts DEF IncrMinute, RlInv, RlTypes, RlRec, Tally
  <1>1. CASE ~redisUp
    <2> DEFINE y == [rl[r] EXCEPT !.pc = "hour", !.counted = FALSE]
    <2>1. rl' = [rl EXCEPT ![r] = y] /\ minuteKey' = minuteKey
      BY <1>0, <1>1 DEF IncrMinute
    <2>2. y \in RlRec /\ y.pc = "hour" /\ y.at = t /\ y.counted = FALSE
      BY <1>0 DEF RlRec, RlPcs
    <2> HIDE DEF y
    <2>3. RlMoves(r, y)
      BY <1>0, <2>1, <2>2 DEF RlMoves
    <2>4. /\ minuteKey' \in [Minutes -> Int] /\ hourKey' \in [Hours -> Int]
          /\ \A u \in Minutes : minuteKey'[u] >= minuteKey[u]
          /\ \A h \in Hours : hourKey'[h] >= hourKey[h]
      BY <1>0, <2>1
    <2> QED
      BY <1>0, <2>1, <2>2, <2>3, <2>4, RlLeaves
  <1>2. CASE redisUp
    <2> DEFINE n == minuteKey[t] + 1
               y == [rl[r] EXCEPT !.pc = "hour", !.minute = n]
    <2>1. minuteKey' = [minuteKey EXCEPT ![t] = n] /\ minuteKey'[t] = n
      BY <1>0, <1>2 DEF IncrMinute
    <2>2. rl' = [rl EXCEPT ![r] = y]
      BY <1>0, <1>2, <2>1 DEF IncrMinute
    <2>3. n \in Int /\ n = minuteKey[t] + 1
      BY <1>0
    <2> HIDE DEF n
    <2>4. y \in RlRec /\ y.pc = "hour" /\ y.at = t /\ y.counted = rl[r].counted /\ y.minute = n
      BY <1>0, <2>3 DEF RlRec, RlPcs
    <2> HIDE DEF y, t
    <2>5. RlMoves(r, y)
      BY <1>0, <2>2, <2>4 DEF RlMoves
    <2>6. minuteKey' \in [Minutes -> Int] /\ \A u \in Minutes : u # t => minuteKey'[u] = minuteKey[u]
      BY <1>0, <2>1, <2>3
    <2>7. RlTypes'
      BY <1>0, <2>5, <2>6, RlTypesKept
    <2>8. RateRowInv' /\ WinInv'
      BY <1>0, <2>4, <2>5, DbAside
    <2>9. RedisInv'
      <3>1. ASSUME NEW u \in Minutes
            PROVE  /\ One(InMinute(rl[r], u)) = 0 /\ One(OkMinute(rl[r], u)) = 0
                   /\ One(InMinute(y, u)) \in {0, 1} /\ One(OkMinute(y, u)) \in {0, 1}
                   /\ u # t => One(InMinute(y, u)) = 0 /\ One(OkMinute(y, u)) = 0
                   /\ n > PerMinute => One(OkMinute(y, u)) = 0
                   /\ u = t => One(InMinute(y, u)) = 1
        BY <1>0, <2>3, <2>4, RlFacts DEF One, InMinute, OkMinute, RedisInv
      <3>2. ASSUME NEW u \in Minutes
            PROVE  /\ NInMinute(rl', u) = NInMinute(rl, u) + One(InMinute(y, u))
                   /\ NOkMinute(rl', u) = NOkMinute(rl, u) + One(OkMinute(y, u))
                   /\ NInMinute(rl, u) \in Nat /\ NOkMinute(rl, u) \in Nat
                   /\ NOkMinute(rl, u) <= NInMinute(rl, u)
        BY <1>0, <2>5, <3>1, RedisCounts
      <3>3. ASSUME NEW h \in Hours PROVE NInHour(rl', h) = NInHour(rl, h)
        <4>1. One(InHour(y, h)) = 0 /\ One(InHour(rl[r], h)) = 0
          BY <1>0, <2>4 DEF One, InHour
        <4> QED
          BY <1>0, <2>5, <4>1, RedisCounts
      <3>4. /\ \A q \in RlReqs : rl'[q].pc = "minute" => rl'[q].counted
            /\ "missing" \notin lost => \A q \in RlReqs : rl'[q].pc = "undo_minute" => rl'[q].counted
        BY <1>0, <2>4, <2>5, RlMoved DEF RedisInv
      <3>5. ASSUME NEW u \in Minutes, "missing" \notin lost
            PROVE  /\ minuteKey'[u] >= passed.minute[u] + NInMinute(rl', u)
                   /\ passed.minute[u] + NOkMinute(rl', u) <= PerMinute
        <4>1. /\ minuteKey[u] >= passed.minute[u] + NInMinute(rl, u)
              /\ passed.minute[u] + NOkMinute(rl, u) <= PerMinute
          BY <1>0, <3>5 DEF RedisInv
        <4>2. CASE u = t
          BY <1>0, <2>1, <2>3, <3>1, <3>2, <4>1, <4>2, RlFacts
        <4>3. CASE u # t
          BY <1>0, <2>6, <3>1, <3>2, <4>1, <4>3, RlFacts
        <4> QED
          BY <4>2, <4>3
      <3>6. ASSUME NEW u \in Minutes, "extra" \notin lost
            PROVE  minuteKey'[u] <= passed.minute[u] + NInMinute(rl', u)
        <4>1. minuteKey[u] <= passed.minute[u] + NInMinute(rl, u)
          BY <1>0, <3>6 DEF RedisInv
        <4>2. CASE u = t
          BY <1>0, <2>1, <2>3, <3>1, <3>2, <4>1, <4>2
        <4>3. CASE u # t
          BY <1>0, <2>6, <3>1, <3>2, <4>1, <4>3
        <4> QED
          BY <4>2, <4>3
      <3> QED
        BY <1>0, <3>3, <3>4, <3>5, <3>6 DEF RedisInv
    <2> QED
      BY <2>7, <2>8, <2>9 DEF RlInv
  <1> QED
    BY <1>1, <1>2

\* The hour is counted and the request let through, or it turns back.
LEMMA IncrHourStep ==
    ASSUME RlInv, NEW r \in RlReqs, IncrHour(r)
    PROVE  RlInv'
  <1> DEFINE t == rl[r].at
             h == HourOf(t)
             n == hourKey[h] + 1
             m == IF redisUp THEN n ELSE 0
             both == rl[r].counted /\ redisUp
             y == IF Over(rl[r].minute, m) THEN [rl[r] EXCEPT !.pc = "undo_minute", !.counted = both]
                  ELSE IdleRl
  <1>0. /\ rl[r].pc = "hour" /\ RlTypes /\ RedisInv
        /\ UNCHANGED <<rlNow, redisUp, minuteKey, entry, contested>>
        /\ t \in Minutes /\ t <= rlNow /\ rl[r] \in RlRec /\ rl \in [RlReqs -> RlRec]
        /\ h \in Hours /\ redisUp \in BOOLEAN /\ rl[r].counted \in BOOLEAN /\ rl[r].minute \in Int
        /\ minuteKey \in [Minutes -> Int] /\ hourKey \in [Hours -> Int]
        /\ passed.minute \in [Minutes -> Nat] /\ passed.hour \in [Hours -> Nat]
        /\ entry \in RowRec /\ passed \in Tally /\ rlNow \in Nat
        /\ contested \subseteq Minutes /\ lost \subseteq {"extra", "missing"}
    BY RlFacts DEF IncrHour, RlInv, RlTypes, RlRec, Tally
  <1>1. /\ rl' = [rl EXCEPT ![r] = y] /\ hourKey' = IF redisUp THEN [hourKey EXCEPT ![h] = n] ELSE hourKey
        /\ lost' = IF both THEN lost ELSE {"extra", "missing"}
        /\ passed' \in {passed, [passed EXCEPT !.minute[t] = @ + 1, !.hour[h] = @ + 1]}
        /\ ~both => passed' = passed
    <2>1. CASE Over(rl[r].minute, m)
      BY <1>0, <2>1 DEF IncrHour
    <2>2. CASE ~Over(rl[r].minute, m)
      BY <1>0, <2>2 DEF IncrHour, RlFinish
    <2> QED
      BY <2>1, <2>2
  <1>2. both \in BOOLEAN
    BY <1>0
  <1>3. y \in RlRec /\ y.pc \in {"undo_minute", "idle"} /\ y.at <= rlNow
    <2>1. CASE Over(rl[r].minute, m)
      BY <1>0, <1>2, <2>1 DEF RlRec, RlPcs
    <2>2. CASE ~Over(rl[r].minute, m)
      BY <1>0, <2>2, RlFacts
    <2> QED
      BY <2>1, <2>2
  <1> HIDE DEF y
  <1>4. RlMoves(r, y)
    BY <1>1, <1>3 DEF RlMoves
  <1>5. hourKey' \in [Hours -> Int]
    BY <1>0, <1>1
  <1>6. passed' \in Tally /\ passed'.db = passed.db
    <2> DEFINE p == [passed EXCEPT !.minute[t] = @ + 1, !.hour[h] = @ + 1]
    <2>1. /\ p \in Tally /\ p.db = passed.db
      <3> DEFINE a == [passed.minute EXCEPT ![t] = @ + 1]
                 b == [passed.hour EXCEPT ![h] = @ + 1]
      <3>1. a \in [Minutes -> Nat] /\ b \in [Hours -> Nat]
        BY <1>0
      <3>2. p = [passed EXCEPT !.minute = a, !.hour = b]
        BY <1>0 DEF Tally
      <3> HIDE DEF a, b, p
      <3> QED
        BY <1>0, <3>1, <3>2 DEF Tally
    <2> QED
      BY <1>0, <1>1, <2>1
  <1>7. RlTypes'
    <2>1. lost' \subseteq {"extra", "missing"}
      BY <1>0, <1>1
    <2> QED
      BY <1>0, <1>4, <1>5, <1>6, <2>1, RlTypesKept
  <1>8. "extra" \in lost => "extra" \in lost'
    BY <1>1
  <1>9. RateRowInv' /\ WinInv'
    BY <1>0, <1>3, <1>4, <1>6, <1>8, DbAside
  <1>10. \A q \in RlReqs : rl'[q].pc = "minute" => rl'[q].counted
    BY <1>0, <1>3, <1>4, RlMoved DEF RedisInv
  <1>11. RedisInv'
    <2>1. CASE ~both
      <3>1. "missing" \in lost' /\ "extra" \in lost'
        BY <1>1, <2>1
      <3> QED
        BY <1>10, <3>1 DEF RedisInv
    <2>2. CASE both /\ Over(rl[r].minute, n)
      <3>1. y = [rl[r] EXCEPT !.pc = "undo_minute", !.counted = TRUE]
        BY <2>2 DEF y
      <3>2. /\ y.pc = "undo_minute" /\ y.counted /\ y.at = t /\ lost' = lost /\ rl[r].counted
            /\ hourKey' = [hourKey EXCEPT ![h] = n] /\ n = hourKey[h] + 1 /\ passed' = passed
        <4>1. y.pc = "undo_minute" /\ y.counted /\ y.at = t
          BY <1>0, <3>1 DEF RlRec
        <4>2. m = n
          BY <2>2
        <4>3. passed' = passed
          BY <2>2, <4>2 DEF IncrHour
        <4> QED
          BY <1>1, <2>2, <4>1, <4>3
      <3>3. h = HourOf(y.at)
        BY <3>2
      <3> HIDE DEF t, h, n, m
      <3>4. ASSUME NEW u \in Minutes
            PROVE  /\ NInMinute(rl', u) = NInMinute(rl, u) /\ NOkMinute(rl', u) <= NOkMinute(rl, u)
                   /\ NOkMinute(rl, u) \in Nat /\ NOkMinute(rl', u) \in Int
        <4>1. /\ One(InMinute(rl[r], u)) = One(InMinute(y, u)) /\ One(InMinute(y, u)) \in {0, 1}
              /\ One(OkMinute(y, u)) = 0 /\ One(OkMinute(rl[r], u)) \in {0, 1}
          BY <1>0, <3>2 DEF One, InMinute, OkMinute, t
        <4> QED
          BY <1>0, <1>4, <4>1, RedisCounts
      <3>5. ASSUME NEW g \in Hours
            PROVE  /\ NInHour(rl', g) = NInHour(rl, g) + IF g = h THEN 1 ELSE 0
                   /\ NInHour(rl, g) \in Nat
        <4>1. One(InHour(rl[r], g)) = 0 /\ One(InHour(y, g)) = IF g = h THEN 1 ELSE 0
          BY <1>0, <3>2, <3>3 DEF One, InHour
        <4> QED
          BY <1>0, <1>4, <4>1, RedisCounts
      <3>6. /\ hourKey'[h] = hourKey[h] + 1 /\ \A g \in Hours : g # h => hourKey'[g] = hourKey[g]
        BY <1>0, <3>2
      <3>7. "missing" \notin lost => \A q \in RlReqs : rl'[q].pc = "undo_minute" => rl'[q].counted
        BY <1>0, <1>4, <3>2, RlMoved DEF RedisInv
      <3>8. ASSUME NEW u \in Minutes, "missing" \notin lost
            PROVE  /\ minuteKey[u] >= passed.minute[u] + NInMinute(rl', u)
                   /\ passed.minute[u] + NOkMinute(rl', u) <= PerMinute
        <4>1. /\ minuteKey[u] >= passed.minute[u] + NInMinute(rl, u)
              /\ passed.minute[u] + NOkMinute(rl, u) <= PerMinute
          BY <1>0, <3>8 DEF RedisInv
        <4> QED
          BY <1>0, <3>4, <4>1, RlFacts
      <3>9. ASSUME NEW g \in Hours
            PROVE  /\ "missing" \notin lost => /\ hourKey'[g] >= passed.hour[g] + NInHour(rl', g)
                                               /\ passed.hour[g] <= PerHour
                   /\ "extra" \notin lost => hourKey'[g] <= passed.hour[g] + NInHour(rl', g)
        <4>1. /\ "missing" \notin lost => /\ hourKey[g] >= passed.hour[g] + NInHour(rl, g)
                                          /\ passed.hour[g] <= PerHour
              /\ "extra" \notin lost => hourKey[g] <= passed.hour[g] + NInHour(rl, g)
          BY <1>0 DEF RedisInv
        <4>2. CASE g = h
          BY <1>0, <3>5, <3>6, <4>1, <4>2
        <4>3. CASE g # h
          BY <1>0, <3>5, <3>6, <4>1, <4>3
        <4> QED
          BY <4>2, <4>3
      <3>10. "extra" \notin lost => \A u \in Minutes : minuteKey[u] <= passed.minute[u] + NInMinute(rl', u)
        BY <1>0, <3>4 DEF RedisInv
      <3> QED
        BY <1>0, <1>10, <3>2, <3>7, <3>8, <3>9, <3>10 DEF RedisInv
    <2>3. CASE both /\ ~Over(rl[r].minute, n)
      <3>1. m = n /\ y = IdleRl
        BY <2>3 DEF y
      <3>2. /\ lost' = lost /\ rl[r].counted /\ hourKey' = [hourKey EXCEPT ![h] = n]
            /\ passed' = [passed EXCEPT !.minute[t] = @ + 1, !.hour[h] = @ + 1]
            /\ n = hourKey[h] + 1 /\ n <= PerHour /\ rl[r].minute <= PerMinute
        <4>1. passed' = [passed EXCEPT !.minute[t] = @ + 1, !.hour[h] = @ + 1]
          BY <2>3, <3>1 DEF IncrHour
        <4>2. n \in Int /\ n <= PerHour /\ rl[r].minute <= PerMinute
          BY <1>0, <2>3, RlFacts DEF Over
        <4> QED
          BY <1>1, <2>3, <4>1, <4>2
      <3>3. /\ passed'.minute = [passed.minute EXCEPT ![t] = @ + 1]
            /\ passed'.hour = [passed.hour EXCEPT ![h] = @ + 1]
        BY <1>0, <3>2 DEF Tally
      <3> HIDE DEF n, m
      <3>4. ASSUME NEW u \in Minutes
            PROVE  /\ NInMinute(rl', u) = NInMinute(rl, u) - IF u = t THEN 1 ELSE 0
                   /\ NOkMinute(rl', u) = NOkMinute(rl, u) - IF u = t THEN 1 ELSE 0
                   /\ NOkMinute(rl, u) \in Nat /\ NInMinute(rl, u) \in Nat
        <4>1. /\ One(InMinute(y, u)) = 0 /\ One(OkMinute(y, u)) = 0
              /\ One(InMinute(rl[r], u)) = IF u = t THEN 1 ELSE 0
              /\ One(OkMinute(rl[r], u)) = IF u = t THEN 1 ELSE 0
          BY <1>0, <3>1, <3>2, RlFacts DEF One, InMinute, OkMinute
        <4> QED
          BY <1>0, <1>4, <4>1, RedisCounts
      <3>5. ASSUME NEW g \in Hours PROVE NInHour(rl', g) = NInHour(rl, g) /\ NInHour(rl, g) \in Nat
        <4>1. One(InHour(rl[r], g)) = 0 /\ One(InHour(y, g)) = 0
          BY <1>0, <3>1, RlFacts DEF One, InHour
        <4> QED
          BY <1>0, <1>4, <4>1, RedisCounts
      <3> HIDE DEF t, h
      <3>6. /\ hourKey'[h] = n /\ \A g \in Hours : g # h => hourKey'[g] = hourKey[g]
            /\ passed'.hour[h] = passed.hour[h] + 1
            /\ \A g \in Hours : g # h => passed'.hour[g] = passed.hour[g]
            /\ passed'.minute[t] = passed.minute[t] + 1
            /\ \A u \in Minutes : u # t => passed'.minute[u] = passed.minute[u]
        BY <1>0, <3>2, <3>3
      <3>7. "missing" \notin lost => \A q \in RlReqs : rl'[q].pc = "undo_minute" => rl'[q].counted
        BY <1>0, <1>4, <3>1, RlFacts, RlMoved DEF RedisInv
      <3>8. ASSUME NEW u \in Minutes
            PROVE  /\ "missing" \notin lost => /\ minuteKey[u] >= passed'.minute[u] + NInMinute(rl', u)
                                               /\ passed'.minute[u] + NOkMinute(rl', u) <= PerMinute
                   /\ "extra" \notin lost => minuteKey[u] <= passed'.minute[u] + NInMinute(rl', u)
        <4>1. /\ "missing" \notin lost => /\ minuteKey[u] >= passed.minute[u] + NInMinute(rl, u)
                                          /\ passed.minute[u] + NOkMinute(rl, u) <= PerMinute
              /\ "extra" \notin lost => minuteKey[u] <= passed.minute[u] + NInMinute(rl, u)
          BY <1>0 DEF RedisInv
        <4>2. CASE u = t
          BY <1>0, <3>4, <3>6, <4>1, <4>2, RlFacts
        <4>3. CASE u # t
          BY <1>0, <3>4, <3>6, <4>1, <4>3, RlFacts
        <4> QED
          BY <4>2, <4>3
      <3>9. ASSUME NEW g \in Hours
            PROVE  /\ "missing" \notin lost => /\ hourKey'[g] >= passed'.hour[g] + NInHour(rl', g)
                                               /\ passed'.hour[g] <= PerHour
                   /\ "extra" \notin lost => hourKey'[g] <= passed'.hour[g] + NInHour(rl', g)
        <4>1. /\ "missing" \notin lost => /\ hourKey[g] >= passed.hour[g] + NInHour(rl, g)
                                          /\ passed.hour[g] <= PerHour
              /\ "extra" \notin lost => hourKey[g] <= passed.hour[g] + NInHour(rl, g)
          BY <1>0 DEF RedisInv
        <4>2. CASE g = h
          BY <1>0, <3>2, <3>5, <3>6, <4>1, <4>2, RlFacts
        <4>3. CASE g # h
          BY <1>0, <3>5, <3>6, <4>1, <4>3
        <4> QED
          BY <4>2, <4>3
      <3> QED
        BY <1>0, <1>10, <3>2, <3>7, <3>8, <3>9 DEF RedisInv
    <2> QED
      BY <2>1, <2>2, <2>3
  <1> QED
    BY <1>7, <1>9, <1>11 DEF RlInv

\* A rejected request takes its count of the minute back, or leaves it.
LEMMA UndoMinuteStep ==
    ASSUME RlInv, NEW r \in RlReqs, UndoMinute(r)
    PROVE  RlInv'
  <1> DEFINE t == rl[r].at
             y == [rl[r] EXCEPT !.pc = "undo_hour"]
  <1>0. /\ rl[r].pc = "undo_minute" /\ RlTypes /\ RedisInv
        /\ UNCHANGED <<rlNow, redisUp, hourKey, entry, passed, contested>>
        /\ t \in Minutes /\ t <= rlNow /\ rl[r] \in RlRec /\ rl \in [RlReqs -> RlRec]
        /\ minuteKey \in [Minutes -> Int] /\ hourKey \in [Hours -> Int]
        /\ passed.minute \in [Minutes -> Nat] /\ passed.hour \in [Hours -> Nat]
        /\ entry \in RowRec /\ passed \in Tally
        /\ contested \subseteq Minutes /\ lost \subseteq {"extra", "missing"}
    BY RlFacts DEF UndoMinute, RlInv, RlTypes, RlRec, Tally
  <1>1. \/ minuteKey' = [minuteKey EXCEPT ![t] = @ - 1] /\ lost' = lost
        \/ minuteKey' = minuteKey /\ lost' = lost \cup {"extra"}
    BY DEF UndoMinute
  <1>1a. rl' = [rl EXCEPT ![r] = y]
    BY <1>0 DEF UndoMinute, RlGoto
  <1>1b. /\ minuteKey' \in [Minutes -> Int] /\ \A u \in Minutes : u # t => minuteKey'[u] = minuteKey[u]
         /\ \/ minuteKey'[t] = minuteKey[t] - 1 /\ lost' = lost
            \/ minuteKey'[t] = minuteKey[t] /\ lost' = lost \cup {"extra"}
    <2>1. CASE minuteKey' = [minuteKey EXCEPT ![t] = @ - 1] /\ lost' = lost
      BY <1>0, <2>1
    <2>2. CASE minuteKey' = minuteKey /\ lost' = lost \cup {"extra"}
      BY <1>0, <2>2
    <2> QED
      BY <1>1, <2>1, <2>2
  <1>2. y \in RlRec /\ y.pc = "undo_hour" /\ y.at = t
    BY <1>0 DEF RlRec, RlPcs
  <1> HIDE DEF y, t
  <1>3. RlMoves(r, y)
    BY <1>0, <1>2, <1>1a DEF RlMoves
  <1>4. /\ minuteKey' \in [Minutes -> Int] /\ lost' \subseteq {"extra", "missing"}
        /\ ("missing" \in lost' <=> "missing" \in lost) /\ ("extra" \in lost => "extra" \in lost')
    BY <1>0, <1>1b
  <1>5. RlTypes'
    BY <1>0, <1>3, <1>4, RlTypesKept
  <1>6. RateRowInv' /\ WinInv'
    BY <1>0, <1>2, <1>3, <1>4, DbAside
  <1>7. /\ \A q \in RlReqs : rl'[q].pc = "minute" => rl'[q].counted
        /\ "missing" \notin lost => \A q \in RlReqs : rl'[q].pc = "undo_minute" => rl'[q].counted
    BY <1>0, <1>2, <1>3, RlMoved DEF RedisInv
  <1>8. ASSUME NEW h \in Hours PROVE NInHour(rl', h) = NInHour(rl, h)
    <2>1. One(InHour(y, h)) = One(InHour(rl[r], h)) /\ One(InHour(y, h)) \in {0, 1}
      BY <1>0, <1>2 DEF One, InHour, t
    <2> QED
      BY <1>0, <1>3, <2>1, RedisCounts
  <1>9. ASSUME NEW u \in Minutes, "missing" \notin lost
        PROVE  /\ NInMinute(rl', u) = NInMinute(rl, u) - IF u = t THEN 1 ELSE 0
               /\ NOkMinute(rl', u) = NOkMinute(rl, u)
               /\ NOkMinute(rl, u) \in Nat /\ NInMinute(rl, u) \in Nat
    <2>1. /\ One(InMinute(y, u)) = 0 /\ One(OkMinute(y, u)) = 0 /\ One(OkMinute(rl[r], u)) = 0
          /\ One(InMinute(rl[r], u)) = IF u = t THEN 1 ELSE 0
      BY <1>0, <1>2, <1>9 DEF One, InMinute, OkMinute, t, RedisInv
    <2> QED
      BY <1>0, <1>3, <2>1, RedisCounts
  <1>10. ASSUME NEW u \in Minutes, "missing" \notin lost
         PROVE  /\ minuteKey'[u] >= passed.minute[u] + NInMinute(rl', u)
                /\ passed.minute[u] + NOkMinute(rl', u) <= PerMinute
                /\ "extra" \notin lost' => minuteKey'[u] <= passed.minute[u] + NInMinute(rl', u)
    <2>1. /\ minuteKey[u] >= passed.minute[u] + NInMinute(rl, u)
          /\ passed.minute[u] + NOkMinute(rl, u) <= PerMinute
          /\ "extra" \notin lost => minuteKey[u] <= passed.minute[u] + NInMinute(rl, u)
      BY <1>0, <1>10 DEF RedisInv
    <2>2. CASE u = t
      BY <1>0, <1>1b, <1>9, <1>10, <2>1, <2>2, RlFacts
    <2>3. CASE u # t
      BY <1>0, <1>1b, <1>9, <1>10, <2>1, <2>3, RlFacts
    <2> QED
      BY <2>2, <2>3
  <1>11. RedisInv'
    <2>1. "extra" \notin lost' => "missing" \notin lost /\ "extra" \notin lost
      BY <1>0, <1>4 DEF RedisInv
    <2>2. /\ "missing" \notin lost => \A h \in Hours : /\ hourKey[h] >= passed.hour[h] + NInHour(rl', h)
                                                       /\ passed.hour[h] <= PerHour
          /\ "extra" \notin lost => \A h \in Hours : hourKey[h] <= passed.hour[h] + NInHour(rl', h)
      BY <1>0, <1>8 DEF RedisInv
    <2>3. "missing" \in lost' => "extra" \in lost'
      BY <1>0, <1>4 DEF RedisInv
    <2> QED
      BY <1>0, <1>4, <1>7, <1>10, <2>1, <2>2, <2>3 DEF RedisInv
  <1> QED
    BY <1>5, <1>6, <1>11 DEF RlInv

\* A refused request takes its hour back, or fails to and is counted as extra.
LEMMA UndoHourStep ==
    ASSUME RlInv, NEW r \in RlReqs, UndoHour(r)
    PROVE  RlInv'
  <1> DEFINE h == HourOf(rl[r].at)
  <1>0. /\ rl[r].pc = "undo_hour" /\ RlTypes /\ RedisInv
        /\ UNCHANGED <<rlNow, redisUp, minuteKey, entry, passed, contested>>
        /\ rl[r].at \in Minutes /\ h \in Hours /\ rlNow \in Nat
        /\ minuteKey \in [Minutes -> Int] /\ hourKey \in [Hours -> Int]
        /\ passed.minute \in [Minutes -> Nat] /\ passed.hour \in [Hours -> Nat]
        /\ entry \in RowRec /\ passed \in Tally
        /\ contested \subseteq Minutes /\ lost \subseteq {"extra", "missing"}
    BY RlFacts DEF UndoHour, RlInv, RlTypes, RlRec, Tally
  <1>1. \/ hourKey' = [hourKey EXCEPT ![h] = @ - 1] /\ lost' = lost
        \/ hourKey' = hourKey /\ lost' = lost \cup {"extra"}
    BY DEF UndoHour
  <1>2. RlMoves(r, IdleRl)
    BY <1>0, RlFacts DEF RlMoves, UndoHour, RlFinish
  <1>3. CASE hourKey' = hourKey /\ lost' = lost \cup {"extra"}
    <2>1. /\ minuteKey' \in [Minutes -> Int] /\ hourKey' \in [Hours -> Int]
          /\ \A u \in Minutes : minuteKey'[u] >= minuteKey[u]
          /\ \A g \in Hours : hourKey'[g] >= hourKey[g]
      BY <1>0, <1>3
    <2> QED
      BY <1>0, <1>2, <1>3, <2>1, RlFacts, RlLeaves
  <1>4. CASE hourKey' = [hourKey EXCEPT ![h] = @ - 1] /\ lost' = lost
    <2>1. /\ hourKey' \in [Hours -> Int] /\ hourKey'[h] = hourKey[h] - 1
          /\ \A g \in Hours : g # h => hourKey'[g] = hourKey[g]
      BY <1>0, <1>4
    <2>2. RlTypes'
      BY <1>0, <1>2, <1>4, <2>1, RlTypesKept
    <2>3. RateRowInv' /\ WinInv'
      BY <1>0, <1>2, <1>4, RlFacts, DbAside
    <2>4. /\ \A q \in RlReqs : rl'[q].pc = "minute" => rl'[q].counted
          /\ "missing" \notin lost => \A q \in RlReqs : rl'[q].pc = "undo_minute" => rl'[q].counted
      BY <1>0, <1>2, RlFacts, RlMoved DEF RedisInv
    <2>5. ASSUME NEW u \in Minutes
          PROVE  NInMinute(rl', u) = NInMinute(rl, u) /\ NOkMinute(rl', u) = NOkMinute(rl, u)
      <3>1. /\ One(InMinute(IdleRl, u)) = 0 /\ One(OkMinute(IdleRl, u)) = 0
            /\ One(InMinute(rl[r], u)) = 0 /\ One(OkMinute(rl[r], u)) = 0
        BY <1>0, RlFacts DEF One, InMinute, OkMinute
      <3> QED
        BY <1>0, <1>2, <3>1, RedisCounts
    <2>6. ASSUME NEW g \in Hours
          PROVE  /\ NInHour(rl', g) = NInHour(rl, g) - IF g = h THEN 1 ELSE 0
                 /\ NInHour(rl, g) \in Nat
      <3>1. One(InHour(IdleRl, g)) = 0 /\ One(InHour(rl[r], g)) = IF g = h THEN 1 ELSE 0
        BY <1>0, RlFacts DEF One, InHour
      <3> QED
        BY <1>0, <1>2, <3>1, RedisCounts
    <2> HIDE DEF h
    <2>7. ASSUME NEW g \in Hours
          PROVE  /\ "missing" \notin lost => /\ hourKey'[g] >= passed.hour[g] + NInHour(rl', g)
                                             /\ passed.hour[g] <= PerHour
                 /\ "extra" \notin lost => hourKey'[g] <= passed.hour[g] + NInHour(rl', g)
      <3>1. /\ "missing" \notin lost => /\ hourKey[g] >= passed.hour[g] + NInHour(rl, g)
                                        /\ passed.hour[g] <= PerHour
            /\ "extra" \notin lost => hourKey[g] <= passed.hour[g] + NInHour(rl, g)
        BY <1>0 DEF RedisInv
      <3>2. CASE g = h
        BY <1>0, <2>1, <2>6, <3>1, <3>2
      <3>3. CASE g # h
        BY <1>0, <2>1, <2>6, <3>1, <3>3
      <3> QED
        BY <3>2, <3>3
    <2>8. RedisInv'
      BY <1>0, <1>4, <2>4, <2>5, <2>7 DEF RedisInv
    <2> QED
      BY <2>2, <2>3, <2>8 DEF RlInv
  <1> QED
    BY <1>1, <1>3, <1>4

\* The clock, the connection to Redis, or nothing
LEMMA RlIdleStep ==
    ASSUME RlInv, rlNow' \in Minutes, rlNow' >= rlNow, redisUp' \in BOOLEAN,
           UNCHANGED <<minuteKey, hourKey, entry, rl, passed, lost, contested>>
    PROVE  RlInv'
  <1>0. rlNow \in Nat /\ rlNow' \in Nat /\ rl \in [RlReqs -> RlRec] /\ Minutes \subseteq Nat
    BY RlFacts DEF RlInv, RlTypes
  <1>1. \A q \in RlReqs : rl[q].at \in Nat /\ rl[q].at <= rlNow
    BY <1>0 DEF RlInv, RlTypes, RlRec
  <1>2. RlTypes'
    <2>1. entry.minuteStart \in Nat /\ entry.minuteStart <= rlNow
      BY <1>0 DEF RlInv, RlTypes, RowRec
    <2> QED
      BY <1>0, <1>1, <2>1 DEF RlInv, RlTypes
  <1>3. RedisInv' /\ RateRowInv'
    BY DEF RlInv, RedisInv, RateRowInv
  <1>4. ASSUME NEW t \in Minutes, t \notin contested, WinStarted(t)' PROVE WinOk(t)'
    <2>1. WinOk(t) /\ t \in Nat
      BY <1>0, <1>4 DEF RlInv, WinInv, WinStarted
    <2>2. t <= rlNow' /\ (rlNow > t => rlNow' > t)
      BY <1>0, <2>1 DEF WinOk
    <2> QED
      BY <2>1, <2>2 DEF WinOk
  <1> QED
    BY <1>2, <1>3, <1>4 DEF RlInv, WinInv

\* A step of the database path leaves the counts in Redis alone.
LEMMA RedisAside ==
    ASSUME RlInv, NEW r \in RlReqs, NEW y, RlMoves(r, y), UNCHANGED <<minuteKey, hourKey, lost>>,
           passed'.minute = passed.minute, passed'.hour = passed.hour,
           rl[r].pc \in InDb, y.pc \in InDb \cup {"idle"}
    PROVE  RedisInv'
  <1>1. /\ y.pc \notin {"undo_minute", "undo_hour", "hour", "minute"}
        /\ rl[r].pc \notin {"undo_minute", "undo_hour", "hour"}
    BY DEF InDb
  <1>2. /\ RlTypes /\ RedisInv /\ minuteKey' \in [Minutes -> Int] /\ hourKey' \in [Hours -> Int]
        /\ \A t \in Minutes : minuteKey'[t] >= minuteKey[t]
        /\ \A h \in Hours : hourKey'[h] >= hourKey[h]
    BY DEF RlInv, RlTypes
  <1> QED
    BY <1>1, <1>2, RedisLeaves

\* A set with a member counts one at least.
LEMMA Inhabited ==
    ASSUME NEW S, S \subseteq RlReqs, NEW r \in S
    PROVE  Cardinality(S) >= 1
  <1>1. IsFiniteSet(RlReqs)
    BY RateLimiterAssumption
  <1>2. /\ Cardinality(S \ {r}) = Cardinality(S) - 1 /\ Cardinality(S) \in Nat
        /\ Cardinality(S \ {r}) \in Nat
    <2>1. S \ {r} \subseteq RlReqs
      OBVIOUS
    <2> QED
      BY <1>1, <2>1, CountLoses, CountType
  <1> QED
    BY <1>2

(* Request r begins the window of the minute it read: the row was missing,  *)
(* or its minute over.                                                      *)
LEMMA WindowBegins ==
    ASSUME RlInv, NEW r \in RlReqs, NEW y, RlMoves(r, y), NEW t \in Minutes, t = rl[r].at,
           \/ rl[r].pc = "upsert" /\ ~entry.exists
           \/ rl[r].pc = "reset_minute",
           y.pc \in {"reset_hour", "decide"}, y.at = t, y.start = t, y.minute = 1,
           entry'.exists, entry'.minute = 1, entry'.minuteStart = t,
           Begin(r, t), UNCHANGED <<rlNow, passed, lost>>
    PROVE  RateRowInv' /\ WinInv'
  <1>0. /\ RlTypes /\ WinInv /\ rl[r].pc \in InDb /\ t <= rlNow /\ t \in Nat /\ rlNow \in Nat
        /\ passed.db \in [Minutes -> Nat] /\ contested \subseteq contested'
    BY RlFacts DEF RlInv, RlTypes, Tally, InDb, Begin
  <1>1. rl'[r] = y /\ \A q \in RlReqs : q # r => rl'[q] = rl[q]
    BY <1>0, RlMoved
  <1>2. RateRowInv'
    <2>1. r \in {q \in RlReqs : InRow(rl'[q], t)}
      BY <1>1 DEF InRow
    <2>2. {q \in RlReqs : InRow(rl'[q], t)} \subseteq RlReqs
      OBVIOUS
    <2>3. NInRow(rl', t) >= 1
      BY <2>1, <2>2, Inhabited DEF NInRow
    <2>4. passed.db[t] \in Nat /\ NInRow(rl, t) \in Nat /\ NInRow(rl', t) \in Int
      <3>1. One(InRow(y, t)) \in {0, 1} /\ One(InRow(rl[r], t)) \in {0, 1}
        BY DEF One
      <3> QED
        BY <1>0, <3>1, RowCounts
    <2> QED
      BY <2>3, <2>4 DEF RateRowInv
  <1>3. ASSUME NEW u \in Minutes, u \notin contested', WinStarted(u)', u = t PROVE WinOk(u)'
    <2>1. \A q \in RlReqs : q # r => rl[q].pc \notin InDb
      BY <1>3 DEF Begin
    <2>2. ~WinStarted(t)
      <3>1. SUFFICES ASSUME WinStarted(t) PROVE FALSE
        OBVIOUS
      <3>2. WinOk(t)
        BY <1>0, <1>3, <3>1 DEF WinInv
      <3> QED
        BY <1>0, <3>2 DEF WinOk
    <2>3. passed.db[t] = 0 /\ \A q \in RlReqs : ~InWin(rl[q], t)
      BY <1>0, <2>2 DEF WinStarted
    <2>4. NInWin(rl, t) = 0 /\ NOkWin(rl, t) = 0
      <3>1. {q \in RlReqs : InWin(rl[q], t)} = {} /\ {q \in RlReqs : OkWin(rl[q], t)} = {}
        BY <2>3 DEF OkWin
      <3> QED
        BY <3>1, FS_EmptySet DEF NInWin, NOkWin
    <2>5. NInWin(rl', t) = 1 /\ NOkWin(rl', t) <= 1 /\ NOkWin(rl', t) \in Int
      <3>1. /\ One(InWin(y, t)) = 1 /\ One(InWin(rl[r], t)) = 0
            /\ One(OkWin(y, t)) \in {0, 1} /\ One(OkWin(rl[r], t)) = 0
        BY <2>3 DEF One, InWin, OkWin
      <3> QED
        BY <1>0, <2>4, <3>1, RowCounts
    <2>6. /\ \A q \in RlReqs : rl'[q].pc \in InDb => q = r
          /\ y.pc # "reset_minute" /\ "reset_minute" \in InDb /\ "reset_hour" \in InDb
          /\ "decide" \in InDb
      BY <1>1, <2>1 DEF InDb
    <2>7. \A q \in RlReqs : /\ rl'[q].pc \in InDb => rl'[q].at >= t
                            /\ rl'[q].pc # "reset_minute"
                            /\ rl'[q].pc \in {"reset_hour", "decide"} => rl'[q].start = t
      BY <1>0, <1>1, <2>6
    <2> QED
      BY <1>0, <1>3, <2>3, <2>5, <2>7, RlFacts DEF WinOk
  <1>4. ASSUME NEW u \in Minutes, u \notin contested', WinStarted(u)', u # t PROVE WinOk(u)'
    <2>1. ~InWin(y, u) /\ ~OkWin(y, u)
      BY <1>4 DEF InWin, OkWin
    <2>2. WinStarted(u)
      BY <1>1, <1>4, <2>1 DEF WinStarted
    <2>3. WinOk(u) /\ u \in Nat
      BY <1>0, <1>4, <2>2, RlFacts DEF WinInv
    <2>4. t > u
      BY <1>0, <2>3 DEF WinOk
    <2>5. NOkWin(rl', u) <= NOkWin(rl, u) /\ NOkWin(rl', u) \in Int /\ NOkWin(rl, u) \in Nat
      <3>1. One(OkWin(y, u)) = 0 /\ One(OkWin(rl[r], u)) \in {0, 1}
        BY <2>1 DEF One
      <3> QED
        BY <1>0, <3>1, RowCounts
    <2>6. passed.db[u] + NOkWin(rl', u) <= PerMinute
      BY <1>0, <2>3, <2>5, RlFacts DEF WinOk
    <2>7. \A q \in RlReqs : /\ rl'[q].pc \in InDb => rl'[q].at >= u
                            /\ rl'[q].pc = "reset_minute" => rl'[q].at > u
      BY <1>0, <1>1, <2>3, <2>4 DEF WinOk
    <2> QED
      BY <1>0, <1>4, <2>3, <2>4, <2>6, <2>7 DEF WinOk
  <1> QED
    BY <1>2, <1>3, <1>4 DEF WinInv

\* The row is incremented, or created with the first count.
LEMMA UpsertStep ==
    ASSUME RlInv, NEW r \in RlReqs, Upsert(r)
    PROVE  RlInv'
  <1> DEFINE t == rl[r].at
             m == entry.minute + 1
             k == entry.hour + 1
             e == IF entry.exists
                    THEN [entry EXCEPT !.minute = m, !.hour = k]
                    ELSE [exists |-> TRUE, minute |-> 1, minuteStart |-> t,
                          hour |-> 1, hourStart |-> t]
             over == t - e.hourStart >= Hour
             l == IF t - e.minuteStart >= 1 THEN "reset_minute"
                  ELSE IF over THEN "reset_hour" ELSE "decide"
             y == [rl[r] EXCEPT !.pc = l, !.minute = e.minute, !.hour = e.hour,
                                !.start = e.minuteStart, !.hourOver = over]
  <1>0. /\ rl[r].pc = "upsert" /\ RlTypes /\ RedisInv /\ RateRowInv /\ WinInv /\ rl[r].pc \in InDb
        /\ UNCHANGED <<rlNow, redisUp, minuteKey, hourKey, passed, lost>>
        /\ t \in Minutes /\ t <= rlNow /\ t \in Nat /\ rl[r] \in RlRec /\ rl \in [RlReqs -> RlRec]
        /\ passed.db \in [Minutes -> Nat] /\ entry \in RowRec /\ passed \in Tally
        /\ minuteKey \in [Minutes -> Int] /\ hourKey \in [Hours -> Int]
        /\ contested \subseteq Minutes /\ lost \subseteq {"extra", "missing"}
        /\ entry.minuteStart <= rlNow /\ entry.minute \in Int /\ entry.minuteStart \in Nat
    BY RlFacts DEF Upsert, RlInv, RlTypes, RlRec, RowRec, Tally, InDb
  <1>1. /\ entry' = e
        /\ IF entry.exists THEN UNCHANGED contested ELSE Begin(r, t)
    BY DEF Upsert
  <1>1a. rl' = [rl EXCEPT ![r].pc = l, ![r].minute = e.minute, ![r].hour = e.hour,
                          ![r].start = e.minuteStart, ![r].hourOver = over]
    BY DEF Upsert
  <1>2. rl' = [rl EXCEPT ![r] = y]
    <2> HIDE DEF e, l, over
    <2> QED
      BY <1>0, <1>1a
  <1>3. /\ e \in RowRec /\ e.exists /\ e.minuteStart <= rlNow
        /\ entry.exists => e.minute = m /\ e.minuteStart = entry.minuteStart
        /\ ~entry.exists => e.minute = 1 /\ e.minuteStart = t /\ e.hourStart = t
    <2>1. CASE entry.exists
      <3>1. m \in Int /\ k \in Int
        BY <1>0 DEF RowRec
      <3> HIDE DEF m, k
      <3> QED
        BY <1>0, <2>1, <3>1 DEF RowRec
    <2>2. CASE ~entry.exists
      BY <1>0, <2>2 DEF RowRec
    <2> QED
      BY <2>1, <2>2
  <1> HIDE DEF e
  <1>4. e.minute \in Int /\ e.minuteStart \in Minutes /\ e.hour \in Int /\ e.hourStart \in Minutes
    BY <1>3 DEF RowRec
  <1>5. /\ l \in {"reset_minute", "reset_hour", "decide"} /\ l \in RlPcs /\ over \in BOOLEAN
        /\ l = "reset_minute" <=> t - e.minuteStart >= 1
    BY <1>0, <1>4, RlFacts DEF RlPcs
  <1> HIDE DEF l, over
  <1>6. /\ y \in RlRec /\ y.pc = l /\ y.at = t /\ y.minute = e.minute /\ y.start = e.minuteStart
    BY <1>0, <1>4, <1>5 DEF RlRec
  <1> HIDE DEF y
  <1>7. RlMoves(r, y)
    BY <1>0, <1>2, <1>6 DEF RlMoves
  <1>8. RlTypes'
    <2>1. contested' \subseteq Minutes
      BY <1>0, <1>1 DEF Begin
    <2> QED
      BY <1>0, <1>1, <1>3, <1>7, <2>1, RlTypesKept
  <1>9. RedisInv'
    <2>1. y.pc \in InDb \cup {"idle"}
      BY <1>5, <1>6 DEF InDb
    <2> QED
      BY <1>0, <1>7, <2>1, RedisAside
  <1>10. RateRowInv' /\ WinInv'
    <2>1. CASE ~entry.exists
      <3>1. l \in {"reset_hour", "decide"}
        BY <1>0, <1>3, <1>5, <2>1
      <3>2. Begin(r, t) /\ entry'.exists /\ entry'.minute = 1 /\ entry'.minuteStart = t
        BY <1>1, <1>3, <2>1
      <3>3. y.pc \in {"reset_hour", "decide"} /\ y.at = t /\ y.start = t /\ y.minute = 1
        BY <1>3, <1>6, <2>1, <3>1
      <3> HIDE DEF t
      <3> QED
        BY <1>0, <1>7, <2>1, <3>2, <3>3, WindowBegins DEF t
    <2>2. CASE entry.exists
      <3> DEFINE s == entry.minuteStart
      <3>0. /\ contested' = contested /\ entry'.exists /\ entry'.minute = entry.minute + 1
            /\ entry'.minuteStart = s /\ y.minute = entry.minute + 1 /\ y.start = s
            /\ s \in Minutes /\ s \in Nat /\ (l = "reset_minute" => t > s)
        BY <1>0, <1>1, <1>3, <1>4, <1>5, <1>6, <2>2
      <3>1. rl'[r] = y /\ \A q \in RlReqs : q # r => rl'[q] = rl[q]
        BY <1>0, <1>7, RlMoved
      <3>2. ASSUME NEW u \in Minutes
            PROVE  /\ NInRow(rl', u) = NInRow(rl, u) + One(u = s)
                   /\ NInWin(rl', u) = NInWin(rl, u) + One(InWin(y, u))
                   /\ NOkWin(rl', u) = NOkWin(rl, u) + One(OkWin(y, u))
                   /\ NInRow(rl, u) \in Nat /\ NInWin(rl, u) \in Nat /\ NOkWin(rl, u) \in Nat
                   /\ NOkWin(rl, u) <= NInWin(rl, u)
                   /\ One(InWin(y, u)) \in {0, 1} /\ One(OkWin(y, u)) \in {0, 1}
        <4>1. /\ One(InRow(rl[r], u)) = 0 /\ One(InWin(rl[r], u)) = 0 /\ One(OkWin(rl[r], u)) = 0
              /\ One(InRow(y, u)) = One(u = s) /\ One(u = s) \in {0, 1}
              /\ One(InWin(y, u)) \in {0, 1} /\ One(OkWin(y, u)) \in {0, 1}
          BY <1>0, <1>5, <1>6, <3>0 DEF One, InRow, InWin, OkWin
        <4> QED
          BY <1>0, <1>7, <4>1, RowCounts
      <3>3. RateRowInv'
        <4>1. "extra" \notin lost => entry.minute <= passed.db[s] + NInRow(rl, s)
          BY <1>0, <2>2 DEF RateRowInv
        <4>2. NInRow(rl', s) = NInRow(rl, s) + 1 /\ NInRow(rl, s) \in Nat /\ passed.db[s] \in Nat
          BY <1>0, <3>0, <3>2 DEF One
        <4>3. "extra" \notin lost => entry'.minute <= passed.db[s] + NInRow(rl', s)
          BY <1>0, <3>0, <4>1, <4>2
        <4> QED
          BY <1>0, <3>0, <4>3 DEF RateRowInv
      <3>4. ASSUME NEW u \in Minutes, u \notin contested', WinStarted(u)' PROVE WinOk(u)'
        <4>1. WinStarted(u)
          BY <1>0, <2>2, <3>0, <3>1, <3>4 DEF WinStarted, InWin
        <4>2. WinOk(u) /\ u \in Nat
          BY <1>0, <3>0, <3>4, <4>1, RlFacts DEF WinInv
        <4>3. u <= rlNow /\ s >= u /\ t >= u /\ (l = "reset_minute" => t > u)
          BY <1>0, <2>2, <3>0, <4>2 DEF WinOk
        <4>4. \A q \in RlReqs : /\ rl'[q].pc \in InDb => rl'[q].at >= u
                                /\ rl'[q].pc = "reset_minute" => rl'[q].at > u
          BY <1>6, <3>1, <4>2, <4>3 DEF WinOk
        <4>5. ASSUME s = u
              PROVE  /\ \A q \in RlReqs : rl'[q].pc \in {"reset_hour", "decide"} => rl'[q].start = u
                     /\ entry'.minute >= passed.db[u] + NInWin(rl', u)
                     /\ passed.db[u] + NOkWin(rl', u) <= PerMinute
          <5>1. /\ \A q \in RlReqs : rl[q].pc \in {"reset_hour", "decide"} => rl[q].start = u
                /\ entry.minute >= passed.db[u] + NInWin(rl, u)
                /\ passed.db[u] + NOkWin(rl, u) <= PerMinute /\ passed.db[u] \in Nat
            BY <1>0, <2>2, <4>2, <4>5 DEF WinOk
          <5>2. \A q \in RlReqs : rl'[q].pc \in {"reset_hour", "decide"} => rl'[q].start = u
            BY <3>0, <3>1, <4>5, <5>1
          <5>3. entry'.minute >= passed.db[u] + NInWin(rl', u)
            BY <1>0, <3>0, <3>2, <5>1
          <5>4. OkWin(y, u) => entry.minute + 1 <= PerMinute
            BY <3>0 DEF OkWin
          <5>5. One(OkWin(y, u)) = 0 \/ (One(OkWin(y, u)) = 1 /\ OkWin(y, u))
            BY DEF One
          <5>6. passed.db[u] + NOkWin(rl', u) <= PerMinute
            BY <1>0, <3>2, <5>1, <5>4, <5>5, RlFacts
          <5> QED
            BY <5>2, <5>3, <5>6
        <4>6. ASSUME s # u PROVE passed.db[u] + NOkWin(rl', u) <= PerMinute
          <5>1. One(OkWin(y, u)) = 0
            BY <3>0, <4>6 DEF One, OkWin, InWin
          <5> QED
            BY <1>0, <3>2, <4>2, <5>1, RlFacts DEF WinOk
        <4> QED
          BY <1>0, <3>0, <4>3, <4>4, <4>5, <4>6 DEF WinOk
      <3> QED
        BY <3>3, <3>4 DEF WinInv
    <2> QED
      BY <2>1, <2>2
  <1> QED
    BY <1>8, <1>9, <1>10 DEF RlInv

\* A minute window that has run out starts again at one.
LEMMA ResetMinuteStep ==
    ASSUME RlInv, NEW r \in RlReqs, ResetMinute(r)
    PROVE  RlInv'
  <1> DEFINE t == rl[r].at
             l == IF rl[r].hourOver THEN "reset_hour" ELSE "decide"
             n == 1
             y == [rl[r] EXCEPT !.pc = l, !.minute = n, !.start = t]
  <1>0. /\ rl[r].pc = "reset_minute" /\ RlTypes /\ rl[r].pc \in InDb
        /\ UNCHANGED <<rlNow, redisUp, minuteKey, hourKey, passed, lost>>
        /\ t \in Minutes /\ t <= rlNow /\ rl[r] \in RlRec /\ rl \in [RlReqs -> RlRec]
        /\ entry \in RowRec /\ passed \in Tally /\ entry.exists
        /\ minuteKey \in [Minutes -> Int] /\ hourKey \in [Hours -> Int]
        /\ contested \subseteq Minutes /\ lost \subseteq {"extra", "missing"}
    BY DEF ResetMinute, RlInv, RlTypes, RlRec, InDb
  <1>1. /\ Begin(r, t) /\ entry' = [entry EXCEPT !.minute = n, !.minuteStart = t] /\ n \in Int
    BY DEF ResetMinute
  <1>2. rl' = [rl EXCEPT ![r] = y]
    BY <1>0 DEF ResetMinute
  <1> HIDE DEF n
  <1>3. entry' \in RowRec /\ entry'.exists /\ entry'.minute = n /\ entry'.minuteStart = t
    BY <1>0, <1>1 DEF RowRec
  <1>4. l \in {"reset_hour", "decide"} /\ l \in RlPcs
    BY DEF RlPcs
  <1> HIDE DEF l
  <1>5. y \in RlRec /\ y.pc = l /\ y.at = t /\ y.minute = n /\ y.start = t
    BY <1>0, <1>1, <1>4 DEF RlRec
  <1> HIDE DEF y
  <1>6. RlMoves(r, y)
    BY <1>0, <1>2, <1>5 DEF RlMoves
  <1>7. RlTypes'
    <2>1. contested' \subseteq Minutes
      BY <1>0, <1>1 DEF Begin
    <2> QED
      BY <1>0, <1>3, <1>6, <2>1, RlTypesKept
  <1>8. RedisInv'
    <2>1. y.pc \in InDb \cup {"idle"}
      BY <1>4, <1>5 DEF InDb
    <2> QED
      BY <1>0, <1>6, <2>1, RedisAside
  <1>9. RateRowInv' /\ WinInv'
    <2>1. y.pc \in {"reset_hour", "decide"} /\ n = 1
      BY <1>4, <1>5 DEF n
    <2> HIDE DEF t
    <2> QED
      BY <1>0, <1>1, <1>3, <1>5, <1>6, <2>1, WindowBegins DEF t
  <1> QED
    BY <1>7, <1>8, <1>9 DEF RlInv

\* And so does the hour window.
LEMMA ResetHourStep ==
    ASSUME RlInv, NEW r \in RlReqs, ResetHour(r)
    PROVE  RlInv'
  <1> DEFINE n == 1
             y == [rl[r] EXCEPT !.pc = "decide", !.hour = n]
  <1>0. /\ rl[r].pc = "reset_hour" /\ RlTypes /\ RateRowInv /\ WinInv /\ rl[r].pc \in InDb
        /\ UNCHANGED <<rlNow, redisUp, minuteKey, hourKey, passed, lost, contested>>
        /\ rl[r].at \in Minutes /\ rl[r].at <= rlNow /\ rl[r] \in RlRec /\ rl \in [RlReqs -> RlRec]
        /\ entry \in RowRec /\ passed \in Tally /\ entry.minuteStart <= rlNow
        /\ minuteKey \in [Minutes -> Int] /\ hourKey \in [Hours -> Int]
        /\ contested \subseteq Minutes /\ lost \subseteq {"extra", "missing"}
    BY DEF ResetHour, RlInv, RlTypes, RlRec, InDb
  <1>1. /\ rl' = [rl EXCEPT ![r] = y] /\ n \in Int
        /\ entry' = [entry EXCEPT !.hour = n, !.hourStart = rl[r].at]
    <2>1. /\ rl' = [rl EXCEPT ![r].pc = "decide", ![r].hour = n] /\ n \in Int
          /\ entry' = [entry EXCEPT !.hour = n, !.hourStart = rl[r].at]
      BY DEF ResetHour
    <2> HIDE DEF n
    <2> QED
      BY <1>0, <2>1
  <1> HIDE DEF n
  <1>2. /\ entry' \in RowRec /\ entry'.exists = entry.exists /\ entry'.minute = entry.minute
        /\ entry'.minuteStart = entry.minuteStart
    BY <1>0, <1>1 DEF RowRec
  <1>3. /\ y \in RlRec /\ y.pc = "decide" /\ y.at = rl[r].at /\ y.minute = rl[r].minute
        /\ y.start = rl[r].start
    BY <1>0, <1>1 DEF RlRec, RlPcs
  <1> HIDE DEF y
  <1>4. RlMoves(r, y)
    BY <1>0, <1>1, <1>3 DEF RlMoves
  <1>5. RlTypes'
    BY <1>0, <1>2, <1>4, RlTypesKept
  <1>6. RedisInv'
    <2>1. y.pc \in InDb \cup {"idle"}
      BY <1>3 DEF InDb
    <2> QED
      BY <1>0, <1>4, <2>1, RedisAside
  <1>7. /\ \A t : InRow(rl[r], t) => InRow(y, t)
        /\ \A t : /\ InWin(y, t) => InWin(rl[r], t)
                  /\ OkWin(y, t) => OkWin(rl[r], t)
    BY <1>0, <1>3 DEF InRow, InWin, OkWin
  <1>8. RateRowInv' /\ WinInv'
    BY <1>0, <1>2, <1>3, <1>4, <1>7, DbQuiet
  <1> QED
    BY <1>5, <1>6, <1>8 DEF RlInv

\* The request is let through, or takes its count out of the row again.
LEMMA DecideDbStep ==
    ASSUME RlInv, NEW r \in RlReqs, DecideDb(r)
    PROVE  RlInv'
  <1> DEFINE s == rl[r].start
  <1>0. /\ rl[r].pc = "decide" /\ RlTypes /\ RateRowInv /\ WinInv /\ rl[r].pc \in InDb
        /\ UNCHANGED <<rlNow, redisUp, minuteKey, hourKey, contested>>
        /\ rl[r] \in RlRec /\ s \in Minutes /\ rl[r].minute \in Int /\ rl[r].hour \in Int
        /\ entry \in RowRec /\ passed \in Tally /\ entry.minuteStart <= rlNow /\ rlNow \in Nat
        /\ passed.db \in [Minutes -> Nat] /\ entry.minute \in Int /\ entry.minuteStart \in Minutes
        /\ minuteKey \in [Minutes -> Int] /\ hourKey \in [Hours -> Int]
        /\ contested \subseteq Minutes /\ lost \subseteq {"extra", "missing"}
    BY RlFacts DEF DecideDb, RlInv, RlTypes, RlRec, RowRec, Tally, InDb
  <1>1. RlMoves(r, IdleRl)
    BY <1>0, RlFacts DEF RlMoves, DecideDb, RlFinish
  <1>2. rl'[r] = IdleRl /\ \A q \in RlReqs : q # r => rl'[q] = rl[q]
    BY <1>0, <1>1, RlMoved
  <1>3. \A u : ~InWin(IdleRl, u) /\ ~InRow(IdleRl, u) /\ ~OkWin(IdleRl, u)
    BY RlFacts DEF InWin, InRow, OkWin
  <1>4. ASSUME NEW u \in Minutes
        PROVE  /\ NInRow(rl', u) = NInRow(rl, u) - One(u = s)
               /\ NInWin(rl', u) = NInWin(rl, u) - One(u = s)
               /\ NOkWin(rl', u) = NOkWin(rl, u) - One(OkWin(rl[r], u))
               /\ NInRow(rl, u) \in Nat /\ NInWin(rl, u) \in Nat /\ NOkWin(rl, u) \in Nat
               /\ One(u = s) \in {0, 1} /\ One(OkWin(rl[r], u)) \in {0, 1}
    <2>1. /\ One(InRow(IdleRl, u)) = 0 /\ One(InWin(IdleRl, u)) = 0 /\ One(OkWin(IdleRl, u)) = 0
          /\ One(InRow(rl[r], u)) = One(u = s) /\ One(InWin(rl[r], u)) = One(u = s)
          /\ One(u = s) \in {0, 1} /\ One(OkWin(rl[r], u)) \in {0, 1}
      BY <1>0, <1>3 DEF One, InRow, InWin
    <2> QED
      BY <1>0, <1>1, <2>1, RowCounts
  <1>5. IdleRl.pc \in InDb \cup {"idle"}
    BY RlFacts
  <1>6. IdleRl.pc \notin InDb
    BY RlFacts DEF InDb
  <1>7. ASSUME UNCHANGED entry, lost' = lost \cup {"extra"}, UNCHANGED passed PROVE RlInv'
    <2>1. /\ minuteKey' \in [Minutes -> Int] /\ hourKey' \in [Hours -> Int]
          /\ \A u \in Minutes : minuteKey'[u] >= minuteKey[u]
          /\ \A g \in Hours : hourKey'[g] >= hourKey[g]
      BY <1>0
    <2> QED
      BY <1>0, <1>1, <1>7, <2>1, RlFacts, RlLeaves
  <1>8. ASSUME entry.exists, entry' = [entry EXCEPT !.minute = @ - 1, !.hour = @ - 1],
               UNCHANGED <<lost, passed>>
        PROVE  RlInv'
    <2>0. /\ entry' \in RowRec /\ entry'.exists /\ entry'.minute = entry.minute - 1
          /\ entry'.minuteStart = entry.minuteStart
      <3> DEFINE m == entry.minute - 1
                 k == entry.hour - 1
      <3>1. m \in Int /\ k \in Int /\ entry' = [entry EXCEPT !.minute = m, !.hour = k]
        BY <1>0, <1>8 DEF RowRec
      <3> HIDE DEF m, k
      <3>2. /\ entry' \in RowRec /\ entry'.exists /\ entry'.minute = m
            /\ entry'.minuteStart = entry.minuteStart
        BY <1>0, <1>8, <3>1 DEF RowRec
      <3> QED
        BY <3>2 DEF m
    <2>1. RlTypes'
      BY <1>0, <1>1, <1>8, <2>0, RlTypesKept
    <2>2. RedisInv'
      BY <1>0, <1>1, <1>5, <1>8, RedisAside
    <2>3. RateRowInv'
      <3> DEFINE u == entry.minuteStart
      <3>1. u \in Minutes /\ passed.db[u] \in Nat
        BY <1>0
      <3>2. "extra" \notin lost => entry.minute <= passed.db[u] + NInRow(rl, u)
        BY <1>0, <1>8 DEF RateRowInv
      <3> HIDE DEF u
      <3>3. "extra" \notin lost => entry'.minute <= passed.db[u] + NInRow(rl', u)
        BY <1>0, <1>4, <2>0, <3>1, <3>2
      <3> QED
        BY <1>8, <2>0, <3>3 DEF RateRowInv, u
    <2>4. ASSUME NEW u \in Minutes, u \notin contested', WinStarted(u)' PROVE WinOk(u)'
      <3>1. WinStarted(u)
        BY <1>2, <1>3, <1>8, <2>0, <2>4 DEF WinStarted
      <3>2. WinOk(u)
        BY <1>0, <2>4, <3>1 DEF WinInv
      <3>3. \A q \in RlReqs : /\ rl'[q].pc \in InDb => q # r
                              /\ rl'[q].pc \in {"reset_minute", "reset_hour", "decide"} => q # r
        BY <1>2, RlFacts DEF InDb
      <3>4. entry.minuteStart = u => entry'.minute >= passed.db[u] + NInWin(rl', u)
        <4>1. entry.minuteStart = u => One(u = s) = 1 /\ entry.minute >= passed.db[u] + NInWin(rl, u)
          BY <1>0, <1>8, <3>2 DEF WinOk, One
        <4> QED
          BY <1>0, <1>4, <2>0, <4>1
      <3>5. passed.db[u] + NOkWin(rl', u) <= PerMinute
        BY <1>0, <1>4, <3>2, RlFacts DEF WinOk
      <3> QED
        BY <1>0, <1>2, <1>8, <2>0, <3>2, <3>3, <3>4, <3>5 DEF WinOk
    <2> QED
      BY <2>1, <2>2, <2>3, <2>4 DEF RlInv, WinInv
  <1>9. ASSUME ~Over(rl[r].minute, rl[r].hour), passed' = [passed EXCEPT !.db[s] = @ + 1],
               UNCHANGED <<entry, lost>>
        PROVE  RlInv'
    <2>0. /\ passed' \in Tally /\ passed'.minute = passed.minute /\ passed'.hour = passed.hour
          /\ passed'.db[s] = passed.db[s] + 1
          /\ \A u \in Minutes : u # s => passed'.db[u] = passed.db[u]
      <3> DEFINE d == [passed.db EXCEPT ![s] = @ + 1]
      <3>1. d \in [Minutes -> Nat] /\ d[s] = passed.db[s] + 1 /\ \A u \in Minutes : u # s => d[u] = passed.db[u]
        BY <1>0
      <3>2. passed' = [passed EXCEPT !.db = d]
        BY <1>0, <1>9 DEF Tally
      <3> HIDE DEF d
      <3>3. passed' \in Tally /\ passed'.minute = passed.minute /\ passed'.hour = passed.hour /\ passed'.db = d
        BY <1>0, <3>1, <3>2 DEF Tally
      <3> QED
        BY <3>1, <3>3
    <2>1. RlTypes'
      BY <1>0, <1>1, <1>9, <2>0, RlTypesKept
    <2>2. RedisInv'
      BY <1>0, <1>1, <1>5, <1>9, <2>0, RedisAside
    <2>3. ASSUME NEW u \in Minutes
          PROVE  passed'.db[u] = passed.db[u] + One(u = s) /\ passed.db[u] \in Nat
      BY <1>0, <2>0 DEF One
    <2>4. RateRowInv'
      <3> DEFINE u == entry.minuteStart
      <3>1. u \in Minutes
        BY <1>0
      <3>2. "extra" \notin lost /\ entry.exists => entry.minute <= passed.db[u] + NInRow(rl, u)
        BY <1>0 DEF RateRowInv
      <3> HIDE DEF u
      <3>3. "extra" \notin lost /\ entry.exists => entry.minute <= passed'.db[u] + NInRow(rl', u)
        BY <1>0, <1>4, <2>3, <3>1, <3>2
      <3> QED
        BY <1>9, <3>3 DEF RateRowInv, u
    <2>5. ASSUME NEW u \in Minutes, u \notin contested', WinStarted(u)' PROVE WinOk(u)'
      <3>1. WinStarted(u)
        <4>1. InWin(rl[r], s)
          BY <1>0 DEF InWin
        <4> QED
          BY <1>2, <1>3, <1>9, <2>0, <2>5, <4>1 DEF WinStarted
      <3>2. WinOk(u)
        BY <1>0, <2>5, <3>1 DEF WinInv
      <3>3. \A q \in RlReqs : /\ rl'[q].pc \in InDb => q # r
                              /\ rl'[q].pc \in {"reset_minute", "reset_hour", "decide"} => q # r
        BY <1>2, RlFacts DEF InDb
      <3>4. entry.exists /\ entry.minuteStart = u => entry.minute >= passed'.db[u] + NInWin(rl', u)
        <4>1. entry.exists /\ entry.minuteStart = u => entry.minute >= passed.db[u] + NInWin(rl, u)
          BY <3>2 DEF WinOk
        <4> QED
          BY <1>0, <1>4, <2>3, <4>1
      <3>5. passed'.db[u] + NOkWin(rl', u) <= PerMinute
        <4>1. One(OkWin(rl[r], u)) = One(u = s)
          BY <1>0, <1>9, RlFacts DEF One, OkWin, InWin, Over
        <4>2. passed.db[u] + NOkWin(rl, u) <= PerMinute
          BY <3>2 DEF WinOk
        <4> QED
          BY <1>0, <1>4, <2>3, <4>1, <4>2, RlFacts
      <3> QED
        BY <1>0, <1>2, <1>9, <3>2, <3>3, <3>4, <3>5 DEF WinOk
    <2> QED
      BY <2>1, <2>2, <2>4, <2>5 DEF RlInv, WinInv
  <1> QED
    BY <1>7, <1>8, <1>9 DEF DecideDb

\* The row is swept: a window that stays uncontested is over, for good.
LEMMA CleanupEntryStep == ASSUME RlInv, CleanupEntry PROVE RlInv'
  <1>0. /\ RlTypes /\ RedisInv /\ WinInv /\ entry.exists /\ entry' = NoEntry
        /\ UNCHANGED <<rlNow, redisUp, minuteKey, hourKey, rl, passed, lost>>
        /\ rlNow \in Nat /\ rlNow \in Minutes /\ entry.minuteStart \in Minutes
        /\ entry.minuteStart \in Nat /\ entry.minuteStart <= rlNow /\ rl \in [RlReqs -> RlRec]
        /\ \A q \in RlReqs : rl[q].at \in Minutes /\ rl[q].at \in Nat
    BY RlFacts DEF CleanupEntry, RlInv, RlTypes, RowRec, RlRec
  <1>1. /\ contested \subseteq contested' /\ contested' \subseteq Minutes
        /\ \A q \in RlReqs : rl[q].pc \in InDb => rl[q].at \in contested'
        /\ entry.minuteStart = rlNow => rlNow \in contested'
    BY <1>0 DEF CleanupEntry, RlTypes
  <1>2. entry' \in RowRec /\ entry'.exists = FALSE /\ entry'.minuteStart = 0
    BY <1>0, RlFacts
  <1>3. RlTypes'
    BY <1>0, <1>1, <1>2 DEF RlTypes
  <1>4. RedisInv' /\ RateRowInv'
    BY <1>0, <1>2 DEF RedisInv, RateRowInv
  <1>5. ASSUME NEW u \in Minutes, u \notin contested', WinStarted(u)' PROVE WinOk(u)'
    <2>1. WinStarted(u)
      BY <1>0, <1>2, <1>5 DEF WinStarted
    <2>2. WinOk(u) /\ u \in Nat
      BY <1>0, <1>1, <1>5, <2>1, RlFacts DEF WinInv
    <2>3. rlNow > u
      BY <1>0, <1>1, <1>5, <2>2 DEF WinOk
    <2>4. \A q \in RlReqs : rl[q].pc \in InDb => rl[q].at > u
      BY <1>0, <1>1, <1>5, <2>2 DEF WinOk
    <2> QED
      BY <1>0, <1>2, <2>2, <2>3, <2>4 DEF WinOk
  <1> QED
    BY <1>3, <1>4, <1>5 DEF RlInv, WinInv

\* Every step of the rate limiter keeps its invariant.
LEMMA RlInvNext == ASSUME RlInv, [RlNext]_rlVars PROVE RlInv'
  <1>0. rlNow \in Minutes /\ redisUp \in BOOLEAN /\ rlNow \in Nat
    BY RlFacts DEF RlInv, RlTypes
  <1>1. ASSUME NEW r \in RlReqs,
               \/ RlStart(r) \/ RlAbort(r) \/ \E done \in BOOLEAN : RlFallback(r, done)
               \/ IncrMinute(r) \/ IncrHour(r) \/ UndoMinute(r) \/ UndoHour(r)
               \/ Upsert(r) \/ ResetMinute(r) \/ ResetHour(r) \/ DecideDb(r)
        PROVE  RlInv'
    BY <1>1, RlStartStep, RlAbortStep, RlFallbackStep, IncrMinuteStep, IncrHourStep,
       UndoMinuteStep, UndoHourStep, UpsertStep, ResetMinuteStep, ResetHourStep, DecideDbStep
  <1>2. CASE CleanupEntry
    BY <1>2, CleanupEntryStep
  <1>3. CASE RedisToggle
    BY <1>0, <1>3, RlIdleStep DEF RedisToggle
  <1>4. CASE RlTick
    <2>1. rlNow' \in Minutes /\ rlNow' >= rlNow
      BY <1>0, <1>4, RlFacts DEF RlTick, Minutes
    <2> QED
      BY <1>0, <1>4, <2>1, RlIdleStep DEF RlTick
  <1>5. CASE UNCHANGED rlVars
    BY <1>0, <1>5, RlIdleStep DEF rlVars
  <1> QED
    BY <1>1, <1>2, <1>3, <1>4, <1>5 DEF RlNext

\* A property that counts requests counts those of the invariant at least.
LEMMA RlCounted ==
    ASSUME NEW S, NEW T, S \subseteq T, T \subseteq RlReqs
    PROVE  Cardinality(S) \in Nat /\ Cardinality(T) \in Nat /\ Cardinality(S) <= Cardinality(T)
  <1>1. IsFiniteSet(RlReqs)
    BY RateLimiterAssumption
  <1>2. IsFiniteSet(T) /\ Cardinality(T) \in Nat
    BY <1>1, CountType
  <1> QED
    BY <1>2, CountType

(* The limits hold (checkWithRedis, checkWithDatabase) for any number of    *)
(* requests in flight and any limits, however the commands interleave.      *)
THEOREM RateCapHoldsAlways == RlSpec => []RateCapHolds
  <1>1. RlInv => RateCapHolds
    <2> SUFFICES ASSUME RlInv PROVE RateCapHolds
      OBVIOUS
    <2>0. /\ passed.minute \in [Minutes -> Nat] /\ passed.db \in [Minutes -> Nat]
          /\ PerMinute \in Nat
      BY RlFacts DEF RlInv, RlTypes, Tally
    <2>1. ASSUME NEW t PROVE NOkMinute(rl, t) \in Nat /\ NOkWin(rl, t) \in Nat
      BY RlCounted DEF NOkMinute, NOkWin
    <2>2. ASSUME NEW t \in Minutes, "missing" \notin lost PROVE passed.minute[t] <= PerMinute
      <3>1. passed.minute[t] + NOkMinute(rl, t) <= PerMinute
        BY <2>2 DEF RlInv, RedisInv
      <3> QED
        BY <2>0, <2>1, <3>1
    <2>3. ASSUME NEW t \in Minutes, t \notin contested PROVE passed.db[t] <= PerMinute
      <3>1. CASE passed.db[t] > 0
        <4>1. passed.db[t] + NOkWin(rl, t) <= PerMinute
          BY <2>3, <3>1 DEF RlInv, WinInv, WinStarted, WinOk
        <4> QED
          BY <2>0, <2>1, <4>1
      <3>2. CASE ~(passed.db[t] > 0)
        BY <2>0, <3>2
      <3> QED
        BY <3>1, <3>2
    <2>4. "missing" \notin lost => \A h \in Hours : passed.hour[h] <= PerHour
      BY DEF RlInv, RedisInv
    <2> QED
      BY <2>2, <2>3, <2>4 DEF RateCapHolds
  <1> QED
    BY <1>1, RlInvInit, RlInvNext, PTL DEF RlSpec

(* A counter exceeds what it let through by the requests in flight at most, *)
(* as long as no error left a count behind (the undo of rejected requests), *)
(* for any number of requests and any limits.                               *)
THEOREM RateNoInflationHolds == RlSpec => []RateNoInflation
  <1>1. RlInv => RateNoInflation
    <2> SUFFICES ASSUME RlInv, "extra" \notin lost PROVE RateNoInflation
      BY DEF RateNoInflation
    <2>0. /\ passed.minute \in [Minutes -> Nat] /\ passed.db \in [Minutes -> Nat]
          /\ passed.hour \in [Hours -> Nat] /\ minuteKey \in [Minutes -> Int]
          /\ hourKey \in [Hours -> Int] /\ entry.minute \in Int /\ entry.minuteStart \in Minutes
      BY DEF RlInv, RlTypes, Tally, RowRec
    <2>1. ASSUME NEW t \in Minutes
          PROVE  minuteKey[t] <= passed.minute[t]
                   + Cardinality({r \in RlReqs : rl[r].pc \in {"hour", "undo_minute"} /\ rl[r].at = t})
      <3> DEFINE S == {r \in RlReqs : InMinute(rl[r], t)}
                 T == {r \in RlReqs : rl[r].pc \in {"hour", "undo_minute"} /\ rl[r].at = t}
      <3>1. S \subseteq T /\ T \subseteq RlReqs
        BY DEF InMinute
      <3>2. minuteKey[t] <= passed.minute[t] + Cardinality(S)
        BY DEF RlInv, RedisInv, NInMinute
      <3> HIDE DEF S, T
      <3>3. minuteKey[t] <= passed.minute[t] + Cardinality(T)
        BY <2>0, <3>1, <3>2, RlCounted
      <3> QED
        BY <3>3 DEF T
    <2>2. ASSUME NEW h \in Hours
          PROVE  hourKey[h] <= passed.hour[h]
                   + Cardinality({r \in RlReqs : rl[r].pc \in {"undo_minute", "undo_hour"}
                                                 /\ HourOf(rl[r].at) = h})
      BY DEF RlInv, RedisInv, NInHour, InHour
    <2>3. ASSUME entry.exists
          PROVE  entry.minute <= passed.db[entry.minuteStart]
                   + Cardinality({r \in RlReqs : rl[r].pc \in {"reset_minute", "reset_hour", "decide"}})
      <3> DEFINE S == {r \in RlReqs : InRow(rl[r], entry.minuteStart)}
                 T == {r \in RlReqs : rl[r].pc \in {"reset_minute", "reset_hour", "decide"}}
      <3>1. S \subseteq T /\ T \subseteq RlReqs
        BY DEF InRow
      <3>2. entry.minute <= passed.db[entry.minuteStart] + Cardinality(S)
        BY <2>3 DEF RlInv, RateRowInv, NInRow
      <3> HIDE DEF S, T
      <3>3. entry.minute <= passed.db[entry.minuteStart] + Cardinality(T)
        BY <2>0, <3>1, <3>2, RlCounted
      <3> QED
        BY <3>3 DEF T
    <2> QED
      BY <2>1, <2>2, <2>3 DEF RateNoInflation
  <1> QED
    BY <1>1, RlInvInit, RlInvNext, PTL DEF RlSpec
===============================================================================
