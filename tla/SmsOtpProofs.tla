---------------------------- MODULE SmsOtpProofs ----------------------------
(***************************************************************************)
(* Proofs about SmsOtp: typing with the guess limit of every row, and the  *)
(* sending caps, for any number of requests, challenges and buckets.       *)
(***************************************************************************)
EXTENDS SmsOtp, FiniteSetTheorems, TLAPS

-----------------------------------------------------------------------------
(* Typing. *)

\* The empty row and the idle request have their types.
LEMMA IdleTyped == NoRow \in RowType /\ IdleReq \in ReqType /\ AnyB \in Bindings
  <1>1. AnyB \in Bindings
    BY SmsAssumption DEF AnyB
  <1> QED
    BY <1>1, SmsAssumption DEF NoRow, IdleReq, RowType, ReqType

\* A request takes up a new value, or ends.
LEMMA ReqTyped ==
    ASSUME TypeOK, NEW p \in Reqs, NEW x \in ReqType
    PROVE  /\ [req EXCEPT ![p] = x] \in [Reqs -> ReqType]
           /\ [req EXCEPT ![p] = IdleReq] \in [Reqs -> ReqType]
  BY IdleTyped DEF TypeOK

\* A request moves to another label.
LEMMA GotoTyped ==
    ASSUME TypeOK, NEW p \in Reqs,
           NEW label \in {"idle", "s_log", "s_count", "s_send", "v_reserve", "v_claim"}
    PROVE  [req EXCEPT ![p].pc = label] \in [Reqs -> ReqType]
  <1>1. req \in [Reqs -> ReqType] /\ req[p] \in ReqType
    BY DEF TypeOK
  <1>2. [req[p] EXCEPT !.pc = label] \in ReqType
    BY <1>1 DEF ReqType
  <1> QED
    BY <1>1, <1>2

\* What SendLog makes of a request.
LEMMA LoggedTyped ==
    ASSUME NEW q \in ReqType, NEW m \in 0..NLogs, NEW K \in SUBSET Buckets
    PROVE  [q EXCEPT !.pc = "s_count", !.log = m, !.todo = K] \in ReqType
  <1> DEFINE q1 == [q EXCEPT !.pc = "s_count"]
             q2 == [q1 EXCEPT !.log = m]
             q3 == [q2 EXCEPT !.todo = K]
  <1>1. q1 \in ReqType
    BY DEF ReqType
  <1> HIDE DEF q1
  <1>2. q2 \in ReqType
    BY <1>1 DEF ReqType
  <1> HIDE DEF q2
  <1>3. q3 \in ReqType
    BY <1>2 DEF ReqType
  <1> QED
    BY <1>3, Zenon DEF q1, q2, q3

\* What a resend makes of a row.
LEMMA ResentTyped ==
    ASSUME NEW r \in RowType, NEW c \in Nat, NEW t \in Nat, NEW e \in Nat
    PROVE  [r EXCEPT !.code = c, !.sends = @ + 1, !.lastSentAt = t, !.expiresAt = e]
              \in RowType
  <1> DEFINE s  == r.sends + 1
             r1 == [r EXCEPT !.code = c]
             r2 == [r1 EXCEPT !.sends = s]
             r3 == [r2 EXCEPT !.lastSentAt = t]
             r4 == [r3 EXCEPT !.expiresAt = e]
  <1>0. s \in Nat /\ r1.sends = r.sends
    BY DEF RowType
  <1> HIDE DEF s
  <1>1. r1 \in RowType
    BY DEF RowType
  <1> HIDE DEF r1
  <1>2. r2 \in RowType
    BY <1>0, <1>1 DEF RowType
  <1> HIDE DEF r2
  <1>3. r3 \in RowType
    BY <1>2 DEF RowType
  <1> HIDE DEF r3
  <1>4. r4 \in RowType
    BY <1>3 DEF RowType
  <1>5. r4 = [r EXCEPT !.code = c, !.sends = @ + 1, !.lastSentAt = t, !.expiresAt = e]
    BY <1>0 DEF r1, r2, r3, s
  <1> QED
    BY <1>4, <1>5

\* There is no challenge row and no log row at first.
LEMMA TypeInit == Init => TypeOK
  BY IdleTyped, SmsAssumption DEF Init, TypeOK, LogIds

\* A step of a request keeps every row and counter in its type.
LEMMA TypeStep ==
    ASSUME TypeOK, NEW p \in Reqs, Step(p)
    PROVE  TypeOK'
  <1> USE IdleTyped, SmsAssumption
  <1>0. req[p] \in ReqType /\ req[p].b \in Bindings /\ row[req[p].b] \in RowType
    BY DEF TypeOK, ReqType
  <1>e. [req EXCEPT ![p] = IdleReq] \in [Reqs -> ReqType]
    BY ReqTyped
  <1>1. ASSUME NEW b \in Bindings, SendRead(p, b) PROVE TypeOK'
    <2> DEFINE x == [IdleReq EXCEPT !.pc = "s_log", !.b = b, !.at = now, !.id = row[b].id]
    <2>1. x \in ReqType
      BY DEF TypeOK, ReqType, RowType, IdleReq
    <2>2. req' = [req EXCEPT ![p] = x]
      BY <1>1 DEF SendRead
    <2> HIDE DEF x
    <2> QED
      BY <1>1, <2>1, <2>2, ReqTyped DEF TypeOK, SendRead, history
  <1>2. ASSUME NEW b \in Bindings, NEW g \in 0..nCode, VerifyRead(p, b, g) PROVE TypeOK'
    <2> DEFINE x == [IdleReq EXCEPT !.pc = "v_reserve", !.b = b, !.at = now,
                                     !.id = row[b].id, !.code = row[b].code, !.guess = g]
    <2>1. row[b] \in RowType /\ g \in Nat /\ now \in Nat
      BY DEF TypeOK
    <2>2. x \in ReqType
      BY <2>1 DEF ReqType, RowType, IdleReq
    <2>3. req' = [req EXCEPT ![p] = x]
      BY <1>2 DEF VerifyRead
    <2> HIDE DEF x
    <2> QED
      BY <1>2, <2>2, <2>3, ReqTyped DEF TypeOK, VerifyRead, history
  <1>3. ASSUME NEW k \in Buckets, SendCount(p, k) PROVE TypeOK'
    <2> DEFINE x == [req[p] EXCEPT !.todo = @ \ {k}]
    <2>1. x \in ReqType
      BY <1>0 DEF ReqType
    <2>2. req' = [req EXCEPT ![p] = IdleReq] \/ req' = [req EXCEPT ![p] = x]
      BY <1>3 DEF SendCount, Finish, TypeOK
    <2> HIDE DEF x
    <2>3. req' \in [Reqs -> ReqType]
      BY <1>e, <2>1, <2>2, ReqTyped
    <2>4. passed' \in [LogIds -> SUBSET Buckets]
      BY <1>3 DEF TypeOK, SendCount
    <2>5. UNCHANGED <<now, row, nRow, nCode, logs, nLog, pruned, sent, guesses, stored,
                      wins, wiped>>
      BY <1>3 DEF SendCount, history
    <2> QED
      BY <2>3, <2>4, <2>5 DEF TypeOK
  <1>4. CASE SendLog(p)
    <2> DEFINE x == [req[p] EXCEPT !.pc = "s_count", !.log = nLog + 1,
                                   !.todo = BucketsOf[req[p].b]]
    <2>1. nLog + 1 \in LogIds /\ nLog' \in 0..NLogs
      <3>1. nLog \in 0..NLogs /\ nLog < NLogs /\ nLog' = nLog + 1
        BY <1>4 DEF TypeOK, SendLog
      <3> QED
        BY <3>1 DEF LogIds
    <2>2. x \in ReqType
      <3> DEFINE K == BucketsOf[req[p].b]
      <3>1. K \in SUBSET Buckets /\ nLog + 1 \in 0..NLogs
        BY <1>0, <2>1 DEF LogIds, TypeOK
      <3> QED
        BY <1>0, <3>1, LoggedTyped
    <2>3. req' = [req EXCEPT ![p] = x]
      BY <1>4 DEF SendLog, TypeOK
    <2> HIDE DEF x
    <2>4. logs' \in [LogIds -> [b : Bindings, at : Nat]]
      BY <1>0, <1>4 DEF TypeOK, SendLog
    <2> QED
      BY <1>4, <2>1, <2>2, <2>3, <2>4, ReqTyped DEF TypeOK, SendLog, history
  <1>5. CASE SendStore(p)
    <2>1. /\ req[p].at \in Nat /\ req[p].at + CodeTTL \in Nat
          /\ nCode + 1 \in Nat /\ nRow + 1 \in Nat
      BY <1>0 DEF TypeOK, ReqType
    <2>2. stored' \in [Bindings -> Nat] /\ nRow' \in Nat /\ nCode' \in Nat
      BY <1>0, <1>5, <2>1 DEF TypeOK, SendStore
    <2>3. row' \in [Bindings -> RowType]
      <3>1. ResentRow(p) \in RowType
        BY <1>0, <2>1, ResentTyped DEF ResentRow
      <3>2. FirstRow(p) \in RowType
        <4>1. 0 \in 0..MaxAttempts
          OBVIOUS
        <4> QED
          BY <2>1, <4>1 DEF RowType, FirstRow
      <3>3. row' = row \/ row' = [row EXCEPT ![req[p].b] = ResentRow(p)]
            \/ row' = [row EXCEPT ![req[p].b] = FirstRow(p)]
        BY <1>5 DEF SendStore
      <3> QED
        BY <1>0, <3>1, <3>2, <3>3 DEF TypeOK
    <2>4. req' \in [Reqs -> ReqType]
      <3>1. [req EXCEPT ![p].pc = "s_send"] \in [Reqs -> ReqType]
        BY GotoTyped
      <3>2. req' = [req EXCEPT ![p] = IdleReq] \/ req' = [req EXCEPT ![p].pc = "s_send"]
        BY <1>5 DEF SendStore, Finish
      <3> QED
        BY <1>e, <3>1, <3>2
    <2> QED
      BY <1>5, <2>2, <2>3, <2>4 DEF TypeOK, SendStore
  <1>6. CASE SendDeliver(p)
    <2>1. req[p].log \in 0..NLogs
      BY <1>0 DEF ReqType
    <2> QED
      BY <1>6, <1>e, <2>1 DEF TypeOK, SendDeliver, Finish, history
  <1>7. CASE VerifyReserve(p)
    <2>1. row' \in [Bindings -> RowType] /\ guesses' \in [Bindings -> Nat]
      <3> DEFINE r1 == [row[req[p].b] EXCEPT !.attempts = @ + 1]
      <3>1. row[req[p].b].attempts < MaxAttempts => r1 \in RowType
        BY <1>0 DEF RowType
      <3>2. row' = row \/ (/\ row[req[p].b].attempts < MaxAttempts
                           /\ row' = [row EXCEPT ![req[p].b] = r1])
        BY <1>0, <1>7 DEF VerifyReserve, TypeOK
      <3> HIDE DEF r1
      <3>3. row' \in [Bindings -> RowType]
        BY <3>1, <3>2 DEF TypeOK
      <3>4. guesses' \in [Bindings -> Nat]
        <4>1. guesses' = guesses \/ guesses' = [guesses EXCEPT ![req[p].b] = @ + 1]
          BY <1>7 DEF VerifyReserve
        <4> QED
          BY <1>0, <4>1 DEF TypeOK
      <3> QED
        BY <3>3, <3>4
    <2>2. req' \in [Reqs -> ReqType]
      <3>1. [req EXCEPT ![p].pc = "v_claim"] \in [Reqs -> ReqType]
        BY GotoTyped
      <3>2. req' = [req EXCEPT ![p] = IdleReq] \/ req' = [req EXCEPT ![p].pc = "v_claim"]
        BY <1>7 DEF VerifyReserve, Finish
      <3> QED
        BY <1>e, <3>1, <3>2
    <2> QED
      BY <1>7, <2>1, <2>2 DEF TypeOK, VerifyReserve
  <1>8. CASE VerifyClaim(p)
    <2>1. row' \in [Bindings -> RowType]
      BY <1>8 DEF TypeOK, VerifyClaim
    <2>2. <<req[p].code, p>> \in Nat \X Reqs
      BY <1>0 DEF ReqType
    <2>3. wins' \in [Bindings -> SUBSET (Nat \X Reqs)]
      BY <1>8, <2>2 DEF TypeOK, VerifyClaim
    <2> QED
      BY <1>8, <1>e, <2>1, <2>3 DEF TypeOK, VerifyClaim, Finish
  <1>9. CASE Abort(p)
    BY <1>9, <1>e DEF TypeOK, Abort, Finish, history
  <1> QED
    BY <1>1, <1>2, <1>3, <1>4, <1>5, <1>6, <1>7, <1>8, <1>9 DEF Step

\* So does every other step.
LEMMA TypeNext == TypeOK /\ [Next]_vars => TypeOK'
  <1> SUFFICES ASSUME TypeOK, [Next]_vars PROVE TypeOK'
    OBVIOUS
  <1>1. ASSUME NEW p \in Reqs, Step(p) PROVE TypeOK'
    BY <1>1, TypeStep
  <1>2. CASE Cleanup
    <2>1. row' \in [Bindings -> RowType]
      BY <1>2, IdleTyped DEF TypeOK, Cleanup
    <2>2. pruned' \in SUBSET LogIds
      <3>1. \A l \in 1..nLog : l \in 1..NLogs
        BY SmsAssumption DEF TypeOK
      <3>2. pruned' = pruned \cup {l \in 1..nLog : logs[l].at < now - LogRetention}
        BY <1>2 DEF Cleanup
      <3>3. \A l \in pruned' : l \in pruned \/ l \in 1..nLog
        BY <3>2, Zenon
      <3> QED
        BY <3>1, <3>3, Zenon DEF TypeOK, LogIds
    <2> QED
      BY <1>2, <2>1, <2>2 DEF TypeOK, Cleanup, history
  <1>3. CASE Tick
    BY <1>3 DEF TypeOK, Tick, history
  <1>4. CASE UNCHANGED vars
    BY <1>4 DEF TypeOK, vars
  <1>5. ASSUME NEW b \in Bindings, DisableSms(b) PROVE TypeOK'
    BY <1>5, IdleTyped DEF TypeOK, DisableSms
  <1> QED
    BY <1>1, <1>2, <1>3, <1>4, <1>5 DEF Next

(* Every row keeps its type; in particular no interleaving of guesses takes *)
(* a row's attempts above SMS_OTP_MAX_ATTEMPTS.                             *)
THEOREM TypeCorrect == Spec => []TypeOK
  BY TypeInit, TypeNext, PTL DEF Spec

-----------------------------------------------------------------------------
(* The sending caps.  The log is written before it is counted, so whichever *)
(* of the sends of a window passes its count last has counted all of them.  *)
(* PassCap says this of the sends that passed bucket k's count; the other   *)
(* parts say that the count saw them: they are in the log, and not pruned.  *)

Passed(k) == {l \in LogIds : k \in passed[l]}

PassCap == \A k \in Buckets, x \in Int :
               Cardinality(InWindow(Passed(k), k, x)) <= Limit[k]

LogInv ==
    /\ \A l \in LogIds : passed[l] # {} => l <= nLog
    /\ \A l \in sent : l \in 1..nLog /\ BucketsOf[logs[l].b] \subseteq passed[l]
    /\ \A l \in pruned : l <= nLog /\ logs[l].at < now - LogRetention

(* What a request holds: its age is bounded, its log row is its own send's, *)
(* and the buckets it has not still to count have let it pass.              *)
ReqHolds(p) ==
    /\ req[p].pc # "idle" => req[p].at <= now /\ now <= req[p].at + MaxLatency
    /\ req[p].pc \in {"s_count", "s_send"} =>
          /\ req[p].log \in 1..nLog
          /\ logs[req[p].log].b = req[p].b
          /\ req[p].at <= logs[req[p].log].at
          /\ BucketsOf[req[p].b] \ req[p].todo \subseteq passed[req[p].log]
    /\ req[p].pc = "s_send" => req[p].todo = {}

CapInv == PassCap /\ LogInv /\ \A p \in Reqs : ReqHolds(p)

\* The windows of any set of log rows are finite sets.
LEMMA WindowFinite ==
    ASSUME NEW L, L \subseteq LogIds, NEW k, NEW x
    PROVE  /\ IsFiniteSet(InWindow(L, k, x))
           /\ Cardinality(InWindow(L, k, x)) \in Nat
  <1>1. IsFiniteSet(LogIds)
    BY SmsAssumption, FS_Interval DEF LogIds
  <1>2. InWindow(L, k, x) \subseteq LogIds
    BY DEF InWindow
  <1> QED
    BY <1>1, <1>2, FS_Subset, FS_CardinalityType

\* The caps on messages follow from the caps on counts.
LEMMA CapInvImplies == TypeOK /\ CapInv => SendCap
  <1> SUFFICES ASSUME TypeOK, CapInv, NEW k \in Buckets, NEW x \in 0..MaxTime
               PROVE  Cardinality(InWindow(sent, k, x)) <= Limit[k]
    BY DEF SendCap
  <1>1. Passed(k) \subseteq LogIds
    BY DEF Passed
  <1>2. InWindow(sent, k, x) \subseteq InWindow(Passed(k), k, x)
    <2> SUFFICES ASSUME NEW l \in InWindow(sent, k, x)
                 PROVE  l \in InWindow(Passed(k), k, x)
      OBVIOUS
    <2>1. l \in sent /\ k \in BucketsOf[logs[l].b]
      BY DEF InWindow
    <2>2. l \in 1..nLog /\ BucketsOf[logs[l].b] \subseteq passed[l]
      BY <2>1 DEF CapInv, LogInv
    <2>3. l \in LogIds
      BY <2>2, SmsAssumption DEF TypeOK, LogIds
    <2> QED
      BY <2>1, <2>2, <2>3 DEF InWindow, Passed
  <1>3. IsFiniteSet(InWindow(Passed(k), k, x))
    BY <1>1, WindowFinite
  <1>4. Cardinality(InWindow(sent, k, x)) <= Cardinality(InWindow(Passed(k), k, x))
    BY <1>2, <1>3, FS_Subset
  <1>5. Cardinality(InWindow(sent, k, x)) \in Nat
    BY <1>2, <1>3, FS_Subset, FS_CardinalityType
  <1>6. Cardinality(InWindow(Passed(k), k, x)) <= Limit[k]
    BY DEF CapInv, PassCap
  <1>7. Cardinality(InWindow(Passed(k), k, x)) \in Nat /\ Limit[k] \in Nat
    BY <1>1, WindowFinite, SmsAssumption
  <1> QED
    BY <1>4, <1>5, <1>6, <1>7

\* Nothing is logged or sent at first.
LEMMA CapInit == Init => CapInv
  <1> SUFFICES ASSUME Init PROVE CapInv
    OBVIOUS
  <1>1. PassCap
    <2> SUFFICES ASSUME NEW k \in Buckets, NEW x \in Int
                 PROVE  Cardinality(InWindow(Passed(k), k, x)) <= Limit[k]
      BY DEF PassCap
    <2>1. Passed(k) = {}
      BY DEF Init, Passed
    <2>2. InWindow(Passed(k), k, x) = {}
      BY <2>1 DEF InWindow
    <2> QED
      BY <2>2, FS_EmptySet, SmsAssumption
  <1>2. LogInv
    BY DEF Init, LogInv
  <1>3. ASSUME NEW p \in Reqs PROVE ReqHolds(p)
    BY <1>3 DEF Init, ReqHolds, IdleReq
  <1> QED
    BY <1>1, <1>2, <1>3 DEF CapInv

\* A step that leaves the counts' outcomes and the logged rows alone keeps the caps.
LEMMA PassCapFrame ==
    ASSUME TypeOK, CapInv, passed' = passed,
           \A l \in LogIds : l <= nLog => logs'[l] = logs[l]
    PROVE  PassCap'
  <1> SUFFICES ASSUME NEW k \in Buckets, NEW x \in Int
               PROVE  Cardinality(InWindow(Passed(k), k, x)') <= Limit[k]
    BY DEF PassCap
  <1>1. \A l \in Passed(k) : l \in LogIds /\ l <= nLog
    BY DEF Passed, CapInv, LogInv
  <1>2. Passed(k)' = Passed(k)
    BY DEF Passed
  <1>3. InWindow(Passed(k), k, x)' = InWindow(Passed(k), k, x)
    BY <1>1, <1>2 DEF InWindow
  <1> QED
    BY <1>3 DEF CapInv, PassCap

\* A request that does not move keeps what it holds.
LEMMA ReqFrame ==
    ASSUME TypeOK, NEW p \in Reqs, ReqHolds(p), req'[p] = req[p],
           now' = now \/ (Tick /\ now' = now + 1),
           nLog' \in Nat, nLog <= nLog',
           \A l \in LogIds : l <= nLog => logs'[l] = logs[l],
           \A l \in LogIds : passed[l] \subseteq passed'[l]
    PROVE  ReqHolds(p)'
  <1>1. req[p] \in ReqType /\ req[p].at \in Nat /\ now \in Nat /\ nLog \in 0..NLogs
    BY DEF TypeOK, ReqType
  <1>2. req'[p].pc # "idle" => req'[p].at <= now' /\ now' <= req'[p].at + MaxLatency
    BY <1>1, SmsAssumption DEF ReqHolds, Tick
  <1>3. ASSUME req[p].pc \in {"s_count", "s_send"}
        PROVE  /\ req'[p].log \in 1..nLog'
               /\ logs'[req'[p].log].b = req'[p].b
               /\ req'[p].at <= logs'[req'[p].log].at
               /\ BucketsOf[req'[p].b] \ req'[p].todo \subseteq passed'[req'[p].log]
    <2>1. /\ req[p].log \in 1..nLog
          /\ logs[req[p].log].b = req[p].b
          /\ req[p].at <= logs[req[p].log].at
          /\ BucketsOf[req[p].b] \ req[p].todo \subseteq passed[req[p].log]
      BY <1>3 DEF ReqHolds
    <2>2. req[p].log \in LogIds /\ req[p].log <= nLog /\ req[p].log \in 1..nLog'
      BY <1>1, <2>1, SmsAssumption DEF LogIds
    <2> QED
      BY <2>1, <2>2
  <1> QED
    BY <1>2, <1>3 DEF ReqHolds

\* The log and the counts' outcomes are left alone.
Quiet == UNCHANGED <<now, logs, nLog, pruned, passed, sent>>

\* A step that leaves the log alone keeps what holds of it.
LEMMA LogFrame == LogInv /\ Quiet => LogInv'
  BY DEF LogInv, Quiet

\* A step of p that touches only p's request, and the rows of challenges.
LEMMA QuietStep ==
    ASSUME TypeOK, CapInv, NEW p \in Reqs, Quiet, ReqHolds(p)',
           \A q \in Reqs : q # p => req'[q] = req[q]
    PROVE  CapInv'
  <1>1. PassCap'
    BY PassCapFrame DEF Quiet
  <1>2. LogInv'
    BY LogFrame DEF CapInv
  <1>3. ASSUME NEW q \in Reqs, q # p PROVE ReqHolds(q)'
    <2>1. ReqHolds(q) /\ req'[q] = req[q]
      BY <1>3 DEF CapInv
    <2>2. nLog' \in Nat /\ nLog <= nLog'
      BY SmsAssumption DEF Quiet, TypeOK
    <2> QED
      BY <2>1, <2>2, ReqFrame DEF Quiet
  <1> QED
    BY <1>1, <1>2, <1>3 DEF CapInv

\* A request that has ended holds nothing.
LEMMA IdleHolds ==
    ASSUME NEW p \in Reqs, req'[p] = IdleReq
    PROVE  ReqHolds(p)'
  BY DEF ReqHolds, IdleReq

\* Writing the log row: it is new, so no count has seen it and none depends on it.
LEMMA LogStep ==
    ASSUME TypeOK, TypeOK', CapInv, NEW p \in Reqs, SendLog(p)
    PROVE  CapInv'
  <1> USE SmsAssumption
  <1>0. /\ req[p] \in ReqType /\ req[p].at \in Nat /\ now \in Nat /\ nLog \in 0..NLogs
        /\ nLog' = nLog + 1 /\ nLog + 1 \in LogIds /\ ReqHolds(p) /\ nLog' \in Nat
    <2>1. req[p] \in ReqType /\ now \in Nat /\ nLog \in 0..NLogs /\ ReqHolds(p)
      BY DEF TypeOK, CapInv
    <2>2. req[p].at \in Nat
      BY <2>1 DEF ReqType
    <2>3. nLog < NLogs /\ nLog' = nLog + 1
      BY DEF SendLog
    <2> QED
      BY <2>1, <2>2, <2>3 DEF LogIds
  <1>1. \A l \in LogIds : l <= nLog => logs'[l] = logs[l]
    BY <1>0 DEF SendLog, TypeOK, LogIds
  <1>2. PassCap'
    BY <1>1, PassCapFrame DEF SendLog
  <1>3. LogInv'
    <2>1. ASSUME NEW l \in LogIds, passed'[l] # {} PROVE l <= nLog'
      BY <1>0, <2>1 DEF CapInv, LogInv, SendLog, LogIds
    <2>2. ASSUME NEW l \in sent
          PROVE  l \in 1..nLog' /\ BucketsOf[logs'[l].b] \subseteq passed'[l]
      <3>1. l \in 1..nLog /\ BucketsOf[logs[l].b] \subseteq passed[l]
        BY <2>2 DEF CapInv, LogInv
      <3>2. l \in LogIds /\ l <= nLog /\ l \in 1..nLog'
        BY <1>0, <3>1 DEF LogIds
      <3> QED
        BY <1>1, <3>1, <3>2 DEF SendLog
    <2>3. ASSUME NEW l \in pruned PROVE l <= nLog' /\ logs'[l].at < now' - LogRetention
      <3>1. l \in LogIds /\ l <= nLog /\ logs[l].at < now - LogRetention
        BY <2>3 DEF CapInv, LogInv, TypeOK
      <3>2. l <= nLog'
        BY <1>0, <3>1 DEF LogIds
      <3> QED
        BY <1>1, <3>1, <3>2 DEF SendLog
    <2> QED
      BY <2>1, <2>2, <2>3 DEF LogInv, SendLog
  <1>4. ASSUME NEW q \in Reqs, q # p PROVE ReqHolds(q)'
    <2>1. ReqHolds(q) /\ req'[q] = req[q] /\ now' = now /\ passed' = passed
      BY <1>4 DEF CapInv, SendLog, TypeOK
    <2> QED
      BY <1>0, <1>1, <2>1, ReqFrame
  <1>5. ReqHolds(p)'
    <2>1. /\ req'[p].pc = "s_count" /\ req'[p].log = nLog + 1
          /\ req'[p].todo = BucketsOf[req[p].b]
          /\ req'[p].b = req[p].b /\ req'[p].at = req[p].at
      BY <1>0 DEF SendLog, TypeOK, ReqType
    <2>2. logs'[nLog + 1].b = req[p].b /\ logs'[nLog + 1].at = now /\ now' = now
      BY <1>0 DEF SendLog, TypeOK
    <2>3. req[p].at <= now /\ now <= req[p].at + MaxLatency
      BY <1>0 DEF ReqHolds, SendLog
    <2>4. nLog + 1 \in 1..nLog'
      BY <1>0
    <2> QED
      BY <2>1, <2>2, <2>3, <2>4 DEF ReqHolds
  <1> QED
    BY <1>2, <1>3, <1>4, <1>5 DEF CapInv

(* The step that matters: the send that passes bucket k's count.  Every send *)
(* of a window it is in has been logged, is not older than the count's lower *)
(* bound and is not pruned, so it was counted.                               *)
LEMMA CountStep ==
    ASSUME TypeOK, TypeOK', CapInv, NEW p \in Reqs, NEW k \in Buckets, SendCount(p, k)
    PROVE  CapInv'
  <1> USE SmsAssumption
  <1> DEFINE m    == req[p].log
             from == req[p].at - Window[k]
  <1>0. req[p] \in ReqType /\ now \in Nat /\ nLog \in 0..NLogs /\ ReqHolds(p)
    BY DEF TypeOK, CapInv
  <1>1. req[p].at \in Nat /\ req[p].pc = "s_count" /\ k \in req[p].todo
    BY <1>0 DEF ReqType, SendCount
  <1>2. /\ m \in 1..nLog /\ m \in LogIds /\ logs[m].b = req[p].b
        /\ req[p].at <= logs[m].at /\ logs[m].at \in Nat
        /\ BucketsOf[req[p].b] \ req[p].todo \subseteq passed[m]
        /\ req[p].at <= now /\ now <= req[p].at + MaxLatency
    <2>1. /\ m \in 1..nLog /\ logs[m].b = req[p].b /\ req[p].at <= logs[m].at
          /\ BucketsOf[req[p].b] \ req[p].todo \subseteq passed[m]
          /\ req[p].at <= now /\ now <= req[p].at + MaxLatency
      BY <1>0, <1>1 DEF ReqHolds
    <2>2. m \in LogIds
      BY <1>0, <2>1 DEF LogIds
    <2> QED
      BY <2>1, <2>2 DEF TypeOK
  <1>3. CASE Finish(p) /\ UNCHANGED passed
    <2>1. Quiet
      BY <1>3 DEF Quiet, SendCount
    <2>2. req'[p] = IdleReq /\ \A q \in Reqs : q # p => req'[q] = req[q]
      BY <1>3 DEF Finish, TypeOK
    <2> QED
      BY <2>1, <2>2, IdleHolds, QuietStep
  <1>4. CASE /\ ~(Cardinality(Counted(k, from)) > Limit[k])
             /\ passed' = [passed EXCEPT ![m] = @ \cup {k}]
             /\ req' = [req EXCEPT ![p].todo = @ \ {k}]
    <2>0. now' = now /\ logs' = logs /\ nLog' = nLog /\ pruned' = pruned /\ sent' = sent
      BY DEF SendCount
    <2>1. /\ passed'[m] = passed[m] \cup {k}
          /\ \A l \in LogIds : l # m => passed'[l] = passed[l]
          /\ \A l \in LogIds : passed[l] \subseteq passed'[l]
      BY <1>2, <1>4 DEF TypeOK
    <2>2. PassCap'
      <3> SUFFICES ASSUME NEW j \in Buckets, NEW x \in Int
                   PROVE  Cardinality(InWindow(Passed(j), j, x)') <= Limit[j]
        BY DEF PassCap
      <3> DEFINE T == InWindow(Passed(j), j, x)
                 U == InWindow(Passed(j), j, x)'
      <3>1. \A l : l \in U <=> /\ l \in LogIds /\ j \in passed'[l]
                                /\ j \in BucketsOf[logs[l].b]
                                /\ x <= logs[l].at /\ logs[l].at <= x + Window[j]
        BY <2>0 DEF InWindow, Passed
      <3>2. \A l : l \in T <=> /\ l \in LogIds /\ j \in passed[l]
                                /\ j \in BucketsOf[logs[l].b]
                                /\ x <= logs[l].at /\ logs[l].at <= x + Window[j]
        BY DEF InWindow, Passed
      <3>3. T \subseteq LogIds /\ U \subseteq LogIds
        BY <3>1, <3>2
      <3>4. /\ IsFiniteSet(T) /\ Cardinality(T) \in Nat /\ Cardinality(T) <= Limit[j]
            /\ Limit[j] \in Nat
        <4>1. Passed(j) \subseteq LogIds
          BY DEF Passed
        <4> QED
          BY <4>1, WindowFinite DEF CapInv, PassCap
      <3>5. IsFiniteSet(U) /\ Cardinality(U) \in Nat
        <4>1. IsFiniteSet(LogIds)
          BY FS_Interval DEF LogIds
        <4> QED
          BY <3>3, <4>1, FS_Subset, FS_CardinalityType
      <3> HIDE DEF T, U
      <3>6. CASE j = k /\ m \in U
        <4>1. U \subseteq Counted(k, from)
          <5> SUFFICES ASSUME NEW l \in U PROVE l \in Counted(k, from)
            OBVIOUS
          <5>1. /\ l \in LogIds /\ k \in passed'[l] /\ k \in BucketsOf[logs[l].b]
                /\ x <= logs[l].at
            BY <3>1, <3>6
          <5>2. l \in 1..nLog
            <6>1. l = m \/ passed[l] # {}
              BY <2>1, <5>1
            <6>2. l = m \/ l <= nLog
              BY <5>1, <6>1 DEF CapInv, LogInv
            <6> QED
              BY <1>0, <1>2, <5>1, <6>2 DEF LogIds
          <5>3. logs[m].at <= x + Window[k] /\ Window[k] \in Nat
            BY <3>1, <3>6
          <5>4. logs[l].at \in Nat
            BY <5>1 DEF TypeOK
          <5>5. logs[l].at >= from
            BY <1>1, <1>2, <5>1, <5>3, <5>4
          <5>6. l \notin pruned
            <6>1. SUFFICES ASSUME l \in pruned PROVE FALSE
              OBVIOUS
            <6>2. logs[l].at < now - LogRetention
              BY <6>1 DEF CapInv, LogInv
            <6>3. Window[k] + MaxLatency <= LogRetention
              BY RetentionAssumption
            <6> QED
              BY <1>0, <1>1, <1>2, <5>3, <5>4, <5>5, <6>2, <6>3
          <5> QED
            BY <5>1, <5>2, <5>5, <5>6 DEF Counted
        <4>2. IsFiniteSet(Counted(k, from)) /\ Cardinality(Counted(k, from)) \in Nat
          <5>1. Counted(k, from) \subseteq 1..nLog
            BY DEF Counted
          <5>2. IsFiniteSet(1..nLog)
            BY <1>0, FS_Interval
          <5> QED
            BY <5>1, <5>2, FS_Subset, FS_CardinalityType
        <4>3. Cardinality(U) <= Cardinality(Counted(k, from))
          BY <4>1, <4>2, FS_Subset
        <4> QED
          BY <1>4, <3>4, <3>5, <3>6, <4>2, <4>3 DEF U
      <3>7. CASE ~(j = k /\ m \in U)
        <4>1. U \subseteq T
          <5> SUFFICES ASSUME NEW l \in U PROVE l \in T
            OBVIOUS
          <5>1. j \in passed[l]
            BY <2>1, <3>1, <3>7
          <5> QED
            BY <3>1, <3>2, <5>1
        <4>2. Cardinality(U) <= Cardinality(T)
          BY <3>4, <4>1, FS_Subset
        <4> QED
          BY <3>4, <3>5, <4>2 DEF U
      <3> QED
        BY <3>6, <3>7
    <2>3. LogInv'
      <3>1. ASSUME NEW l \in LogIds, passed'[l] # {} PROVE l <= nLog
        <4>1. l = m \/ passed[l] # {}
          BY <2>1, <3>1
        <4> QED
          BY <1>0, <1>2, <4>1 DEF CapInv, LogInv
      <3>2. ASSUME NEW l \in sent
            PROVE  l \in 1..nLog /\ BucketsOf[logs[l].b] \subseteq passed'[l]
        <4>1. l \in 1..nLog /\ BucketsOf[logs[l].b] \subseteq passed[l]
          BY <3>2 DEF CapInv, LogInv
        <4>2. l \in LogIds
          BY <1>0, <4>1 DEF LogIds
        <4> QED
          BY <2>1, <4>1, <4>2
      <3> QED
        BY <2>0, <3>1, <3>2 DEF LogInv, CapInv
    <2>4. ASSUME NEW q \in Reqs, q # p PROVE ReqHolds(q)'
      <3>1. ReqHolds(q) /\ req'[q] = req[q] /\ nLog' \in Nat /\ nLog <= nLog'
        BY <1>0, <1>4, <2>0, <2>4 DEF CapInv, TypeOK
      <3> QED
        BY <2>0, <2>1, <3>1, ReqFrame
    <2>5. ReqHolds(p)'
      <3>1. /\ req'[p].pc = "s_count" /\ req'[p].log = m /\ req'[p].b = req[p].b
            /\ req'[p].at = req[p].at /\ req'[p].todo = req[p].todo \ {k}
        BY <1>0, <1>1, <1>4 DEF TypeOK, ReqType
      <3>2. BucketsOf[req[p].b] \ (req[p].todo \ {k}) \subseteq passed'[m]
        BY <1>2, <2>1
      <3> QED
        BY <1>2, <2>0, <3>1, <3>2 DEF ReqHolds
    <2> QED
      BY <2>2, <2>3, <2>4, <2>5 DEF CapInv
  <1> QED
    BY <1>3, <1>4 DEF SendCount

\* Handing the message over: by then every bucket has let the send pass.
LEMMA DeliverStep ==
    ASSUME TypeOK, CapInv, NEW p \in Reqs, SendDeliver(p)
    PROVE  CapInv'
  <1> USE SmsAssumption
  <1>1. /\ now' = now /\ logs' = logs /\ nLog' = nLog /\ pruned' = pruned
        /\ passed' = passed /\ sent' = sent \cup {req[p].log}
    BY DEF SendDeliver
  <1>2. req'[p] = IdleReq /\ \A q \in Reqs : q # p => req'[q] = req[q]
    BY DEF SendDeliver, Finish, TypeOK
  <1>3. PassCap'
    BY <1>1, PassCapFrame
  <1>4. LogInv'
    <2>1. ReqHolds(p) /\ req[p].pc = "s_send"
      BY DEF CapInv, SendDeliver
    <2>2. /\ req[p].log \in 1..nLog
          /\ BucketsOf[logs[req[p].log].b] \subseteq passed[req[p].log]
      BY <2>1 DEF ReqHolds
    <2> QED
      BY <1>1, <2>2 DEF LogInv, CapInv
  <1>5. ASSUME NEW q \in Reqs, q # p PROVE ReqHolds(q)'
    <2>1. ReqHolds(q) /\ req'[q] = req[q] /\ nLog' \in Nat /\ nLog <= nLog'
      BY <1>1, <1>2, <1>5 DEF CapInv, TypeOK
    <2> QED
      BY <1>1, <2>1, ReqFrame
  <1> QED
    BY <1>2, <1>3, <1>4, <1>5, IdleHolds DEF CapInv

\* Every step of a request keeps the caps.
LEMMA CapStep ==
    ASSUME TypeOK, TypeOK', CapInv, NEW p \in Reqs, Step(p)
    PROVE  CapInv'
  <1> USE SmsAssumption
  <1>0. req[p] \in ReqType /\ req[p].at \in Nat /\ now \in Nat /\ ReqHolds(p)
    <2>1. req[p] \in ReqType /\ now \in Nat /\ ReqHolds(p)
      BY DEF TypeOK, CapInv
    <2> QED
      BY <2>1 DEF ReqType
  <1>e. ASSUME req'[p] = IdleReq, \A q \in Reqs : q # p => req'[q] = req[q], Quiet
        PROVE  CapInv'
    BY <1>e, IdleHolds, QuietStep
  <1>1. ASSUME NEW b \in Bindings, SendRead(p, b) PROVE CapInv'
    <2>1. /\ req'[p].pc = "s_log" /\ req'[p].at = now
          /\ \A q \in Reqs : q # p => req'[q] = req[q]
      BY <1>1 DEF SendRead, TypeOK, IdleReq
    <2>2. Quiet
      BY <1>1 DEF SendRead, Quiet
    <2>3. ReqHolds(p)'
      BY <1>0, <2>1, <2>2 DEF ReqHolds, Quiet
    <2> QED
      BY <2>1, <2>2, <2>3, QuietStep
  <1>2. ASSUME NEW b \in Bindings, NEW g \in 0..nCode, VerifyRead(p, b, g) PROVE CapInv'
    <2>1. /\ req'[p].pc = "v_reserve" /\ req'[p].at = now
          /\ \A q \in Reqs : q # p => req'[q] = req[q]
      BY <1>2 DEF VerifyRead, TypeOK, IdleReq
    <2>2. Quiet
      BY <1>2 DEF VerifyRead, Quiet
    <2>3. ReqHolds(p)'
      BY <1>0, <2>1, <2>2 DEF ReqHolds, Quiet
    <2> QED
      BY <2>1, <2>2, <2>3, QuietStep
  <1>3. ASSUME NEW k \in Buckets, SendCount(p, k) PROVE CapInv'
    BY <1>3, CountStep
  <1>4. CASE SendLog(p)
    BY <1>4, LogStep
  <1>5. CASE SendStore(p)
    <2>1. Quiet
      BY <1>5 DEF SendStore, Quiet
    <2>2. CASE Finish(p)
      <3>1. req'[p] = IdleReq /\ \A q \in Reqs : q # p => req'[q] = req[q]
        BY <2>2 DEF Finish, TypeOK
      <3> QED
        BY <1>e, <2>1, <3>1
    <2>3. CASE req' = [req EXCEPT ![p].pc = "s_send"]
      <3>1. /\ req'[p].pc = "s_send" /\ req'[p].at = req[p].at /\ req'[p].b = req[p].b
            /\ req'[p].log = req[p].log /\ req'[p].todo = req[p].todo
            /\ \A q \in Reqs : q # p => req'[q] = req[q]
        BY <1>0, <2>3 DEF TypeOK, ReqType
      <3>2. req[p].pc = "s_count" /\ req[p].todo = {}
        BY <1>5 DEF SendStore
      <3>3. ReqHolds(p)'
        BY <1>0, <2>1, <3>1, <3>2 DEF ReqHolds, Quiet
      <3> QED
        BY <2>1, <3>1, <3>3, QuietStep
    <2> QED
      BY <1>5, <2>2, <2>3 DEF SendStore
  <1>6. CASE SendDeliver(p)
    BY <1>6, DeliverStep
  <1>7. CASE VerifyReserve(p)
    <2>1. Quiet
      BY <1>7 DEF VerifyReserve, Quiet
    <2>2. CASE Finish(p)
      <3>1. req'[p] = IdleReq /\ \A q \in Reqs : q # p => req'[q] = req[q]
        BY <2>2 DEF Finish, TypeOK
      <3> QED
        BY <1>e, <2>1, <3>1
    <2>3. CASE req' = [req EXCEPT ![p].pc = "v_claim"]
      <3>1. /\ req'[p].pc = "v_claim" /\ req'[p].at = req[p].at
            /\ \A q \in Reqs : q # p => req'[q] = req[q]
        BY <1>0, <2>3 DEF TypeOK, ReqType
      <3>2. req[p].pc = "v_reserve"
        BY <1>7 DEF VerifyReserve
      <3>3. ReqHolds(p)'
        BY <1>0, <2>1, <3>1, <3>2 DEF ReqHolds, Quiet
      <3> QED
        BY <2>1, <3>1, <3>3, QuietStep
    <2> QED
      BY <1>7, <2>2, <2>3 DEF VerifyReserve
  <1>8. CASE VerifyClaim(p) \/ Abort(p)
    <2>1. Quiet /\ Finish(p)
      BY <1>8 DEF VerifyClaim, Abort, Quiet
    <2>2. req'[p] = IdleReq /\ \A q \in Reqs : q # p => req'[q] = req[q]
      BY <2>1 DEF Finish, TypeOK
    <2> QED
      BY <1>e, <2>1, <2>2
  <1> QED
    BY <1>1, <1>2, <1>3, <1>4, <1>5, <1>6, <1>7, <1>8 DEF Step

\* So does every other step: the cleanup prunes only rows no count can need.
LEMMA CapNext == TypeOK /\ TypeOK' /\ CapInv /\ [Next]_vars => CapInv'
  <1> SUFFICES ASSUME TypeOK, TypeOK', CapInv, [Next]_vars PROVE CapInv'
    OBVIOUS
  <1> USE SmsAssumption
  <1>0. now \in Nat /\ nLog \in Nat
    BY DEF TypeOK
  <1>1. ASSUME NEW p \in Reqs, Step(p) PROVE CapInv'
    BY <1>1, CapStep
  <1>2. CASE Cleanup
    <2>1. /\ now' = now /\ logs' = logs /\ nLog' = nLog /\ passed' = passed
          /\ sent' = sent /\ req' = req
          /\ pruned' = pruned \cup {l \in 1..nLog : logs[l].at < now - LogRetention}
      BY <1>2 DEF Cleanup
    <2>2. PassCap'
      BY <2>1, PassCapFrame
    <2>3. LogInv'
      BY <1>0, <2>1 DEF CapInv, LogInv
    <2>4. ASSUME NEW q \in Reqs PROVE ReqHolds(q)'
      BY <1>0, <2>1, <2>4, ReqFrame DEF CapInv
    <2> QED
      BY <2>2, <2>3, <2>4 DEF CapInv
  <1>3. CASE Tick
    <2>1. /\ now' = now + 1 /\ logs' = logs /\ nLog' = nLog /\ passed' = passed
          /\ sent' = sent /\ req' = req /\ pruned' = pruned
      BY <1>3 DEF Tick
    <2>2. PassCap'
      BY <2>1, PassCapFrame
    <2>3. LogInv'
      <3>1. ASSUME NEW l \in pruned PROVE l <= nLog /\ logs[l].at < now' - LogRetention
        <4>1. l <= nLog /\ logs[l].at < now - LogRetention /\ logs[l].at \in Nat
          BY <3>1 DEF CapInv, LogInv, TypeOK
        <4> QED
          BY <1>0, <2>1, <4>1
      <3> QED
        BY <2>1, <3>1 DEF CapInv, LogInv
    <2>4. ASSUME NEW q \in Reqs PROVE ReqHolds(q)'
      BY <1>0, <1>3, <2>1, <2>4, ReqFrame DEF CapInv
    <2> QED
      BY <2>2, <2>3, <2>4 DEF CapInv
  <1>4. ASSUME Quiet, req' = req PROVE CapInv'
    <2>1. Quiet /\ req' = req
      BY <1>4
    <2>2. PassCap' /\ LogInv'
      BY <2>1, PassCapFrame, LogFrame DEF Quiet, CapInv
    <2>3. ASSUME NEW q \in Reqs PROVE ReqHolds(q)'
      BY <1>0, <2>1, <2>3, ReqFrame DEF CapInv, Quiet
    <2> QED
      BY <2>2, <2>3 DEF CapInv
  <1>5. ASSUME NEW b \in Bindings, DisableSms(b) PROVE CapInv'
    BY <1>4, <1>5 DEF DisableSms, Quiet
  <1>6. CASE UNCHANGED vars
    BY <1>4, <1>6 DEF vars, Quiet
  <1> QED
    BY <1>1, <1>2, <1>3, <1>5, <1>6 DEF Next

(* However sends of a user, a phone, an address or a realm overlap, fail or  *)
(* are retried, no window of the bucket's length sees more messages than the *)
(* bucket's limit: sendCode logs its send before it counts.                  *)
THEOREM SendsCapped == Spec => []SendCap
  <1>1. Init => TypeOK /\ CapInv
    BY TypeInit, CapInit
  <1>2. (TypeOK /\ CapInv) /\ [Next]_vars => (TypeOK /\ CapInv)'
    BY TypeNext, CapNext
  <1>3. TypeOK /\ CapInv => SendCap
    BY CapInvImplies
  <1> QED
    BY <1>1, <1>2, <1>3, PTL DEF Spec

-----------------------------------------------------------------------------
(* The budgets of a challenge, and single use of its codes.  The row counts *)
(* guesses and sends; it may be deleted only once no request of its         *)
(* challenge can be in flight any more, which is why it may be gone while   *)
(* the budget stays spent.                                                  *)

InTime == now <= BindingTTL + MaxLatency

Budget(b) ==
    /\ Open(b) => guesses[b] <= MaxAttempts /\ stored[b] <= MaxSends
    /\ Exists(b) => row[b].expiresAt >= CodeTTL
    /\ Open(b) /\ Exists(b) =>
          guesses[b] = row[b].attempts /\ stored[b] = row[b].sends
    /\ Open(b) /\ ~Exists(b) /\ InTime => guesses[b] = 0 /\ stored[b] = 0

\* Codes are fresh: those on rows differ from each other and from those accepted.
Fresh(b) ==
    /\ Exists(b) => row[b].code <= nCode
    /\ \A w \in wins[b] : w[1] <= nCode
    /\ \A c \in Bindings : \A w \in wins[c] : Exists(b) => row[b].code # w[1]
    /\ \A c \in Bindings : Exists(b) /\ Exists(c) /\ row[b].code = row[c].code => b = c

\* A request in flight was admitted with a live flow token, and verifies a row it saw.
Admitted(p) ==
    /\ req[p].pc # "idle" => req[p].at <= BindingTTL /\ now <= req[p].at + MaxLatency
    /\ req[p].pc \in {"v_reserve", "v_claim"} => req[p].id # 0

ChalInv == /\ \A b \in Bindings : Budget(b) /\ Fresh(b)
           /\ SingleUse
           /\ \A p \in Reqs : Admitted(p)

\* The challenges' rows and their histories are left alone.
RowsKept == UNCHANGED <<row, nCode, guesses, stored, wins, wiped>>

\* Every budget is unspent at first.
LEMMA ChalInit == Init => ChalInv
  <1> SUFFICES ASSUME Init PROVE ChalInv
    OBVIOUS
  <1>1. ASSUME NEW b \in Bindings PROVE Budget(b) /\ Fresh(b)
    BY <1>1, SmsAssumption DEF Init, Budget, Fresh, Exists, NoRow, Open
  <1>2. SingleUse
    BY DEF Init, SingleUse
  <1>3. ASSUME NEW p \in Reqs PROVE Admitted(p)
    BY <1>3 DEF Init, Admitted, IdleReq
  <1> QED
    BY <1>1, <1>2, <1>3 DEF ChalInv

\* A step that leaves the rows alone keeps budgets and codes, as time only grows.
LEMMA RowFrame ==
    ASSUME TypeOK, RowsKept, now' \in Nat, now <= now',
           \A b \in Bindings : Budget(b) /\ Fresh(b), SingleUse
    PROVE  (\A b \in Bindings : Budget(b)' /\ Fresh(b)') /\ SingleUse'
  <1>1. now \in Nat
    BY DEF TypeOK
  <1>2. InTime' => InTime
    BY <1>1, SmsAssumption DEF InTime
  <1>3. ASSUME NEW b \in Bindings PROVE Budget(b)' /\ Fresh(b)'
    <2>1. Budget(b) /\ Fresh(b) /\ (Exists(b)' <=> Exists(b))
      BY <1>3 DEF RowsKept, Exists
    <2>2. Budget(b)'
      BY <1>2, <2>1 DEF Budget, RowsKept, Open
    <2>3. Fresh(b)'
      BY <2>1 DEF Fresh, RowsKept, Exists
    <2> QED
      BY <2>2, <2>3
  <1>4. SingleUse'
    BY DEF SingleUse, RowsKept
  <1> QED
    BY <1>3, <1>4

\* A request that does not move stays admitted while time stands still.
LEMMA AdmitFrame ==
    ASSUME NEW p \in Reqs, Admitted(p), req'[p] = req[p], now' = now
    PROVE  Admitted(p)'
  BY DEF Admitted

\* A first code or a resent one: the code is new, and the counters go together.
LEMMA StoreStep ==
    ASSUME TypeOK, ChalInv, NEW p \in Reqs, SendStore(p), ~RowsKept
    PROVE  (\A b \in Bindings : Budget(b)' /\ Fresh(b)') /\ SingleUse'
  <1> USE SmsAssumption
  <1> DEFINE b == req[p].b
             t == req[p].at
  <1>0. /\ b \in Bindings /\ t \in Nat /\ row[b] \in RowType /\ nCode \in Nat /\ nRow \in Nat
        /\ now \in Nat /\ guesses[b] \in Nat /\ stored[b] \in Nat
    <2>1. req[p] \in ReqType
      BY DEF TypeOK
    <2>2. b \in Bindings /\ t \in Nat
      BY <2>1 DEF ReqType
    <2> QED
      BY <2>2 DEF TypeOK
  <1>1. InTime
    <2>1. Admitted(p) /\ req[p].pc = "s_count"
      BY DEF ChalInv, SendStore
    <2> QED
      BY <1>0, <2>1 DEF Admitted, InTime
  <1>2. /\ nCode' = nCode + 1 /\ stored' = [stored EXCEPT ![b] = @ + 1]
        /\ now' = now /\ guesses' = guesses /\ wins' = wins
        /\ wiped' = wiped
    BY DEF SendStore, RowsKept
  <1>3. \/ req[p].id # 0 /\ ResendAllowed(p) /\ row' = [row EXCEPT ![b] = ResentRow(p)]
        \/ ~Exists(b) /\ row' = [row EXCEPT ![b] = FirstRow(p)]
    BY DEF SendStore, RowsKept
  <1>4. /\ \A c \in Bindings : c # b => row'[c] = row[c] /\ stored'[c] = stored[c]
        /\ stored'[b] = stored[b] + 1
    BY <1>0, <1>2, <1>3 DEF TypeOK
  <1>5. /\ row'[b].id # 0 /\ row'[b].code = nCode + 1 /\ row'[b].expiresAt = t + CodeTTL
        /\ \/ /\ Exists(b) /\ row[b].sends < MaxSends
              /\ row'[b].attempts = row[b].attempts /\ row'[b].sends = row[b].sends + 1
           \/ ~Exists(b) /\ row'[b].attempts = 0 /\ row'[b].sends = 1
    <2>1. CASE req[p].id # 0 /\ ResendAllowed(p) /\ row' = [row EXCEPT ![b] = ResentRow(p)]
      <3>1. row'[b] = ResentRow(p) /\ row[b].id # 0 /\ row[b].sends < MaxSends
        BY <1>0, <2>1 DEF TypeOK, ResendAllowed
      <3>2. /\ ResentRow(p).id = row[b].id /\ ResentRow(p).code = nCode + 1
            /\ ResentRow(p).expiresAt = t + CodeTTL
            /\ ResentRow(p).attempts = row[b].attempts
            /\ ResentRow(p).sends = row[b].sends + 1
        BY <1>0 DEF ResentRow, RowType
      <3> QED
        BY <3>1, <3>2 DEF Exists
    <2>2. CASE ~Exists(b) /\ row' = [row EXCEPT ![b] = FirstRow(p)]
      <3>1. row'[b] = FirstRow(p)
        BY <1>0, <2>2 DEF TypeOK
      <3> QED
        BY <1>0, <2>2, <3>1 DEF FirstRow
    <2> QED
      BY <1>3, <2>1, <2>2
  <1>6. ASSUME NEW c \in Bindings PROVE Budget(c)'
    <2>1. Budget(c)
      BY <1>6 DEF ChalInv
    <2>2. CASE c # b
      BY <1>2, <1>4, <2>1, <2>2 DEF Budget, Exists, InTime, Open
    <2>3. CASE c = b
      <3>1. Exists(c)' /\ row'[c].expiresAt >= CodeTTL
        BY <1>0, <1>5, <2>3 DEF Exists
      <3>2. ASSUME Open(c)
            PROVE  /\ guesses[b] = row'[b].attempts /\ guesses[b] <= MaxAttempts
                   /\ stored'[b] = row'[b].sends /\ stored'[b] <= MaxSends
        <4>1. guesses[b] <= MaxAttempts
          BY <2>1, <2>3, <3>2 DEF Budget
        <4>2. CASE Exists(b)
          BY <1>0, <1>4, <1>5, <2>1, <2>3, <3>2, <4>1, <4>2 DEF Budget, RowType
        <4>3. CASE ~Exists(b)
          BY <1>0, <1>1, <1>4, <1>5, <2>1, <2>3, <3>2, <4>1, <4>3 DEF Budget
        <4> QED
          BY <4>2, <4>3
      <3>3. Open(c)' => /\ guesses'[c] = row'[c].attempts /\ guesses'[c] <= MaxAttempts
                             /\ stored'[c] = row'[c].sends /\ stored'[c] <= MaxSends
        BY <1>2, <2>3, <3>2 DEF Open
      <3> QED
        BY <3>1, <3>3 DEF Budget
    <2> QED
      BY <2>2, <2>3
  <1>7. ASSUME NEW c \in Bindings PROVE Fresh(c)'
    <2>1. \A d \in Bindings : Fresh(d)
      BY DEF ChalInv
    <2>2. \A d \in Bindings : row[d] \in RowType /\ row[d].code \in Nat
      BY DEF TypeOK, RowType
    <2>3. \A d \in Bindings : \A w \in wins[d] : w[1] \in Nat /\ w[1] <= nCode
      BY <2>1 DEF Fresh, TypeOK
    <2>4. \A d \in Bindings : d # b => (Exists(d)' <=> Exists(d)) /\ row'[d] = row[d]
      BY <1>4 DEF Exists
    <2>5. Exists(c)' => row'[c].code <= nCode'
      <3>1. CASE c = b
        BY <1>0, <1>2, <1>5, <3>1
      <3>2. CASE c # b
        BY <1>0, <1>2, <1>7, <2>1, <2>2, <2>4, <3>2 DEF Fresh
      <3> QED
        BY <3>1, <3>2
    <2>6. \A w \in wins[c] : w[1] <= nCode'
      BY <1>0, <1>2, <1>7, <2>3
    <2>7. ASSUME NEW d \in Bindings, NEW w \in wins[d], Exists(c)'
          PROVE  row'[c].code # w[1]
      <3>1. CASE c = b
        <4>1. w[1] \in Nat /\ w[1] <= nCode /\ row'[c].code = nCode + 1
          BY <1>5, <2>3, <2>7, <3>1
        <4> QED
          BY <1>0, <4>1
      <3>2. CASE c # b
        BY <1>7, <2>1, <2>4, <2>7, <3>2 DEF Fresh
      <3> QED
        BY <3>1, <3>2
    <2>8. ASSUME NEW d \in Bindings, Exists(c)', Exists(d)', row'[c].code = row'[d].code
          PROVE  c = d
      <3>1. \A e \in Bindings : e # b /\ Exists(e)' => row'[e].code # nCode + 1
        <4>1. \A e \in Bindings : e # b /\ Exists(e)' =>
                 row'[e].code \in Nat /\ row'[e].code <= nCode
          BY <2>1, <2>2, <2>4 DEF Fresh
        <4>2. \A n \in Nat : n <= nCode => n # nCode + 1
          BY <1>0
        <4> QED
          BY <4>1, <4>2
      <3>2. CASE c # b /\ d # b
        BY <1>7, <2>1, <2>4, <2>8, <3>2 DEF Fresh
      <3> QED
        BY <1>5, <1>7, <2>8, <3>1, <3>2
    <2> QED
      BY <1>2, <2>5, <2>6, <2>7, <2>8 DEF Fresh
  <1>8. SingleUse'
    BY <1>2 DEF ChalInv, SingleUse
  <1> QED
    BY <1>6, <1>7, <1>8

\* A guess: the row's counter and the comparisons made go together.
LEMMA ReserveStep ==
    ASSUME TypeOK, ChalInv, NEW p \in Reqs, VerifyReserve(p), ~RowsKept
    PROVE  (\A b \in Bindings : Budget(b)' /\ Fresh(b)') /\ SingleUse'
  <1> USE SmsAssumption
  <1> DEFINE b == req[p].b
  <1>0. /\ b \in Bindings /\ row[b] \in RowType /\ row[b].attempts \in 0..MaxAttempts
        /\ guesses[b] \in Nat
    <2>1. req[p] \in ReqType
      BY DEF TypeOK
    <2>2. b \in Bindings
      BY <2>1 DEF ReqType
    <2>3. row[b] \in RowType
      BY <2>2 DEF TypeOK
    <2> QED
      BY <2>2, <2>3 DEF TypeOK, RowType
  <1>1. /\ row[b].id = req[p].id /\ row[b].attempts < MaxAttempts
        /\ row' = [row EXCEPT ![b].attempts = @ + 1]
        /\ guesses' = [guesses EXCEPT ![b] = @ + 1]
        /\ now' = now /\ nCode' = nCode /\ stored' = stored /\ wins' = wins
        /\ wiped' = wiped
    BY DEF VerifyReserve, RowsKept
  <1>2. Exists(b)
    BY <1>1 DEF ChalInv, Admitted, VerifyReserve, Exists
  <1>3. /\ \A c \in Bindings : c # b => row'[c] = row[c] /\ guesses'[c] = guesses[c]
        /\ guesses'[b] = guesses[b] + 1 /\ row'[b].attempts = row[b].attempts + 1
        /\ row'[b].id = row[b].id /\ row'[b].code = row[b].code
        /\ row'[b].sends = row[b].sends /\ row'[b].expiresAt = row[b].expiresAt
    BY <1>0, <1>1 DEF TypeOK, RowType
  <1>4. \A c \in Bindings : /\ Exists(c)' <=> Exists(c)
                            /\ row'[c].code = row[c].code
    BY <1>3 DEF Exists
  <1>5. ASSUME NEW c \in Bindings PROVE Budget(c)'
    <2>1. Budget(c)
      BY <1>5 DEF ChalInv
    <2>2. CASE c # b
      BY <1>1, <1>3, <1>4, <2>1, <2>2 DEF Budget, InTime, Open
    <2>3. CASE c = b
      <3>1. Open(c) => /\ guesses'[b] = row'[b].attempts /\ guesses'[b] <= MaxAttempts
                            /\ stored[b] = row[b].sends /\ stored[b] <= MaxSends
        BY <1>0, <1>1, <1>2, <1>3, <2>1, <2>3 DEF Budget
      <3> QED
        BY <1>1, <1>2, <1>3, <1>4, <2>1, <2>3, <3>1 DEF Budget, Open
    <2> QED
      BY <2>2, <2>3
  <1>6. ASSUME NEW c \in Bindings PROVE Fresh(c)'
    <2>1. Fresh(c)
      BY <1>6 DEF ChalInv
    <2> QED
      BY <1>1, <1>4, <1>6, <2>1 DEF Fresh
  <1>7. SingleUse'
    BY <1>1 DEF ChalInv, SingleUse
  <1> QED
    BY <1>5, <1>6, <1>7

\* An accepted code was on the row until now, so it was not accepted before.
LEMMA ClaimStep ==
    ASSUME TypeOK, ChalInv, NEW p \in Reqs, VerifyClaim(p), ~RowsKept
    PROVE  (\A b \in Bindings : Budget(b)' /\ Fresh(b)') /\ SingleUse'
  <1> DEFINE b == req[p].b
             v == <<row[b].code, p>>
  <1>0. b \in Bindings
    BY DEF TypeOK, ReqType
  <1>1. /\ row[b].id = req[p].id
        /\ row' = [row EXCEPT ![b] = NoRow]
        /\ wins' = [wins EXCEPT ![b] = @ \cup {v}]
        /\ now' = now /\ nCode' = nCode /\ stored' = stored /\ guesses' = guesses
        /\ wiped' = wiped
    BY DEF VerifyClaim, RowsKept
  <1>2. Exists(b)
    BY <1>1 DEF ChalInv, Admitted, VerifyClaim, Exists
  <1>3. /\ \A c \in Bindings : c # b => row'[c] = row[c] /\ wins'[c] = wins[c]
        /\ row'[b] = NoRow /\ wins'[b] = wins[b] \cup {v} /\ v[1] = row[b].code
    BY <1>0, <1>1 DEF TypeOK
  <1>4. \A c \in Bindings : IF c = b THEN ~Exists(c)' ELSE Exists(c)' <=> Exists(c)
    BY <1>3 DEF Exists, NoRow
  <1> HIDE DEF v
  <1>5. ASSUME NEW c \in Bindings PROVE Budget(c)'
    <2>1. Budget(c)
      BY <1>5 DEF ChalInv
    <2>2. CASE c # b
      BY <1>1, <1>3, <1>4, <2>1, <2>2 DEF Budget, InTime, Open
    <2>3. CASE c = b
      BY <1>3, <1>4, <2>3 DEF Budget, Open
    <2> QED
      BY <2>2, <2>3
  <1>6. ASSUME NEW c \in Bindings PROVE Fresh(c)'
    <2>1. Fresh(c) /\ Fresh(b)
      BY <1>0, <1>6 DEF ChalInv
    <2>2. Exists(c)' => c # b /\ Exists(c) /\ row'[c] = row[c]
      BY <1>3, <1>4, <1>6
    <2>3. \A d \in Bindings : \A w \in wins'[d] : w \in wins[d] \/ w = v
      BY <1>3
    <2>4. \A w \in wins'[c] : w[1] <= nCode'
      BY <1>1, <1>2, <1>3, <1>6, <2>1, <2>3 DEF Fresh
    <2>5. ASSUME NEW d \in Bindings, NEW w \in wins'[d], Exists(c)'
          PROVE  row'[c].code # w[1]
      BY <1>0, <1>2, <1>3, <2>1, <2>2, <2>3, <2>5 DEF Fresh
    <2>6. ASSUME NEW d \in Bindings, Exists(c)', Exists(d)', row'[c].code = row'[d].code
          PROVE  c = d
      <3>1. Exists(d) /\ row'[d] = row[d]
        BY <1>3, <1>4, <2>6
      <3> QED
        BY <2>1, <2>2, <2>6, <3>1 DEF Fresh
    <2>7. Exists(c)' => row'[c].code <= nCode'
      BY <1>1, <2>1, <2>2 DEF Fresh
    <2> QED
      BY <2>4, <2>5, <2>6, <2>7 DEF Fresh
  <1>7. SingleUse'
    <2> SUFFICES ASSUME NEW c \in Bindings, NEW d \in Bindings, NEW w1 \in wins'[c],
                        NEW w2 \in wins'[d], w1[1] = w2[1]
                 PROVE  c = d /\ w1 = w2
      BY DEF SingleUse
    <2>1. /\ w1 \in wins[c] \/ (c = b /\ w1 = v)
          /\ w2 \in wins[d] \/ (d = b /\ w2 = v)
      BY <1>3
    <2>2. \A e \in Bindings : \A w \in wins[e] : w[1] # v[1]
      BY <1>0, <1>2, <1>3 DEF ChalInv, Fresh
    <2> QED
      BY <2>1, <2>2 DEF ChalInv, SingleUse
  <1> QED
    BY <1>5, <1>6, <1>7

\* The cleanup deletes a row only when no request of its challenge is in flight.
LEMMA CleanupStep ==
    ASSUME TypeOK, ChalInv, Cleanup
    PROVE  (\A b \in Bindings : Budget(b)' /\ Fresh(b)') /\ SingleUse'
  <1> USE SmsAssumption
  <1>1. /\ now' = now /\ nCode' = nCode /\ wins' = wins /\ guesses' = guesses
        /\ stored' = stored /\ wiped' = wiped
    BY DEF Cleanup, history
  <1>2. ASSUME NEW b \in Bindings
        PROVE  \/ row'[b] = row[b]
               \/ row'[b].id = 0 /\ row[b].expiresAt < now - Retention
    BY <1>2 DEF Cleanup, NoRow
  <1>3. ASSUME NEW b \in Bindings, row'[b] # row[b], Exists(b) PROVE ~InTime
    <2>1. row[b].expiresAt < now - Retention /\ row[b].expiresAt >= CodeTTL
      BY <1>2, <1>3 DEF ChalInv, Budget
    <2>2. row[b].expiresAt \in Nat /\ now \in Nat
      BY <1>3 DEF TypeOK, RowType
    <2>3. BindingTTL + MaxLatency <= Retention + CodeTTL
      BY RetentionAssumption
    <2> QED
      BY <2>1, <2>2, <2>3 DEF InTime
  <1>4. ASSUME NEW b \in Bindings PROVE Budget(b)'
    <2>1. Budget(b)
      BY <1>4 DEF ChalInv
    <2>2. CASE row'[b] = row[b]
      BY <1>1, <2>1, <2>2 DEF Budget, Exists, InTime, Open
    <2>3. CASE row'[b] # row[b]
      <3>1. ~Exists(b)' /\ (InTime' => InTime)
        BY <1>1, <1>2, <1>4, <2>3 DEF Exists, InTime
      <3>2. Exists(b) => ~InTime
        BY <1>3, <1>4, <2>3
      <3> QED
        BY <1>1, <2>1, <3>1, <3>2 DEF Budget, Open
    <2> QED
      BY <2>2, <2>3
  <1>5. ASSUME NEW b \in Bindings PROVE Fresh(b)'
    <2>1. Fresh(b)
      BY <1>5 DEF ChalInv
    <2>2. \A c \in Bindings : Exists(c)' => Exists(c) /\ row'[c] = row[c]
      BY <1>2 DEF Exists
    <2> QED
      BY <1>1, <1>5, <2>1, <2>2 DEF Fresh
  <1>6. SingleUse'
    BY <1>1 DEF ChalInv, SingleUse
  <1> QED
    BY <1>4, <1>5, <1>6

\* Removing the phone closes the challenge.
LEMMA DisableStep ==
    ASSUME TypeOK, ChalInv, NEW b \in Bindings, DisableSms(b)
    PROVE  (\A c \in Bindings : Budget(c)' /\ Fresh(c)') /\ SingleUse'
  <1>1. /\ row' = [row EXCEPT ![b] = NoRow] /\ wiped' = wiped \cup {b}
        /\ now' = now /\ nCode' = nCode /\ wins' = wins /\ guesses' = guesses
        /\ stored' = stored
    BY DEF DisableSms
  <1>2. /\ ~Exists(b)' /\ ~Open(b)'
        /\ \A c \in Bindings : c # b => /\ row'[c] = row[c] /\ (Exists(c)' <=> Exists(c))
                                        /\ Open(c)' <=> Open(c)
    BY <1>1 DEF TypeOK, Exists, Open, NoRow
  <1>3. ASSUME NEW c \in Bindings PROVE Budget(c)'
    <2>1. Budget(c)
      BY <1>3 DEF ChalInv
    <2>2. CASE c = b
      BY <1>2, <2>2 DEF Budget
    <2>3. CASE c # b
      BY <1>1, <1>2, <1>3, <2>1, <2>3 DEF Budget, InTime
    <2> QED
      BY <2>2, <2>3
  <1>4. ASSUME NEW c \in Bindings PROVE Fresh(c)'
    <2>1. Fresh(c)
      BY <1>4 DEF ChalInv
    <2>2. \A d \in Bindings : Exists(d)' => Exists(d) /\ row'[d] = row[d]
      BY <1>2
    <2> QED
      BY <1>1, <1>4, <2>1, <2>2 DEF Fresh
  <1>5. SingleUse'
    BY <1>1 DEF ChalInv, SingleUse
  <1> QED
    BY <1>3, <1>4, <1>5

\* Every step keeps budgets, fresh codes and single use.
LEMMA ChalNext == TypeOK /\ TypeOK' /\ ChalInv /\ [Next]_vars => ChalInv'
  <1> SUFFICES ASSUME TypeOK, TypeOK', ChalInv, [Next]_vars PROVE ChalInv'
    OBVIOUS
  <1> USE SmsAssumption
  <1>0. now \in Nat /\ now' \in Nat /\ (now' = now => now <= now')
    BY DEF TypeOK
  <1>1. ASSUME RowsKept, now <= now', \A p \in Reqs : Admitted(p)' PROVE ChalInv'
    BY <1>0, <1>1, RowFrame DEF ChalInv
  <1>2. ASSUME NEW p \in Reqs, Step(p) PROVE ChalInv'
    <2>1. now' = now /\ \A q \in Reqs : q # p => req'[q] = req[q]
      BY <1>2 DEF Step, SendRead, VerifyRead, SendCount, SendLog, SendStore, SendDeliver,
                  VerifyReserve, VerifyClaim, Abort, Finish, TypeOK
    <2>2. Admitted(p)'
      <3>1. Admitted(p) /\ req[p] \in ReqType
        BY DEF ChalInv, TypeOK
      <3>2. CASE req'[p].pc = "idle"
        BY <3>2 DEF Admitted
      <3>3. ASSUME NEW b \in Bindings, SendRead(p, b) PROVE Admitted(p)'
        <4>1. req'[p].pc = "s_log" /\ req'[p].at = now
          BY <3>3 DEF SendRead, TypeOK, IdleReq
        <4> QED
          BY <1>0, <2>1, <3>3, <4>1 DEF Admitted, SendRead, Alive
      <3>4. ASSUME NEW b \in Bindings, NEW g \in 0..nCode, VerifyRead(p, b, g)
            PROVE  Admitted(p)'
        <4>1. req'[p].pc = "v_reserve" /\ req'[p].at = now /\ req'[p].id = row[b].id
          BY <3>4 DEF VerifyRead, TypeOK, IdleReq
        <4> QED
          BY <1>0, <2>1, <3>4, <4>1 DEF Admitted, VerifyRead, Alive, Exists
      <3>5. CASE /\ req[p].pc # "idle" /\ req'[p].at = req[p].at /\ req'[p].id = req[p].id
                 /\ req'[p].pc \in {"v_reserve", "v_claim"}
                       => req[p].pc \in {"v_reserve", "v_claim"}
        BY <2>1, <3>1, <3>5 DEF Admitted
      <3>6. CASE SendLog(p)
        BY <3>1, <3>5, <3>6 DEF SendLog, TypeOK, ReqType
      <3>7. ASSUME NEW k \in Buckets, SendCount(p, k) PROVE Admitted(p)'
        <4>1. req[p].pc = "s_count"
          BY <3>7 DEF SendCount
        <4>2. CASE Finish(p)
          BY <3>2, <4>2 DEF Finish, TypeOK, IdleReq
        <4>3. CASE req' = [req EXCEPT ![p].todo = @ \ {k}]
          BY <3>1, <3>5, <4>1, <4>3 DEF TypeOK, ReqType
        <4> QED
          BY <3>7, <4>2, <4>3 DEF SendCount
      <3>8. CASE SendStore(p)
        BY <3>1, <3>2, <3>5, <3>8 DEF SendStore, Finish, TypeOK, ReqType, IdleReq
      <3>9. CASE VerifyReserve(p)
        BY <3>1, <3>2, <3>5, <3>9 DEF VerifyReserve, Finish, TypeOK, ReqType, IdleReq
      <3>10. CASE SendDeliver(p) \/ VerifyClaim(p) \/ Abort(p)
        BY <3>2, <3>10 DEF SendDeliver, VerifyClaim, Abort, Finish, TypeOK, IdleReq
      <3> QED
        BY <1>2, <3>3, <3>4, <3>6, <3>7, <3>8, <3>9, <3>10 DEF Step
    <2>3. \A q \in Reqs : Admitted(q)'
      <3>1. ASSUME NEW q \in Reqs, q # p PROVE Admitted(q)'
        BY <2>1, <3>1, AdmitFrame DEF ChalInv
      <3> QED
        BY <2>2, <3>1
    <2>4. CASE RowsKept
      BY <1>0, <1>1, <2>1, <2>3, <2>4
    <2>5. ASSUME ~RowsKept
          PROVE  (\A b \in Bindings : Budget(b)' /\ Fresh(b)') /\ SingleUse'
      <3>1. SendStore(p) \/ VerifyReserve(p) \/ VerifyClaim(p)
        BY <1>2, <2>5 DEF Step, RowsKept, history, SendRead, VerifyRead, SendCount,
                          SendLog, SendStore, SendDeliver, Abort, Finish
      <3> QED
        BY <2>5, <3>1, StoreStep, ReserveStep, ClaimStep
    <2> QED
      BY <2>3, <2>4, <2>5 DEF ChalInv
  <1>3. CASE Cleanup
    <2>1. \A q \in Reqs : Admitted(q)'
      BY <1>3, AdmitFrame DEF ChalInv, Cleanup
    <2> QED
      BY <1>3, <2>1, CleanupStep DEF ChalInv
  <1>4. CASE Tick
    <2>1. RowsKept /\ now <= now' /\ req' = req
      BY <1>0, <1>4 DEF Tick, RowsKept, history
    <2>2. ASSUME NEW q \in Reqs PROVE Admitted(q)'
      <3>1. req[q].at \in Nat
        BY <2>2 DEF TypeOK, ReqType
      <3> QED
        BY <1>0, <1>4, <2>1, <2>2, <3>1 DEF Tick, ChalInv, Admitted
    <2> QED
      BY <1>1, <2>1, <2>2
  <1>5. CASE UNCHANGED vars
    <2>1. RowsKept /\ now' = now /\ req' = req
      BY <1>5 DEF vars, RowsKept
    <2>2. \A q \in Reqs : Admitted(q)'
      BY <2>1, AdmitFrame DEF ChalInv
    <2> QED
      BY <1>0, <1>1, <2>1, <2>2
  <1>6. ASSUME NEW b \in Bindings, DisableSms(b) PROVE ChalInv'
    <2>1. \A q \in Reqs : Admitted(q)'
      BY <1>6, AdmitFrame DEF ChalInv, DisableSms
    <2> QED
      BY <1>6, <2>1, DisableStep DEF ChalInv
  <1> QED
    BY <1>2, <1>3, <1>4, <1>5, <1>6 DEF Next

(* TypeOK and ChalInv together are inductive.                                *)
LEMMA ChalInvariant == Spec => [](TypeOK /\ ChalInv)
  <1>1. Init => TypeOK /\ ChalInv
    BY TypeInit, ChalInit
  <1>2. (TypeOK /\ ChalInv) /\ [Next]_vars => (TypeOK /\ ChalInv)'
    BY TypeNext, ChalNext
  <1> QED
    BY <1>1, <1>2, PTL DEF Spec

(* Before a code of a challenge is accepted, it is compared with at most     *)
(* SMS_OTP_MAX_ATTEMPTS guesses and at most SMS_OTP_MAX_SENDS codes are      *)
(* stored for it, over all its resends, racing requests and rows.            *)
THEOREM BudgetsHold == Spec => []ChallengeBudgets
  <1>1. ChalInv => ChallengeBudgets
    BY DEF ChalInv, Budget, ChallengeBudgets
  <1> QED
    BY <1>1, ChalInvariant, PTL

(* No code is accepted twice, whichever requests verify it at the same time. *)
THEOREM CodeAcceptedOnce == Spec => []SingleUse
  <1>1. ChalInv => SingleUse
    BY DEF ChalInv
  <1> QED
    BY <1>1, ChalInvariant, PTL
=============================================================================
