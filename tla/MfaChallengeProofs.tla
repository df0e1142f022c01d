------------------------- MODULE MfaChallengeProofs -------------------------
(***************************************************************************)
(* Proofs about MfaChallenge: the attempt budget, one sign-in per          *)
(* challenge and the replay guard, for any number of requests, instances,  *)
(* challenges and codes.                                                   *)
(***************************************************************************)
EXTENDS MfaChallenge, TLAPS

-----------------------------------------------------------------------------
(* Typing.  TypeOK alone is not inductive: a request that looks up or marks *)
(* a code holds one, and a request that answers a challenge names one.      *)

RowType == [live : BOOLEAN, attempts : 0..MaxAttempts, createdAt : Nat]

Located(x) ==
    /\ x.pc \in {"cache", "db", "mark", "mark_cache"} => x.code \in TotpCodes
    /\ x.pc \in {"discard", "read", "cache", "db", "mark", "mark_cache", "claim"}
         => x.chal \in Challenges

LocatedReq == {x \in AnswerType : Located(x)}

TypeInv == McTypeOK /\ ans \in [McReqs -> LocatedReq]

\* The idle request has its type.
LEMMA IdleTyped == AnyI \in Instances /\ IdleAnswer \in AnswerType /\ IdleAnswer \in LocatedReq
  <1>1. AnyI \in Instances
    BY ChallengeAssumption DEF AnyI
  <1>2. IdleAnswer \in AnswerType
    BY <1>1 DEF IdleAnswer, AnswerType
  <1> QED
    BY <1>1, <1>2 DEF IdleAnswer, LocatedReq, Located

\* A request takes up a new value, or ends.
LEMMA ReqTyped ==
    ASSUME TypeInv, NEW r \in McReqs, NEW x \in LocatedReq
    PROVE  /\ [ans EXCEPT ![r] = IdleAnswer] \in [McReqs -> LocatedReq]
           /\ [ans EXCEPT ![r] = x] \in [McReqs -> LocatedReq]
  BY IdleTyped DEF TypeInv

\* A request that ends leaves a typed slot.
LEMMA FinishTyped ==
    ASSUME TypeInv, NEW r \in McReqs, McFinish(r)
    PROVE  ans' \in [McReqs -> LocatedReq]
  BY IdleTyped DEF TypeInv, McFinish

\* A request with a code and a challenge moves to another label.
LEMMA GotoTyped ==
    ASSUME TypeInv, NEW r \in McReqs,
           NEW label \in {"create", "db", "mark_cache", "claim"}, McGoto(r, label),
           label = "create" \/ ans[r].pc \in {"cache", "mark", "mark_cache"}
    PROVE  ans' \in [McReqs -> LocatedReq]
  <1> DEFINE x == [ans[r] EXCEPT !.pc = label]
  <1>1. ans[r] \in AnswerType /\ Located(ans[r])
    BY DEF TypeInv, LocatedReq
  <1>2. x \in AnswerType
    BY <1>1 DEF AnswerType
  <1>3. x.pc = label /\ x.code = ans[r].code /\ x.chal = ans[r].chal
    BY <1>1 DEF AnswerType
  <1>4. Located(x)
    BY <1>1, <1>3 DEF Located
  <1>5. ans' = [ans EXCEPT ![r] = x]
    BY DEF McGoto
  <1> HIDE DEF x
  <1> QED
    BY <1>2, <1>4, <1>5, ReqTyped DEF LocatedReq

\* validate() ends the request or gives it an expiry.
LEMMA ValidateTyped ==
    ASSUME TypeInv, NEW r \in McReqs, Validate(r), ans[r].pc \in {"cache", "db"}
    PROVE  ans' \in [McReqs -> LocatedReq]
  <1> DEFINE x == [ans[r] EXCEPT !.pc = "mark", !.expiresAt = now + UsedTTL]
  <1>1. ans[r] \in AnswerType /\ Located(ans[r]) /\ now + UsedTTL \in Nat
    BY ChallengeAssumption DEF TypeInv, McTypeOK, LocatedReq
  <1>2. x \in AnswerType
    BY <1>1 DEF AnswerType
  <1>3. x.pc = "mark" /\ x.code = ans[r].code /\ x.chal = ans[r].chal
    BY <1>1 DEF AnswerType
  <1>4. Located(x)
    BY <1>1, <1>3 DEF Located
  <1>5. ans' = [ans EXCEPT ![r] = x] \/ ans' = [ans EXCEPT ![r] = IdleAnswer]
    BY DEF Validate, McFinish
  <1> HIDE DEF x
  <1> QED
    BY <1>2, <1>4, <1>5, ReqTyped DEF LocatedReq

\* The row read back decides where the request goes on.
LEMMA ReadBackTyped ==
    ASSUME TypeInv, NEW r \in McReqs, ReadBack(r)
    PROVE  ans' \in [McReqs -> LocatedReq]
  <1> DEFINE to == IF ans[r].code = Nil THEN "claim" ELSE "cache"
             b == ans[r].code \in marked
             x == [ans[r] EXCEPT !.pc = to, !.late = b]
  <1>1. ans[r] \in AnswerType /\ Located(ans[r]) /\ ans[r].pc = "read"
    BY DEF TypeInv, LocatedReq, ReadBack
  <1>2. to \in {"claim", "cache"} /\ b \in BOOLEAN /\ (to = "cache" => ans[r].code # Nil)
    OBVIOUS
  <1>3. ans' = [ans EXCEPT ![r] = x] \/ ans' = [ans EXCEPT ![r] = IdleAnswer]
    BY DEF ReadBack, McFinish
  <1> HIDE DEF to, b
  <1>4. x \in AnswerType
    BY <1>1, <1>2 DEF AnswerType
  <1>5. x.pc = to /\ x.code = ans[r].code /\ x.chal = ans[r].chal
    BY <1>1 DEF AnswerType
  <1>6. ans[r].code \in TotpCodes \cup {Nil} /\ ans[r].chal \in Challenges
    BY <1>1 DEF Located, AnswerType
  <1>7. Located(x)
    BY <1>2, <1>5, <1>6 DEF Located
  <1> HIDE DEF x
  <1> QED
    BY <1>3, <1>4, <1>7, ReqTyped DEF LocatedReq

\* A challenge row is written, spends an attempt or is dropped.
LEMMA RowTyped ==
    ASSUME McTypeOK, NEW k \in Challenges
    PROVE  /\ chal[k] \in RowType
           /\ [chal EXCEPT ![k].live = FALSE] \in [Challenges -> RowType]
           /\ chal[k].attempts < MaxAttempts
                => [chal EXCEPT ![k].attempts = @ + 1] \in [Challenges -> RowType]
           /\ [chal EXCEPT ![k] = [live |-> TRUE, attempts |-> 0, createdAt |-> now]]
                \in [Challenges -> RowType]
  <1>1. chal \in [Challenges -> RowType] /\ chal[k] \in RowType
    BY DEF McTypeOK, RowType
  <1>2. [chal[k] EXCEPT !.live = FALSE] \in RowType
    BY <1>1 DEF RowType
  <1>3. chal[k].attempts < MaxAttempts
          => [chal[k] EXCEPT !.attempts = chal[k].attempts + 1] \in RowType
    BY <1>1, ChallengeAssumption DEF RowType
  <1>4. [live |-> TRUE, attempts |-> 0, createdAt |-> now] \in RowType
    BY ChallengeAssumption DEF RowType, McTypeOK
  <1> HIDE DEF RowType
  <1> QED
    BY <1>1, <1>2, <1>3, <1>4

\* An answer is admitted, or its challenge is to be dropped.
LEMMA ReserveTyped ==
    ASSUME TypeInv, NEW r \in McReqs, NEW k \in Challenges, NEW i \in Instances,
           NEW c \in TotpCodes \cup {Nil}, Reserve(r, k, i, c)
    PROVE  /\ ans' \in [McReqs -> LocatedReq]
           /\ chal' \in [Challenges -> RowType]
           /\ spent' \in [Challenges -> Nat]
  <1> DEFINE x == [IdleAnswer EXCEPT !.pc = "read", !.inst = i, !.chal = k, !.code = c]
             y == [IdleAnswer EXCEPT !.pc = "discard", !.chal = k]
  <1>1. x \in AnswerType /\ y \in AnswerType
    BY IdleTyped DEF AnswerType
  <1>2. Located(x) /\ Located(y)
    BY DEF Located, IdleAnswer
  <1>3. ans' = [ans EXCEPT ![r] = x] \/ ans' = [ans EXCEPT ![r] = y]
    BY DEF Reserve
  <1> HIDE DEF x, y
  <1>4. ans' \in [McReqs -> LocatedReq]
    BY <1>1, <1>2, <1>3, ReqTyped DEF LocatedReq
  <1>5. McTypeOK
    BY DEF TypeInv
  <1>6. chal \in [Challenges -> RowType] /\ spent \in [Challenges -> Nat]
    BY <1>5 DEF McTypeOK, RowType
  <1>7. spent' \in [Challenges -> Nat]
    BY <1>6 DEF Reserve
  <1>8. \/ chal' = chal
        \/ chal[k].attempts < MaxAttempts /\ chal' = [chal EXCEPT ![k].attempts = @ + 1]
    BY DEF Reserve
  <1>9. chal' \in [Challenges -> RowType]
    BY <1>5, <1>6, <1>8, RowTyped
  <1> QED
    BY <1>4, <1>7, <1>9

\* There is no challenge and no used code at first.
LEMMA TypeInit == McInit => TypeInv
  <1>1. McInit => ans \in [McReqs -> LocatedReq] /\ ans \in [McReqs -> AnswerType]
    BY IdleTyped DEF McInit
  <1> QED
    BY <1>1, ChallengeAssumption DEF McInit, TypeInv, McTypeOK, NoRow, Nil

\* The parts of the type invariant put together.
LEMMA TypeParts ==
    ASSUME now' \in Nat, chal' \in [Challenges -> RowType], nChal' \in 0..NChallenges,
           db' \in [TotpCodes -> Nat], redis' \in [TotpCodes -> Nat],
           mem' \in [Instances -> [TotpCodes -> Nat]], ans' \in [McReqs -> LocatedReq],
           spent' \in [Challenges -> Nat], completed' \in [Challenges -> Nat],
           marked' \in SUBSET TotpCodes, failed' \in SUBSET TotpCodes
    PROVE  TypeInv'
  <1>1. ans' \in [McReqs -> AnswerType]
    BY DEF LocatedReq
  <1> QED
    BY <1>1 DEF TypeInv, McTypeOK, RowType

\* A step of a request keeps every row, store and request in its type.
LEMMA TypeStep ==
    ASSUME TypeInv, NEW r \in McReqs, McStep(r)
    PROVE  TypeInv'
  <1> USE ChallengeAssumption
  <1>0. /\ ans[r] \in AnswerType /\ Located(ans[r]) /\ McTypeOK
        /\ now \in Nat /\ nChal \in 0..NChallenges
        /\ chal \in [Challenges -> RowType]
        /\ db \in [TotpCodes -> Nat] /\ redis \in [TotpCodes -> Nat]
        /\ mem \in [Instances -> [TotpCodes -> Nat]]
        /\ spent \in [Challenges -> Nat] /\ completed \in [Challenges -> Nat]
        /\ marked \in SUBSET TotpCodes /\ failed \in SUBSET TotpCodes
        /\ ans[r].inst \in Instances /\ ans[r].expiresAt \in Nat
        /\ UsedTTL \in Nat
    BY DEF TypeInv, McTypeOK, LocatedReq, RowType, AnswerType
  <1>1. CASE CreateCount(r)
    BY <1>0, <1>1, GotoTyped, TypeParts DEF CreateCount, stores, mcHistory
  <1>2. CASE CreateChallenge(r)
    <2>1. nChal + 1 \in Challenges /\ nChal' \in 0..NChallenges
      BY <1>0, <1>2 DEF CreateChallenge, Challenges
    <2>2. chal' \in [Challenges -> RowType]
      BY <1>0, <1>2, <2>1, RowTyped DEF CreateChallenge
    <2> QED
      BY <1>0, <1>2, <2>1, <2>2, FinishTyped, TypeParts DEF CreateChallenge, stores, mcHistory
  <1>3. ASSUME NEW k \in Challenges, NEW i \in Instances, NEW c \in TotpCodes \cup {Nil},
               Reserve(r, k, i, c)
        PROVE  TypeInv'
    BY <1>0, <1>3, ReserveTyped, TypeParts DEF Reserve, stores
  <1>4. CASE Discard(r)
    <2>1. ans[r].chal \in Challenges
      BY <1>0, <1>4 DEF Discard, Located
    <2>2. chal' \in [Challenges -> RowType]
      BY <1>0, <1>4, <2>1, RowTyped DEF Discard
    <2> QED
      BY <1>0, <1>4, <2>2, FinishTyped, TypeParts DEF Discard, stores, mcHistory
  <1>5. CASE ReadBack(r)
    BY <1>0, <1>5, ReadBackTyped, TypeParts DEF ReadBack, stores, mcHistory
  <1>6. ASSUME NEW up \in BOOLEAN, CheckCache(r, up) PROVE TypeInv'
    <2>1. ans' \in [McReqs -> LocatedReq]
      BY <1>6, FinishTyped, GotoTyped, ValidateTyped DEF CheckCache
    <2>2. mem' = mem \/ mem' = [mem EXCEPT ![ans[r].inst][ans[r].code] = Nil]
      BY <1>6 DEF CheckCache
    <2>3. [mem[ans[r].inst] EXCEPT ![ans[r].code] = Nil] \in [TotpCodes -> Nat]
      BY <1>0 DEF Nil
    <2>4. mem' \in [Instances -> [TotpCodes -> Nat]]
      BY <1>0, <2>2, <2>3
    <2> QED
      BY <1>0, <1>6, <2>1, <2>4, TypeParts DEF CheckCache, mcHistory
  <1>7. ASSUME NEW up \in BOOLEAN, CheckDb(r, up) PROVE TypeInv'
    <2>1. ans' \in [McReqs -> LocatedReq]
      BY <1>7, FinishTyped, ValidateTyped DEF CheckDb
    <2>2. redis' = redis \/ redis' = [redis EXCEPT ![ans[r].code] = now + UsedTTL]
      BY <1>7 DEF CheckDb
    <2>3. redis' \in [TotpCodes -> Nat]
      BY <1>0, <2>2
    <2> QED
      BY <1>0, <1>7, <2>1, <2>3, TypeParts DEF CheckDb, mcHistory
  <1>8. CASE CheckDbFails(r)
    <2>1. ans' \in [McReqs -> LocatedReq]
      BY <1>8, ValidateTyped DEF CheckDbFails
    <2>2. failed' \in SUBSET TotpCodes
      BY <1>0, <1>8 DEF CheckDbFails, Located
    <2> QED
      BY <1>0, <1>8, <2>1, <2>2, TypeParts DEF CheckDbFails, stores
  <1>9. ASSUME NEW ok \in BOOLEAN, MarkDb(r, ok) PROVE TypeInv'
    <2>1. ans' \in [McReqs -> LocatedReq]
      BY <1>9, GotoTyped DEF MarkDb
    <2>2. failed' \in SUBSET TotpCodes
      BY <1>0, <1>9 DEF MarkDb, Located
    <2>3. db' \in [TotpCodes -> Nat]
      BY <1>0, <1>9 DEF MarkDb
    <2> QED
      BY <1>0, <1>9, <2>1, <2>2, <2>3, TypeParts DEF MarkDb
  <1>10. ASSUME NEW up \in BOOLEAN, MarkCache(r, up) PROVE TypeInv'
    <2>1. ans' \in [McReqs -> LocatedReq]
      BY <1>10, GotoTyped DEF MarkCache
    <2>2. marked' \in SUBSET TotpCodes
      BY <1>0, <1>10 DEF MarkCache, Located
    <2> DEFINE t == now + UsedTTL
    <2>3. redis' \in [TotpCodes -> Nat]
      <3>1. redis' = redis \/ redis' = [redis EXCEPT ![ans[r].code] = t]
        BY <1>10 DEF MarkCache
      <3>2. t \in Nat
        BY <1>0
      <3> HIDE DEF t
      <3> QED
        BY <1>0, <3>1, <3>2
    <2>4. mem' \in [Instances -> [TotpCodes -> Nat]]
      BY <1>0, <1>10 DEF MarkCache
    <2> QED
      BY <1>0, <1>10, <2>1, <2>2, <2>3, <2>4, TypeParts DEF MarkCache
  <1>11. CASE Claim(r)
    <2>1. ans[r].chal \in Challenges
      BY <1>0, <1>11 DEF Claim, Located
    <2>2. chal' \in [Challenges -> RowType]
      BY <1>0, <1>11, <2>1, RowTyped DEF Claim
    <2>3. completed' \in [Challenges -> Nat]
      <3>1. completed' = completed \/ completed' = [completed EXCEPT ![ans[r].chal] = @ + 1]
        BY <1>11 DEF Claim
      <3> QED
        BY <1>0, <2>1, <3>1
    <2> QED
      BY <1>0, <1>11, <2>2, <2>3, FinishTyped, TypeParts DEF Claim, stores
  <1>12. CASE McAbort(r)
    BY <1>0, <1>12, FinishTyped, TypeParts DEF McAbort, stores, mcHistory
  <1> QED
    BY <1>1, <1>2, <1>3, <1>4, <1>5, <1>6, <1>7, <1>8, <1>9, <1>10, <1>11, <1>12 DEF McStep

\* So do a restart, the cleanup and the clock.
LEMMA TypeNext == TypeInv /\ [McNext]_mcVars => TypeInv'
  <1> SUFFICES ASSUME TypeInv, [McNext]_mcVars PROVE TypeInv'
    OBVIOUS
  <1> USE ChallengeAssumption
  <1>0. /\ now \in Nat /\ nChal \in 0..NChallenges
        /\ chal \in [Challenges -> RowType]
        /\ db \in [TotpCodes -> Nat] /\ redis \in [TotpCodes -> Nat]
        /\ mem \in [Instances -> [TotpCodes -> Nat]]
        /\ spent \in [Challenges -> Nat] /\ completed \in [Challenges -> Nat]
        /\ marked \in SUBSET TotpCodes /\ failed \in SUBSET TotpCodes
        /\ ans \in [McReqs -> LocatedReq]
    BY DEF TypeInv, McTypeOK, RowType
  <1>1. ASSUME NEW r \in McReqs, McStep(r) PROVE TypeInv'
    BY <1>1, TypeStep
  <1>2. ASSUME NEW i \in Instances, Restart(i) PROVE TypeInv'
    <2>1. ans' \in [McReqs -> LocatedReq]
      BY <1>0, <1>2, IdleTyped DEF Restart
    <2>2. mem' \in [Instances -> [TotpCodes -> Nat]]
      BY <1>0, <1>2 DEF Restart, Nil
    <2> QED
      BY <1>0, <1>2, <2>1, <2>2, TypeParts DEF Restart, mcHistory
  <1>3. CASE McCleanup
    <2>1. \A k \in Challenges : [chal[k] EXCEPT !.live = FALSE] \in RowType
      BY <1>0 DEF RowType
    <2>2. chal' \in [Challenges -> RowType]
      BY <1>0, <1>3, <2>1 DEF McCleanup
    <2>3. db' \in [TotpCodes -> Nat]
      BY <1>0, <1>3 DEF McCleanup, Nil
    <2> QED
      BY <1>0, <1>3, <2>2, <2>3, TypeParts DEF McCleanup, mcHistory
  <1>4. CASE Tick
    BY <1>0, <1>4, TypeParts DEF Tick, stores, mcHistory
  <1>5. CASE UNCHANGED mcVars
    BY <1>0, <1>5, TypeParts DEF mcVars
  <1> QED
    BY <1>1, <1>2, <1>3, <1>4, <1>5 DEF McNext

(* Rows, stores and requests keep their shapes and no row counts more       *)
(* attempts than MAX_MFA_ATTEMPTS, whatever races, restarts or fails.       *)
THEOREM MfaTypeCorrect == McSpec => []McTypeOK
  <1>1. McSpec => []TypeInv
    BY TypeInit, TypeNext, PTL DEF McSpec
  <1>2. TypeInv => McTypeOK
    BY DEF TypeInv
  <1> QED
    BY <1>1, <1>2, PTL

-----------------------------------------------------------------------------
(* Attempts and sign-ins.  The column that the conditional UPDATE limits    *)
(* counts every admitted answer, and a row that is still there has signed   *)
(* nobody in.                                                               *)

ChallengeInv ==
    \A k \in Challenges :
        /\ spent[k] = chal[k].attempts
        /\ completed[k] <= 1
        /\ chal[k].live => completed[k] = 0
        /\ k > nChal => spent[k] = 0 /\ completed[k] = 0 /\ ~chal[k].live

\* Rows disappear, and nothing else happens to them.
RowsDropped ==
    /\ \A k \in Challenges : /\ chal'[k].attempts = chal[k].attempts
                             /\ chal'[k].live => chal[k].live
    /\ UNCHANGED <<nChal, spent, completed>>

\* What a step may do to the challenges.
ChallengeStep ==
    \/ RowsDropped
    \/ /\ nChal + 1 \in Challenges /\ nChal' = nChal + 1
       /\ chal' = [chal EXCEPT ![nChal + 1] =
                     [live |-> TRUE, attempts |-> 0, createdAt |-> now]]
       /\ UNCHANGED <<spent, completed>>
    \/ \E k \in Challenges :
         /\ k <= nChal
         /\ chal' = [chal EXCEPT ![k].attempts = @ + 1]
         /\ spent' = [spent EXCEPT ![k] = @ + 1]
         /\ UNCHANGED <<nChal, completed>>
    \/ \E k \in Challenges :
         /\ chal[k].live
         /\ chal' = [chal EXCEPT ![k].live = FALSE]
         /\ completed' = [completed EXCEPT ![k] = @ + 1]
         /\ UNCHANGED <<nChal, spent>>

\* Dropping one row drops rows.
LEMMA DropOne ==
    ASSUME TypeInv, NEW k \in Challenges, chal' = [chal EXCEPT ![k].live = FALSE],
           UNCHANGED <<nChal, spent, completed>>
    PROVE  RowsDropped
  <1>1. chal \in [Challenges -> RowType]
    BY DEF TypeInv, McTypeOK, RowType
  <1>2. \A j \in Challenges :
          chal'[j] = IF j = k THEN [chal[k] EXCEPT !.live = FALSE] ELSE chal[j]
    BY <1>1
  <1>3. /\ [chal[k] EXCEPT !.live = FALSE].attempts = chal[k].attempts
        /\ [chal[k] EXCEPT !.live = FALSE].live = FALSE
    BY <1>1 DEF RowType
  <1> QED
    BY <1>2, <1>3 DEF RowsDropped

\* Every step of the specification is one of these.
LEMMA ChallengeSteps ==
    ASSUME TypeInv, [McNext]_mcVars
    PROVE  ChallengeStep
  <1> USE DEF ChallengeStep
  <1>0. UNCHANGED <<chal, nChal, spent, completed>> => RowsDropped
    BY DEF RowsDropped
  <1>1. ASSUME NEW r \in McReqs, McStep(r) PROVE ChallengeStep
    <2>0. Located(ans[r]) /\ nChal \in 0..NChallenges
      BY DEF TypeInv, McTypeOK, LocatedReq
    <2>1. CASE CreateChallenge(r)
      <3>1. nChal + 1 \in Challenges
        BY <2>0, <2>1, ChallengeAssumption DEF CreateChallenge, Challenges
      <3> QED
        BY <2>1, <3>1 DEF CreateChallenge, mcHistory
    <2>2. ASSUME NEW k \in Challenges, NEW i \in Instances, NEW c \in TotpCodes \cup {Nil},
                 Reserve(r, k, i, c)
          PROVE  ChallengeStep
      BY <1>0, <2>2 DEF Reserve
    <2>3. CASE Discard(r)
      <3>1. ans[r].chal \in Challenges
        BY <2>0, <2>3 DEF Discard, Located
      <3> QED
        BY <2>3, <3>1, DropOne DEF Discard, mcHistory
    <2>4. CASE Claim(r)
      <3> DEFINE k == ans[r].chal
      <3>1. k \in Challenges
        BY <2>0, <2>4 DEF Claim, Located
      <3>2. CASE chal[k].live
        BY <2>4, <3>1, <3>2 DEF Claim
      <3>3. CASE ~chal[k].live
        BY <2>4, <3>1, <3>3, DropOne DEF Claim
      <3> QED
        BY <3>2, <3>3
    <2>5. CreateCount(r) \/ ReadBack(r) \/ CheckDbFails(r) \/ McAbort(r)
            => UNCHANGED <<chal, nChal, spent, completed>>
      BY DEF CreateCount, ReadBack, CheckDbFails, McAbort, mcHistory
    <2>6. \A up \in BOOLEAN : CheckCache(r, up) \/ CheckDb(r, up) \/ MarkCache(r, up)
                                \/ MarkDb(r, up)
            => UNCHANGED <<chal, nChal, spent, completed>>
      BY DEF CheckCache, CheckDb, MarkCache, MarkDb, mcHistory
    <2> QED
      BY <1>0, <1>1, <2>1, <2>2, <2>3, <2>4, <2>5, <2>6 DEF McStep
  <1>2. ASSUME NEW i \in Instances, Restart(i) PROVE ChallengeStep
    BY <1>0, <1>2 DEF Restart, mcHistory
  <1>3. CASE McCleanup
    <2>1. chal \in [Challenges -> RowType]
      BY DEF TypeInv, McTypeOK, RowType
    <2>2. \A k \in Challenges : /\ [chal[k] EXCEPT !.live = FALSE].attempts = chal[k].attempts
                                /\ [chal[k] EXCEPT !.live = FALSE].live = FALSE
      BY <2>1 DEF RowType
    <2>3. \A k \in Challenges : \/ chal'[k] = chal[k]
                                \/ chal'[k] = [chal[k] EXCEPT !.live = FALSE]
      BY <1>3 DEF McCleanup
    <2>4. UNCHANGED <<nChal, spent, completed>>
      BY <1>3 DEF McCleanup, mcHistory
    <2> QED
      BY <2>2, <2>3, <2>4 DEF RowsDropped
  <1>4. CASE Tick
    BY <1>0, <1>4 DEF Tick, mcHistory
  <1>5. CASE UNCHANGED mcVars
    BY <1>0, <1>5 DEF mcVars
  <1> QED
    BY <1>1, <1>2, <1>3, <1>4, <1>5 DEF McNext

\* No challenge and no answer at first.
LEMMA ChallengeInit == McInit => ChallengeInv
  BY DEF McInit, ChallengeInv, NoRow

\* Every step keeps the account of each challenge's attempts.
LEMMA ChallengeNext ==
    ASSUME TypeInv, ChallengeInv, [McNext]_mcVars
    PROVE  ChallengeInv'
  <1>0. /\ chal \in [Challenges -> RowType] /\ nChal \in 0..NChallenges
        /\ spent \in [Challenges -> Nat] /\ completed \in [Challenges -> Nat]
        /\ Challenges \subseteq Nat
    BY DEF TypeInv, McTypeOK, RowType, Challenges
  <1>1. CASE RowsDropped
    BY <1>1 DEF RowsDropped, ChallengeInv
  <1>2. CASE /\ nChal + 1 \in Challenges /\ nChal' = nChal + 1
             /\ chal' = [chal EXCEPT ![nChal + 1] =
                           [live |-> TRUE, attempts |-> 0, createdAt |-> now]]
             /\ UNCHANGED <<spent, completed>>
    <2>1. \A k \in Challenges : k # nChal + 1 => chal'[k] = chal[k]
      BY <1>0, <1>2
    <2>2. chal'[nChal + 1].attempts = 0
      BY <1>0, <1>2
    <2>3. spent[nChal + 1] = 0 /\ completed[nChal + 1] = 0
      BY <1>0, <1>2 DEF ChallengeInv
    <2> QED
      BY <1>0, <1>2, <2>1, <2>2, <2>3 DEF ChallengeInv
  <1>3. ASSUME NEW k \in Challenges, k <= nChal,
               chal' = [chal EXCEPT ![k].attempts = @ + 1],
               spent' = [spent EXCEPT ![k] = @ + 1],
               UNCHANGED <<nChal, completed>>
        PROVE  ChallengeInv'
    <2>1. chal[k] \in RowType /\ chal'[k] = [chal[k] EXCEPT !.attempts = @ + 1]
      BY <1>0, <1>3
    <2>2. chal'[k].attempts = chal[k].attempts + 1 /\ chal'[k].live = chal[k].live
      BY <2>1 DEF RowType
    <2>3. \A j \in Challenges : j # k => chal'[j] = chal[j] /\ spent'[j] = spent[j]
      BY <1>0, <1>3
    <2>4. spent'[k] = spent[k] + 1
      BY <1>0, <1>3
    <2> QED
      BY <1>0, <1>3, <2>2, <2>3, <2>4 DEF ChallengeInv
  <1>4. ASSUME NEW k \in Challenges, chal[k].live,
               chal' = [chal EXCEPT ![k].live = FALSE],
               completed' = [completed EXCEPT ![k] = @ + 1],
               UNCHANGED <<nChal, spent>>
        PROVE  ChallengeInv'
    <2>1. chal[k] \in RowType /\ chal'[k] = [chal[k] EXCEPT !.live = FALSE]
      BY <1>0, <1>4
    <2>2. chal'[k].attempts = chal[k].attempts /\ ~chal'[k].live
      BY <2>1 DEF RowType
    <2>3. \A j \in Challenges : j # k => chal'[j] = chal[j] /\ completed'[j] = completed[j]
      BY <1>0, <1>4
    <2>4. completed'[k] = 1
      BY <1>0, <1>4 DEF ChallengeInv
    <2>5. ~(k > nChal)
      BY <1>4 DEF ChallengeInv
    <2> QED
      BY <1>0, <1>4, <2>2, <2>3, <2>4, <2>5 DEF ChallengeInv
  <1> QED
    BY <1>1, <1>2, <1>3, <1>4, ChallengeSteps DEF ChallengeStep

(* At most MAX_MFA_ATTEMPTS answers to one challenge are ever examined, for *)
(* any number of racing requests.                                           *)
THEOREM AttemptBudgetHolds == McSpec => []AttemptBudget
  <1>1. TypeInv /\ ChallengeInv => AttemptBudget
    <2> SUFFICES ASSUME TypeInv, ChallengeInv, NEW k \in Challenges
                 PROVE  spent[k] <= MaxAttempts
      BY DEF AttemptBudget
    <2>1. chal[k] \in RowType /\ spent[k] = chal[k].attempts
      BY DEF TypeInv, McTypeOK, RowType, ChallengeInv
    <2> QED
      BY <2>1, ChallengeAssumption DEF RowType
  <1>2. McSpec => [](TypeInv /\ ChallengeInv)
    BY TypeInit, TypeNext, ChallengeInit, ChallengeNext, PTL DEF McSpec
  <1> QED
    BY <1>1, <1>2, PTL

(* consumeMfaChallenge lets one request sign in per challenge, however many *)
(* submit a correct answer at once.                                         *)
THEOREM OneSignInHolds == McSpec => []OneSignIn
  <1>1. ChallengeInv => OneSignIn
    BY DEF ChallengeInv, OneSignIn
  <1>2. McSpec => [](TypeInv /\ ChallengeInv)
    BY TypeInit, TypeNext, ChallengeInit, ChallengeNext, PTL DEF McSpec
  <1> QED
    BY <1>1, <1>2, PTL

-----------------------------------------------------------------------------
(* The replay guard.  A code is guarded once its row outlives the periods   *)
(* in which validate() accepts it, or these are over.  Marking makes a code *)
(* guarded before the verification ends; nothing undoes that: the cleanup   *)
(* deletes the row only when the periods are over.                          *)

Guarded(c) == db[c] >= c + 2 \/ now > c + 1

\* What a request relies on: the expiry it computed covers the window, and a
\* request that started late got no further than a failed statement let it.
SoundReq(x) ==
    /\ x.pc \in {"mark", "mark_cache"} => x.expiresAt >= x.code + 2
    /\ x.pc = "mark_cache" => x.code \in failed \/ Guarded(x.code)
    /\ x.late => x.code \in marked
    /\ x.late /\ x.pc \in {"mark", "mark_cache", "claim"} => x.code \in failed

ReplayInv ==
    /\ \A c \in marked : c \in failed \/ Guarded(c)
    /\ \A i \in Instances, c \in TotpCodes : mem[i][c] # Nil => mem[i][c] >= c + 2
    /\ \A r \in McReqs : SoundReq(ans[r])

\* No TOTP code has been accepted at the start.
LEMMA ReplayInit == McInit => ReplayInv
  <1> SUFFICES ASSUME McInit PROVE ReplayInv
    OBVIOUS
  <1>1. \A r \in McReqs : ans[r].pc = "idle" /\ ans[r].late = FALSE
    BY DEF McInit, IdleAnswer
  <1> QED
    BY <1>1 DEF McInit, ReplayInv, SoundReq

\* No step takes the guard of a code away, or forgets a marked or failed one.
LEMMA GuardKept ==
    ASSUME TypeInv, [McNext]_mcVars
    PROVE  /\ \A c \in TotpCodes : Guarded(c) => Guarded(c)'
           /\ marked \subseteq marked' /\ failed \subseteq failed'
           /\ now' >= now
  <1>0. /\ now \in Nat /\ db \in [TotpCodes -> Nat] /\ TotpCodes \subseteq Nat
        /\ \A r \in McReqs : ans[r] \in AnswerType
    BY DEF TypeInv, McTypeOK, TotpCodes
  <1>1. CASE UNCHANGED <<now, db>> /\ marked \subseteq marked' /\ failed \subseteq failed'
    BY <1>0, <1>1 DEF Guarded
  <1>2. ASSUME NEW r \in McReqs, NEW ok \in BOOLEAN, MarkDb(r, ok)
        PROVE  /\ \A c \in TotpCodes : Guarded(c) => Guarded(c)'
               /\ marked \subseteq marked' /\ failed \subseteq failed' /\ now' >= now
    <2>1. ans[r].expiresAt \in Nat
      BY <1>0 DEF AnswerType
    <2> DEFINE k == ans[r].code
               e == IF db[k] > ans[r].expiresAt THEN db[k] ELSE ans[r].expiresAt
    <2>2. db' = db \/ db' = [db EXCEPT ![k] = e]
      BY <1>2 DEF MarkDb
    <2>3. k \in TotpCodes /\ e \in Nat /\ e >= db[k]
      <3>1. k \in TotpCodes
        BY <1>2 DEF MarkDb, TypeInv, LocatedReq, Located
      <3>2. db[k] \in Nat
        BY <1>0, <3>1
      <3> HIDE DEF k
      <3> QED
        BY <2>1, <3>1, <3>2
    <2> HIDE DEF k, e
    <2>4. \A c \in TotpCodes : db'[c] >= db[c] /\ db'[c] \in Nat
      BY <1>0, <2>2, <2>3
    <2> QED
      BY <1>0, <1>2, <2>4 DEF MarkDb, Guarded
  <1>3. CASE McCleanup
    BY <1>0, <1>3 DEF McCleanup, mcHistory, Guarded, Nil
  <1>4. CASE Tick
    BY <1>0, <1>4 DEF Tick, stores, mcHistory, Guarded
  <1>5. ASSUME NEW r \in McReqs, McStep(r), \A ok \in BOOLEAN : ~MarkDb(r, ok)
        PROVE  UNCHANGED <<now, db>> /\ marked \subseteq marked' /\ failed \subseteq failed'
    <2>1. CreateCount(r) \/ CreateChallenge(r) \/ Discard(r) \/ ReadBack(r) \/ Claim(r)
            \/ McAbort(r) \/ CheckDbFails(r)
            => UNCHANGED <<now, db>> /\ marked \subseteq marked' /\ failed \subseteq failed'
      BY DEF CreateCount, CreateChallenge, Discard, ReadBack, Claim, McAbort, CheckDbFails,
             stores, mcHistory
    <2>2. \A k \in Challenges, i \in Instances, c \in TotpCodes \cup {Nil} :
            Reserve(r, k, i, c) => UNCHANGED <<now, db, marked, failed>>
      BY DEF Reserve, stores
    <2>3. \A up \in BOOLEAN : CheckCache(r, up) \/ CheckDb(r, up) \/ MarkCache(r, up)
            => UNCHANGED <<now, db>> /\ marked \subseteq marked' /\ failed \subseteq failed'
      BY DEF CheckCache, CheckDb, MarkCache, mcHistory
    <2> QED
      BY <1>5, <2>1, <2>2, <2>3 DEF McStep
  <1>6. (\E i \in Instances : Restart(i)) \/ UNCHANGED mcVars
          => UNCHANGED <<now, db>> /\ marked \subseteq marked' /\ failed \subseteq failed'
    BY DEF Restart, mcVars, mcHistory
  <1> QED
    BY <1>1, <1>2, <1>3, <1>4, <1>5, <1>6 DEF McNext

\* A request that a step leaves alone stays sound.
LEMMA SoundKept ==
    ASSUME TypeInv, [McNext]_mcVars, NEW x \in LocatedReq, SoundReq(x)
    PROVE  SoundReq(x)'
  <1>1. x.pc = "mark_cache" => x.code \in TotpCodes
    BY DEF LocatedReq, Located
  <1>2. /\ \A c \in TotpCodes : Guarded(c) => Guarded(c)'
        /\ marked \subseteq marked' /\ failed \subseteq failed'
    BY GuardKept
  <1> HIDE DEF Guarded
  <1> QED
    BY <1>1, <1>2 DEF SoundReq

\* One step of a request leaves the others where they are.
LEMMA OthersKept ==
    ASSUME TypeInv, NEW r \in McReqs, McStep(r), NEW q \in McReqs, q # r
    PROVE  ans'[q] = ans[q]
  <1>0. ans \in [McReqs -> AnswerType]
    BY DEF TypeInv, McTypeOK
  <1>1. \A label : McGoto(r, label) => ans'[q] = ans[q]
    BY <1>0 DEF McGoto
  <1>2. McFinish(r) => ans'[q] = ans[q]
    BY <1>0 DEF McFinish
  <1>3. Validate(r) => ans'[q] = ans[q]
    BY <1>0, <1>2 DEF Validate
  <1>4. CreateCount(r) \/ CreateChallenge(r) \/ Discard(r) \/ Claim(r) \/ McAbort(r)
          \/ CheckDbFails(r) => ans'[q] = ans[q]
    BY <1>1, <1>2, <1>3 DEF CreateCount, CreateChallenge, Discard, Claim, McAbort, CheckDbFails
  <1>5. ReadBack(r) => ans'[q] = ans[q]
    BY <1>0, <1>2 DEF ReadBack
  <1>6. \A k \in Challenges, i \in Instances, c \in TotpCodes \cup {Nil} :
          Reserve(r, k, i, c) => ans'[q] = ans[q]
    BY <1>0 DEF Reserve
  <1>7. \A up \in BOOLEAN : CheckCache(r, up) \/ CheckDb(r, up) \/ MarkCache(r, up)
                              \/ MarkDb(r, up) => ans'[q] = ans[q]
    BY <1>1, <1>2, <1>3 DEF CheckCache, CheckDb, MarkCache, MarkDb
  <1> QED
    BY <1>4, <1>5, <1>6, <1>7 DEF McStep

(* validate() on a code that was found unused: a late request fails here,   *)
(* because the row of its code would have been found, unless the window is  *)
(* over or a statement failed.                                              *)
LEMMA ValidateSound ==
    ASSUME TypeInv, ReplayInv, NEW r \in McReqs, Validate(r), ans[r].pc \in {"cache", "db"},
           \/ ans[r].code \in failed'
           \/ db[ans[r].code] <= now
           \/ now >= ans[r].code + 2,
           UNCHANGED <<now, marked>>, failed \subseteq failed'
    PROVE  SoundReq(ans[r])'
  <1> DEFINE c == ans[r].code
             x == [ans[r] EXCEPT !.pc = "mark", !.expiresAt = now + UsedTTL]
  <1>0. /\ ans \in [McReqs -> AnswerType] /\ ans[r] \in AnswerType /\ c \in TotpCodes /\ TotpCodes \subseteq Nat
        /\ db \in [TotpCodes -> Nat] /\ now \in Nat /\ UsedTTL \in Nat /\ SoundReq(ans[r])
    BY ChallengeAssumption DEF TypeInv, McTypeOK, TotpCodes, LocatedReq, Located, ReplayInv
  <1>1. CASE ~Valid(c)
    <2>1. ans'[r] = IdleAnswer
      BY <1>0, <1>1 DEF Validate, McFinish
    <2> QED
      BY <2>1 DEF SoundReq, IdleAnswer
  <1>2. CASE Valid(c)
    <2>1. ans'[r] = x
      BY <1>0, <1>2 DEF Validate
    <2>2. /\ x.pc = "mark" /\ x.code = c /\ x.late = ans[r].late
          /\ x.expiresAt = now + UsedTTL
      BY <1>0 DEF AnswerType
    <2>3. c \in Nat /\ db[c] \in Nat /\ now >= c - 1 /\ now <= c + 1
      <3>1. c \in Nat /\ db[c] \in Nat
        BY <1>0
      <3> HIDE DEF c
      <3> QED
        BY <1>0, <1>2, <3>1 DEF Valid
    <2>4. c \in failed' \/ db[c] <= now \/ now >= c + 2
      OBVIOUS
    <2>5. SoundReq(ans[r]) /\ ans[r].code = c
      BY <1>0
    <2> HIDE DEF x, c
    <2>7. now + UsedTTL >= c + 2
      BY <1>0, <2>3, WindowAssumption
    <2>8. c \in failed' \/ ~Guarded(c)
      BY <1>0, <2>3, <2>4 DEF Guarded
    <2>9. ans[r].late => c \in marked /\ c \in failed'
      BY <2>5, <2>8 DEF SoundReq, ReplayInv
    <2>6. /\ ans'[r].pc = "mark" /\ ans'[r].code = c /\ ans'[r].late = ans[r].late
          /\ ans'[r].expiresAt >= c + 2
      BY <2>1, <2>2, <2>7
    <2> QED
      BY <2>6, <2>9 DEF SoundReq
  <1> QED
    BY <1>1, <1>2

\* A step of a request keeps its locals sound.
LEMMA SoundStep ==
    ASSUME TypeInv, ReplayInv, NEW r \in McReqs, McStep(r)
    PROVE  SoundReq(ans[r])'
  <1> DEFINE c == ans[r].code
  <1>0. /\ ans \in [McReqs -> AnswerType] /\ ans[r] \in LocatedReq /\ ans[r] \in AnswerType
        /\ Located(ans[r]) /\ SoundReq(ans[r])
        /\ TotpCodes \subseteq Nat /\ Nil \notin TotpCodes /\ marked \subseteq TotpCodes
        /\ db \in [TotpCodes -> Nat] /\ mem \in [Instances -> [TotpCodes -> Nat]] /\ now \in Nat
    BY DEF TypeInv, McTypeOK, LocatedReq, ReplayInv, TotpCodes, Nil
  <1>1. McFinish(r) => SoundReq(ans[r])'
    <2>1. McFinish(r) => ans'[r] = IdleAnswer
      BY <1>0 DEF McFinish
    <2> QED
      BY <2>1 DEF SoundReq, IdleAnswer
  <1>2. ASSUME NEW label \in {"create", "db", "mark_cache", "claim"}, McGoto(r, label)
        PROVE  /\ ans'[r].pc = label /\ ans'[r].code = c /\ ans'[r].late = ans[r].late
               /\ ans'[r].expiresAt = ans[r].expiresAt
    <2> DEFINE x == [ans[r] EXCEPT !.pc = label]
    <2>1. ans'[r] = x
      BY <1>0, <1>2 DEF McGoto
    <2> QED
      BY <1>0, <2>1 DEF AnswerType
  <1>3. CASE CreateCount(r)
    <2>1. ans'[r].pc = "create" /\ ans'[r].code = c /\ ans'[r].late = ans[r].late
      BY <1>2, <1>3 DEF CreateCount
    <2> QED
      BY <1>0, <1>3, <2>1 DEF CreateCount, SoundReq, mcHistory
  <1>4. CreateChallenge(r) \/ Discard(r) \/ Claim(r) \/ McAbort(r) => SoundReq(ans[r])'
    BY <1>1 DEF CreateChallenge, Discard, Claim, McAbort
  <1>5. ASSUME NEW k \in Challenges, NEW i \in Instances, NEW d \in TotpCodes \cup {Nil},
               Reserve(r, k, i, d)
        PROVE  SoundReq(ans[r])'
    <2>1. ans'[r].pc \in {"read", "discard"} /\ ~ans'[r].late
      <3> DEFINE x == [IdleAnswer EXCEPT !.pc = "read", !.inst = i, !.chal = k, !.code = d]
                 y == [IdleAnswer EXCEPT !.pc = "discard", !.chal = k]
      <3>1. ans' = [ans EXCEPT ![r] = x] \/ ans' = [ans EXCEPT ![r] = y]
        BY <1>5 DEF Reserve
      <3>2. ans'[r] = x \/ ans'[r] = y
        BY <1>0, <3>1
      <3>3. x.pc = "read" /\ y.pc = "discard" /\ ~x.late /\ ~y.late
        BY DEF IdleAnswer
      <3> HIDE DEF x, y
      <3> QED
        BY <3>2, <3>3
    <2> QED
      BY <2>1 DEF SoundReq
  <1>6. CASE ReadBack(r)
    <2> DEFINE to == IF c = Nil THEN "claim" ELSE "cache"
               b == c \in marked
               x == [ans[r] EXCEPT !.pc = to, !.late = b]
    <2>1. CASE ans' = [ans EXCEPT ![r] = x]
      <3>1. ans'[r] = x /\ UNCHANGED <<marked, failed>>
        BY <1>0, <1>6, <2>1 DEF ReadBack, mcHistory
      <3>2. x.pc = to /\ x.code = c /\ x.late = b
        BY <1>0 DEF AnswerType
      <3>3. (to = "claim" => c = Nil) /\ to \in {"claim", "cache"} /\ (b => c \in marked)
        OBVIOUS
      <3>4. c = Nil => c \notin marked
        BY <1>0
      <3> HIDE DEF to, b, x, c
      <3> QED
        BY <3>1, <3>2, <3>3, <3>4 DEF SoundReq
    <2>2. ans' = [ans EXCEPT ![r] = x] \/ McFinish(r)
      BY <1>6 DEF ReadBack
    <2> QED
      BY <1>1, <2>1, <2>2
  <1>7. ASSUME NEW up \in BOOLEAN, CheckCache(r, up) PROVE SoundReq(ans[r])'
    <2>1. ans[r].pc = "cache" /\ UNCHANGED <<now, db, marked, failed>>
      BY <1>7 DEF CheckCache, mcHistory
    <2>2. CASE McGoto(r, "db")
      <3>1. ans'[r].pc = "db" /\ ans'[r].code = c /\ ans'[r].late = ans[r].late
        BY <1>2, <2>2
      <3> QED
        BY <1>0, <2>1, <3>1 DEF SoundReq
    <2>3. ASSUME Validate(r), mem[ans[r].inst][c] # Nil, now > mem[ans[r].inst][c]
          PROVE  SoundReq(ans[r])'
      <3>1. c \in TotpCodes /\ ans[r].inst \in Instances
        BY <1>0, <2>1 DEF Located, AnswerType
      <3>2. mem[ans[r].inst][c] >= c + 2 /\ mem[ans[r].inst][c] \in Nat /\ c \in Nat
        BY <1>0, <2>3, <3>1 DEF ReplayInv
      <3>3. now >= c + 2
        BY <1>0, <2>3, <3>2
      <3> QED
        BY <2>1, <2>3, <3>3, ValidateSound
    <2> QED
      BY <1>1, <1>7, <2>2, <2>3 DEF CheckCache
  <1>8. ASSUME NEW up \in BOOLEAN, CheckDb(r, up) PROVE SoundReq(ans[r])'
    <2>1. ans[r].pc = "db" /\ UNCHANGED <<now, db, marked, failed>>
      BY <1>8 DEF CheckDb, mcHistory
    <2>2. ASSUME Validate(r), ~(db[c] > now) PROVE SoundReq(ans[r])'
      <3>1. db[c] \in Nat
        BY <1>0, <2>1 DEF Located
      <3>2. db[c] <= now
        BY <1>0, <2>2, <3>1
      <3> QED
        BY <2>1, <2>2, <3>2, ValidateSound
    <2> QED
      BY <1>1, <1>8, <2>2 DEF CheckDb
  <1>9. CASE CheckDbFails(r)
    <2>1. /\ ans[r].pc = "db" /\ UNCHANGED <<now, db, marked>> /\ Validate(r)
          /\ c \in failed' /\ failed \subseteq failed'
      BY <1>9 DEF CheckDbFails, stores
    <2> QED
      BY <2>1, ValidateSound
  <1>10. ASSUME NEW ok \in BOOLEAN, MarkDb(r, ok) PROVE SoundReq(ans[r])'
    <2>1. /\ ans'[r].pc = "mark_cache" /\ ans'[r].code = c /\ ans'[r].late = ans[r].late
          /\ ans'[r].expiresAt = ans[r].expiresAt
      BY <1>2, <1>10 DEF MarkDb
    <2>2. /\ ans[r].pc = "mark" /\ c \in TotpCodes /\ c \in Nat /\ ans[r].expiresAt \in Nat
          /\ UNCHANGED <<now, marked>> /\ failed \subseteq failed'
      BY <1>0, <1>10 DEF MarkDb, Located, AnswerType
    <2>3. ans[r].expiresAt >= c + 2
      BY <1>0, <2>2 DEF SoundReq
    <2>4. c \in failed' \/ db'[c] >= c + 2
      <3> DEFINE e == IF db[c] > ans[r].expiresAt THEN db[c] ELSE ans[r].expiresAt
      <3>1. c \in failed' \/ db' = [db EXCEPT ![c] = e]
        BY <1>10 DEF MarkDb
      <3>2. db[c] \in Nat
        BY <1>0, <2>2
      <3>3. e >= c + 2
        BY <2>2, <2>3, <3>2
      <3> HIDE DEF e
      <3> QED
        BY <1>0, <2>2, <3>1, <3>3
    <2>5. ans[r].late => c \in marked' /\ c \in failed'
      BY <1>0, <2>2 DEF SoundReq
    <2> HIDE DEF c
    <2> QED
      BY <2>1, <2>3, <2>4, <2>5 DEF SoundReq, Guarded
  <1>11. ASSUME NEW up \in BOOLEAN, MarkCache(r, up) PROVE SoundReq(ans[r])'
    <2>1. /\ ans'[r].pc = "claim" /\ ans'[r].code = c /\ ans'[r].late = ans[r].late
      BY <1>2, <1>11 DEF MarkCache
    <2>2. ans[r].pc = "mark_cache" /\ c \in marked' /\ failed' = failed
      BY <1>11 DEF MarkCache
    <2> QED
      BY <1>0, <2>1, <2>2 DEF SoundReq
  <1> QED
    BY <1>3, <1>4, <1>5, <1>6, <1>7, <1>8, <1>9, <1>10, <1>11 DEF McStep

\* Each code marked by now stays guarded, also the one a step marks.
LEMMA MarkedGuarded ==
    ASSUME TypeInv, ReplayInv, [McNext]_mcVars, NEW c \in marked'
    PROVE  c \in failed' \/ Guarded(c)'
  <1>0. /\ \A d \in TotpCodes : Guarded(d) => Guarded(d)'
        /\ failed \subseteq failed' /\ marked \subseteq TotpCodes
    BY GuardKept DEF TypeInv, McTypeOK
  <1>1. CASE c \in marked
    BY <1>0, <1>1 DEF ReplayInv
  <1>2. CASE c \notin marked
    <2>1. PICK r \in McReqs, up \in BOOLEAN : MarkCache(r, up)
      <3>1. ASSUME NEW r \in McReqs, McStep(r), \A up \in BOOLEAN : ~MarkCache(r, up)
            PROVE  UNCHANGED marked
        <4>1. CreateCount(r) \/ CreateChallenge(r) \/ Discard(r) \/ ReadBack(r) \/ Claim(r)
                \/ McAbort(r) \/ CheckDbFails(r) => UNCHANGED marked
          BY DEF CreateCount, CreateChallenge, Discard, ReadBack, Claim, McAbort, CheckDbFails,
                 mcHistory
        <4>2. \A k \in Challenges, i \in Instances, d \in TotpCodes \cup {Nil} :
                Reserve(r, k, i, d) => UNCHANGED marked
          BY DEF Reserve
        <4>3. \A up \in BOOLEAN : CheckCache(r, up) \/ CheckDb(r, up) \/ MarkDb(r, up)
                => UNCHANGED marked
          BY DEF CheckCache, CheckDb, MarkDb, mcHistory
        <4> QED
          BY <3>1, <4>1, <4>2, <4>3 DEF McStep
      <3>2. (\E i \in Instances : Restart(i)) \/ McCleanup \/ Tick \/ UNCHANGED mcVars
              => UNCHANGED marked
        BY DEF Restart, McCleanup, Tick, mcVars, mcHistory
      <3> QED
        BY <1>2, <3>1, <3>2 DEF McNext
    <2>2. ans[r].pc = "mark_cache" /\ c = ans[r].code
      BY <1>2, <2>1 DEF MarkCache
    <2>3. c \in TotpCodes /\ SoundReq(ans[r])
      BY <2>2 DEF TypeInv, LocatedReq, Located, ReplayInv
    <2> QED
      BY <1>0, <2>2, <2>3 DEF SoundReq
  <1> QED
    BY <1>1, <1>2

\* An entry of an instance's map lasts as long as its code is accepted.
LEMMA MemSound ==
    ASSUME TypeInv, ReplayInv, [McNext]_mcVars, NEW i \in Instances, NEW c \in TotpCodes,
           mem'[i][c] # Nil
    PROVE  mem'[i][c] >= c + 2
  <1>0. mem \in [Instances -> [TotpCodes -> Nat]]
    BY DEF TypeInv, McTypeOK
  <1>1. mem[i][c] # Nil => mem[i][c] >= c + 2
    BY DEF ReplayInv
  <1>2. ASSUME NEW r \in McReqs, NEW up \in BOOLEAN, MarkCache(r, up) PROVE mem'[i][c] >= c + 2
    <2>1. CASE mem'[i][c] = mem[i][c]
      BY <1>1, <2>1
    <2>2. CASE mem'[i][c] # mem[i][c]
      <3>1. c = ans[r].code /\ mem'[i][c] = ans[r].expiresAt /\ ans[r].pc = "mark_cache"
        BY <1>0, <1>2, <2>2 DEF MarkCache
      <3> QED
        BY <3>1 DEF ReplayInv, SoundReq
    <2> QED
      BY <2>1, <2>2
  <1>3. ASSUME NEW r \in McReqs, NEW up \in BOOLEAN, CheckCache(r, up)
        PROVE  mem'[i][c] >= c + 2
    <2> DEFINE j == ans[r].inst  d == ans[r].code
    <2>1. mem' = mem \/ mem' = [mem EXCEPT ![j][d] = Nil]
      BY <1>3 DEF CheckCache
    <2>2. mem'[i][c] = mem[i][c] \/ mem'[i][c] = Nil
      BY <1>0, <2>1
    <2> QED
      BY <1>1, <2>2
  <1>4. ASSUME NEW k \in Instances, Restart(k) PROVE mem'[i][c] >= c + 2
    BY <1>0, <1>1, <1>4 DEF Restart
  <1>5. ASSUME NEW r \in McReqs, McStep(r),
               \A up \in BOOLEAN : ~MarkCache(r, up) /\ ~CheckCache(r, up)
        PROVE  UNCHANGED mem
    <2>1. CreateCount(r) \/ CreateChallenge(r) \/ Discard(r) \/ ReadBack(r) \/ Claim(r)
            \/ McAbort(r) \/ CheckDbFails(r) => UNCHANGED mem
      BY DEF CreateCount, CreateChallenge, Discard, ReadBack, Claim, McAbort, CheckDbFails, stores
    <2>2. \A k \in Challenges, j \in Instances, d \in TotpCodes \cup {Nil} :
            Reserve(r, k, j, d) => UNCHANGED mem
      BY DEF Reserve, stores
    <2>3. \A up \in BOOLEAN : CheckDb(r, up) \/ MarkDb(r, up) => UNCHANGED mem
      BY DEF CheckDb, MarkDb
    <2> QED
      BY <1>5, <2>1, <2>2, <2>3 DEF McStep
  <1>6. McCleanup \/ Tick \/ UNCHANGED mcVars => UNCHANGED mem
    BY DEF McCleanup, Tick, mcVars, stores
  <1> QED
    BY <1>1, <1>2, <1>3, <1>4, <1>5, <1>6 DEF McNext

\* Every step keeps each marked code guarded, unless the guard itself failed.
LEMMA ReplayNext ==
    ASSUME TypeInv, ReplayInv, [McNext]_mcVars
    PROVE  ReplayInv'
  <1>1. \A c \in marked' : c \in failed' \/ Guarded(c)'
    BY MarkedGuarded
  <1>2. \A i \in Instances, c \in TotpCodes : mem'[i][c] # Nil => mem'[i][c] >= c + 2
    BY MemSound
  <1>3. ASSUME NEW q \in McReqs PROVE SoundReq(ans[q])'
    <2>0. ans[q] \in LocatedReq /\ SoundReq(ans[q])
      BY DEF TypeInv, ReplayInv
    <2>1. ASSUME ans'[q] = ans[q] PROVE SoundReq(ans[q])'
      <3>1. \A x \in LocatedReq : SoundReq(x) => SoundReq(x)'
        BY SoundKept
      <3>2. PICK x \in LocatedReq : x = ans[q] /\ SoundReq(x)
        BY <2>0
      <3>3. SoundReq(x)' /\ x = ans'[q]
        BY <2>1, <3>1, <3>2
      <3> QED
        BY <3>3 DEF SoundReq
    <2>2. ASSUME NEW r \in McReqs, McStep(r) PROVE SoundReq(ans[q])'
      BY <2>1, <2>2, SoundStep, OthersKept
    <2>3. ASSUME NEW i \in Instances, Restart(i) PROVE SoundReq(ans[q])'
      <3>1. ans'[q] = ans[q] \/ ans'[q] = IdleAnswer
        BY <2>3 DEF Restart
      <3>2. ans'[q] = IdleAnswer => SoundReq(ans[q])'
        BY DEF SoundReq, IdleAnswer
      <3> QED
        BY <2>1, <3>1, <3>2
    <2>4. McCleanup \/ Tick \/ UNCHANGED mcVars => ans'[q] = ans[q]
      BY DEF McCleanup, Tick, mcVars
    <2> QED
      BY <2>1, <2>2, <2>3, <2>4 DEF McNext
  <1> QED
    BY <1>1, <1>2, <1>3 DEF ReplayInv

(* An authenticator code whose verification has ended is accepted from no   *)
(* later request on any instance, whatever restarts, expires or is cleaned  *)
(* up in between, unless a statement on used_totp_codes failed.             *)
THEOREM NoReplayHolds == McSpec => []NoReplay
  <1>1. ReplayInv => NoReplay
    BY DEF ReplayInv, SoundReq, NoReplay
  <1>2. McSpec => [](TypeInv /\ ReplayInv)
    BY TypeInit, TypeNext, ReplayInit, ReplayNext, PTL DEF McSpec
  <1> QED
    BY <1>1, <1>2, PTL
=============================================================================
