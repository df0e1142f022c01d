-------------------------- MODULE CredentialProofs --------------------------
(***************************************************************************)
(* Proofs about the credentials that are checked outside the login pages:  *)
(* a revoked access token stays revoked (TokenBlacklist), a passkey        *)
(* response signs in once (Passkeys), and an API key exceeds its limits by *)
(* the requests in flight at most (ApiKeyGuard), for any number of         *)
(* instances, requests and challenges.                                     *)
(***************************************************************************)
EXTENDS TokenBlacklist, Passkeys, ApiKeyGuard, FiniteSetTheorems, TLAPS

-----------------------------------------------------------------------------
(* The blacklist.  A Redis key never expires before the token; a check      *)
(* under way that has not asked a store yet would still find the token      *)
(* there if it was there at the beginning.                                  *)

RvType == [pc : {"idle", "persist", "store"}, at : Nat]
CkType == [pc : {"idle", "redis", "db", "accepted"}, held : SUBSET Stores,
           missed : SUBSET Stores]

BlTypeOK ==
    /\ blNow \in Nat /\ link \in [Servers -> BOOLEAN] /\ redis \in Int /\ row \in BOOLEAN
    /\ memory \in [Servers -> BOOLEAN]
    /\ rv \in [Servers -> RvType] /\ ck \in [Servers -> CkType]
    /\ acked \in BOOLEAN /\ forgot \in BOOLEAN

CheckInv(i) ==
    /\ ck[i].pc = "redis" => ck[i].held \subseteq HeldBy(i)
    /\ ck[i].pc = "db" => /\ ck[i].held \subseteq ck[i].missed \cup {"db"}
                          /\ "db" \in ck[i].held => row
    /\ ck[i].pc = "accepted" => ck[i].held \subseteq ck[i].missed

KeptSomewhere == row \/ InRedis \/ \E i \in Servers : memory[i]

BlInv ==
    /\ BlTypeOK
    /\ redis = 0 \/ redis >= Exp
    /\ \A i \in Servers : rv[i].at <= blNow
    /\ acked => Servers # {}
    /\ acked /\ Alive /\ ~forgot => KeptSomewhere
    /\ Alive => \A i \in Servers : CheckInv(i)

\* What a step other than a check may do to a store the token is in.
KeepsStores ==
    /\ row => row'
    /\ InRedis => InRedis'
    /\ \A i \in Servers : memory[i] => memory'[i]

\* The stores in which a server would find the revocation only grow while none loses it.
LEMMA HeldGrows ==
    ASSUME KeepsStores, NEW i \in Servers
    PROVE  HeldBy(i) \subseteq HeldBy(i)'
  BY DEF KeepsStores, HeldBy

\* So a check in progress on another server keeps its invariant.
LEMMA CheckKept ==
    ASSUME KeepsStores, NEW i \in Servers, ck'[i] = ck[i], CheckInv(i)
    PROVE  CheckInv(i)'
  BY HeldGrows DEF CheckInv, KeepsStores

\* A step that keeps the stores, the clock and the revocations.
LEMMA BlQuiet ==
    ASSUME BlInv, BlTypeOK', KeepsStores, UNCHANGED <<blNow, acked, forgot>>,
           redis' = 0 \/ redis' >= Exp,
           \A i \in Servers : rv'[i].at <= blNow,
           Alive => \A i \in Servers : ck'[i] = ck[i] \/ CheckInv(i)'
    PROVE  BlInv'
  <1>1. Alive' <=> Alive
    BY DEF Alive
  <1>2. KeptSomewhere => KeptSomewhere'
    BY DEF KeptSomewhere, KeepsStores
  <1>3. Alive' => \A i \in Servers : CheckInv(i)'
    BY <1>1, CheckKept DEF BlInv
  <1> QED
    BY <1>1, <1>2, <1>3 DEF BlInv

\* A revocation starts, on a token that is still alive; no store holds it yet.
LEMMA BlRevokeStep ==
    ASSUME BlInv, NEW i \in Servers, BlRevoke(i)
    PROVE  BlInv'
  <1>1. /\ rv' = [rv EXCEPT ![i] = [pc |-> "persist", at |-> blNow]]
        /\ UNCHANGED <<blNow, link, redis, row, memory, ck, acked, forgot>>
    BY DEF BlRevoke
  <1>2. rv' \in [Servers -> RvType] /\ \A j \in Servers : rv'[j].at <= blNow
    BY <1>1 DEF BlInv, BlTypeOK, RvType
  <1>3. BlTypeOK'
    BY <1>1, <1>2 DEF BlInv, BlTypeOK
  <1>4. KeepsStores
    BY <1>1 DEF KeepsStores, InRedis
  <1> QED
    BY <1>1, <1>2, <1>3, <1>4, BlQuiet DEF BlInv

\* The row is written, or the write fails and the revocation goes on to its other store.
LEMMA BlPersistStep ==
    ASSUME BlInv, NEW i \in Servers, NEW ok \in BOOLEAN, BlPersist(i, ok)
    PROVE  BlInv'
  <1>1. /\ row' = (row \/ ok) /\ rv' = [rv EXCEPT ![i].pc = "store"]
        /\ UNCHANGED <<blNow, link, redis, memory, ck, acked, forgot>>
    BY DEF BlPersist
  <1>2. rv' \in [Servers -> RvType] /\ \A j \in Servers : rv'[j].at <= blNow
    BY <1>1 DEF BlInv, BlTypeOK, RvType
  <1>3. row' \in BOOLEAN
    BY <1>1
  <1>4. BlTypeOK'
    BY <1>1, <1>2, <1>3 DEF BlInv, BlTypeOK
  <1>5. KeepsStores
    BY <1>1 DEF KeepsStores, InRedis
  <1> QED
    BY <1>1, <1>2, <1>4, <1>5, BlQuiet DEF BlInv

\* The revocation is answered: Redis or the memory of the process has it.
LEMMA BlStoreStep ==
    ASSUME BlInv, NEW i \in Servers, NEW ok \in BOOLEAN, BlStore(i, ok)
    PROVE  BlInv'
  <1>0. /\ blNow \in Nat /\ Exp \in Nat /\ redis \in Int /\ rv[i] \in RvType
        /\ rv[i].at <= blNow /\ rv[i].at \in Nat
    BY BlacklistAssumption DEF BlInv, BlTypeOK, RvType
  <1>1. /\ acked' = TRUE /\ rv' = [rv EXCEPT ![i] = IdleRv]
        /\ UNCHANGED <<blNow, link, row, ck, forgot>>
        /\ \/ redis' = blNow + Exp - rv[i].at /\ UNCHANGED memory
           \/ memory' = [memory EXCEPT ![i] = TRUE] /\ UNCHANGED redis
    BY DEF BlStore
  <1>2. rv' \in [Servers -> RvType] /\ \A j \in Servers : rv'[j].at <= blNow
    BY <1>0, <1>1 DEF BlInv, BlTypeOK, RvType, IdleRv
  <1>3. /\ redis' \in Int /\ (redis' = 0 \/ redis' >= Exp)
        /\ memory' \in [Servers -> BOOLEAN]
        /\ \A j \in Servers : memory[j] => memory'[j]
        /\ redis' >= Exp \/ memory'[i]
        /\ redis' = redis \/ redis' >= Exp
    <2>0. memory \in [Servers -> BOOLEAN] /\ (redis = 0 \/ redis >= Exp)
      BY DEF BlInv, BlTypeOK
    <2>1. CASE redis' = blNow + Exp - rv[i].at /\ UNCHANGED memory
      <3>1. redis' \in Int /\ redis' >= Exp
        BY <1>0, <2>1
      <3> QED
        BY <2>0, <2>1, <3>1
    <2>2. CASE memory' = [memory EXCEPT ![i] = TRUE] /\ UNCHANGED redis
      <3>1. /\ memory' \in [Servers -> BOOLEAN] /\ memory'[i]
            /\ \A j \in Servers : memory[j] => memory'[j]
        BY <2>0, <2>2
      <3> QED
        BY <1>0, <2>0, <2>2, <3>1
    <2> QED
      BY <1>1, <2>1, <2>2
  <1>4. BlTypeOK'
    BY <1>1, <1>2, <1>3 DEF BlInv, BlTypeOK
  <1>5. Alive' <=> Alive
    BY <1>1 DEF Alive
  <1>6. CASE ~Alive
    BY <1>1, <1>2, <1>3, <1>4, <1>5, <1>6 DEF BlInv
  <1>7. CASE Alive
    <2>1. redis' >= Exp => InRedis'
      BY <1>0, <1>1, <1>3, <1>7 DEF Alive, InRedis
    <2>2. KeepsStores
      BY <1>1, <1>3, <2>1 DEF KeepsStores, InRedis
    <2>3. KeptSomewhere'
      BY <1>3, <2>1 DEF KeptSomewhere
    <2>4. \A j \in Servers : CheckInv(j)'
      BY <1>1, <1>7, <2>2, CheckKept DEF BlInv
    <2> QED
      BY <1>1, <1>2, <1>3, <1>4, <2>3, <2>4 DEF BlInv
  <1> QED
    BY <1>6, <1>7

\* Only the check of instance i moves on.
LEMMA BlOwnCheck ==
    ASSUME BlInv, NEW i \in Servers, NEW y \in CkType, ck' = [ck EXCEPT ![i] = y],
           UNCHANGED <<blNow, link, row, memory, rv, acked, forgot>>,
           redis' = redis \/ (Alive /\ redis' = Exp),
           Alive => CheckInv(i)'
    PROVE  BlInv'
  <1>0. blNow \in Nat /\ Exp \in Nat /\ redis \in Int
    BY BlacklistAssumption DEF BlInv, BlTypeOK
  <1>1. ck' \in [Servers -> CkType] /\ redis' \in Int
    BY <1>0 DEF BlInv, BlTypeOK
  <1>2. BlTypeOK'
    BY <1>1 DEF BlInv, BlTypeOK
  <1>3. KeepsStores
    BY <1>0 DEF KeepsStores, InRedis, Alive
  <1>4. redis' = 0 \/ redis' >= Exp
    BY <1>0 DEF BlInv
  <1>5. \A j \in Servers : j # i => ck'[j] = ck[j]
    BY DEF BlInv, BlTypeOK
  <1>6. \A j \in Servers : rv'[j].at <= blNow
    BY DEF BlInv
  <1> QED
    BY <1>2, <1>3, <1>4, <1>5, <1>6, BlQuiet

\* A server with no check in progress.
LEMMA IdleCkFacts == IdleCk \in CkType /\ IdleCk.pc = "idle"
  BY DEF IdleCk, CkType, Stores

\* A check starts, and the stores that hold an acknowledged revocation are noted.
LEMMA BlCheckStep ==
    ASSUME BlInv, NEW i \in Servers, BlCheck(i)
    PROVE  BlInv'
  <1> DEFINE h == IF acked THEN HeldBy(i) ELSE {}
             y == [pc |-> "redis", held |-> h, missed |-> {}]
  <1>1. /\ ck' = [ck EXCEPT ![i] = y]
        /\ UNCHANGED <<blNow, link, redis, row, memory, rv, acked, forgot>>
    BY DEF BlCheck
  <1>2. h \subseteq HeldBy(i) /\ h \in SUBSET Stores
    BY DEF HeldBy
  <1>3. HeldBy(i)' = HeldBy(i)
    BY <1>1 DEF HeldBy, InRedis
  <1> HIDE DEF h
  <1>4. y \in CkType /\ y.pc = "redis" /\ y.held = h
    BY <1>2 DEF CkType
  <1> HIDE DEF y
  <1>5. ck'[i] = y
    BY <1>1 DEF BlInv, BlTypeOK
  <1>6. CheckInv(i)'
    BY <1>2, <1>3, <1>4, <1>5 DEF CheckInv
  <1> QED
    BY <1>1, <1>4, <1>6, BlOwnCheck

\* EXISTS and the memory said no: only the row can still hold the token.
LEMMA BlCheckRedisStep ==
    ASSUME BlInv, NEW i \in Servers, NEW ok \in BOOLEAN, BlCheckRedis(i, ok)
    PROVE  BlInv'
  <1>0. ck \in [Servers -> CkType] /\ ck[i] \in CkType
    BY DEF BlInv, BlTypeOK
  <1>1. ck[i].pc = "redis" /\ UNCHANGED <<blNow, link, redis, row, memory, rv, acked, forgot>>
    BY DEF BlCheckRedis
  <1>2. CASE (link[i] /\ ok /\ InRedis) \/ memory[i]
    <2>1. ck' = [ck EXCEPT ![i] = IdleCk]
      BY <1>2 DEF BlCheckRedis
    <2>2. ck'[i] = IdleCk
      BY <1>0, <2>1
    <2>3. CheckInv(i)'
      BY <2>2, IdleCkFacts DEF CheckInv
    <2> QED
      BY <1>1, <2>1, <2>3, IdleCkFacts, BlOwnCheck
  <1>3. CASE ~((link[i] /\ ok /\ InRedis) \/ memory[i])
    <2> DEFINE m == IF link[i] /\ ok THEN {} ELSE {"redis"}
               y == [ck[i] EXCEPT !.pc = "db", !.missed = m]
    <2>1. ck' = [ck EXCEPT ![i] = y]
      BY <1>3 DEF BlCheckRedis
    <2>2. m \in SUBSET Stores /\ (InRedis => "redis" \in m)
      BY <1>3 DEF Stores
    <2> HIDE DEF m
    <2>3. y \in CkType /\ y.pc = "db" /\ y.held = ck[i].held /\ y.missed = m
      BY <1>0, <2>2 DEF CkType
    <2> HIDE DEF y
    <2>4. ck'[i] = y
      BY <1>0, <2>1
    <2>5. ASSUME Alive PROVE CheckInv(i)'
      <3>1. ck[i].held \subseteq HeldBy(i)
        BY <1>1, <2>5 DEF BlInv, CheckInv
      <3>2. ck[i].held \subseteq m \cup {"db"} /\ ("db" \in ck[i].held => row)
        BY <1>3, <2>2, <3>1 DEF HeldBy
      <3> QED
        BY <1>1, <2>3, <2>4, <3>2 DEF CheckInv
    <2> QED
      BY <1>1, <2>1, <2>3, <2>5, BlOwnCheck
  <1> QED
    BY <1>2, <1>3

\* The row refuses the token (and is copied to Redis), or the lookup finds nothing or fails.
LEMMA BlCheckDbStep ==
    ASSUME BlInv, NEW i \in Servers, NEW ok \in BOOLEAN, NEW copied \in BOOLEAN,
           BlCheckDb(i, ok, copied)
    PROVE  BlInv'
  <1>0. ck \in [Servers -> CkType] /\ ck[i] \in CkType
    BY DEF BlInv, BlTypeOK
  <1>1. ck[i].pc = "db" /\ UNCHANGED <<blNow, link, row, memory, rv, acked, forgot>>
    BY DEF BlCheckDb
  <1>2. CASE row /\ ok
    <2>1. /\ ck' = [ck EXCEPT ![i] = IdleCk]
          /\ redis' = redis \/ (Alive /\ redis' = Exp)
      BY <1>2 DEF BlCheckDb
    <2>2. ck'[i] = IdleCk
      BY <1>0, <2>1
    <2>3. CheckInv(i)'
      BY <2>2, IdleCkFacts DEF CheckInv
    <2> QED
      BY <1>1, <2>1, <2>3, IdleCkFacts, BlOwnCheck
  <1>3. CASE ~(row /\ ok)
    <2> DEFINE m == ck[i].missed \cup IF ok THEN {} ELSE {"db"}
               y == [ck[i] EXCEPT !.pc = "accepted", !.missed = m]
    <2>1. ck' = [ck EXCEPT ![i] = y] /\ redis' = redis
      BY <1>3 DEF BlCheckDb
    <2>2. m \in SUBSET Stores /\ ck[i].missed \subseteq m /\ (row => "db" \in m)
      <3>1. ck[i].missed \in SUBSET Stores /\ "db" \in Stores
        BY <1>0 DEF CkType, Stores
      <3> QED
        BY <1>3, <3>1
    <2>3. y \in CkType /\ y.pc = "accepted" /\ y.held = ck[i].held /\ y.missed = m
      BY <1>0, <2>2 DEF CkType
    <2> HIDE DEF m
    <2> HIDE DEF y
    <2>4. ck'[i] = y
      BY <1>0, <2>1
    <2>5. ASSUME Alive PROVE CheckInv(i)'
      <3>1. /\ ck[i].held \subseteq ck[i].missed \cup {"db"}
            /\ "db" \in ck[i].held => row
        BY <1>1, <2>5 DEF BlInv, CheckInv
      <3>2. ck[i].held \subseteq m
        BY <2>2, <3>1
      <3> QED
        BY <2>3, <2>4, <3>2 DEF CheckInv
    <2> QED
      BY <1>1, <2>1, <2>3, <2>5, BlOwnCheck
  <1> QED
    BY <1>2, <1>3

\* A token no store refused is served.
LEMMA BlServeStep ==
    ASSUME BlInv, NEW i \in Servers, BlServe(i)
    PROVE  BlInv'
  <1>1. /\ ck' = [ck EXCEPT ![i] = IdleCk]
        /\ UNCHANGED <<blNow, link, redis, row, memory, rv, acked, forgot>>
    BY DEF BlServe
  <1>2. ck'[i] = IdleCk
    BY <1>1 DEF BlInv, BlTypeOK
  <1>3. CheckInv(i)'
    BY <1>2, IdleCkFacts DEF CheckInv
  <1> QED
    BY <1>1, <1>3, IdleCkFacts, BlOwnCheck

\* A memory that held the token is lost with its process; a check with it.
LEMMA BlRestartStep ==
    ASSUME BlInv, NEW i \in Servers, NEW linked \in BOOLEAN, NEW copied \in BOOLEAN,
           BlRestart(i, linked, copied)
    PROVE  BlInv'
  <1>0. blNow \in Nat /\ Exp \in Nat /\ redis \in Int /\ BlTypeOK
    BY BlacklistAssumption DEF BlInv, BlTypeOK
  <1>1. /\ memory' = [memory EXCEPT ![i] = FALSE] /\ rv' = [rv EXCEPT ![i] = IdleRv]
        /\ ck' = [ck EXCEPT ![i] = IdleCk] /\ link' = [link EXCEPT ![i] = linked]
        /\ redis' = redis \/ (Alive /\ redis' = Exp)
        /\ forgot' = (forgot \/ memory[i]) /\ UNCHANGED <<blNow, row, acked>>
    BY DEF BlRestart
  <1>2. BlTypeOK'
    <2>1. /\ memory' \in [Servers -> BOOLEAN] /\ link' \in [Servers -> BOOLEAN]
          /\ ck' \in [Servers -> CkType] /\ redis' \in Int
      BY <1>0, <1>1, IdleCkFacts DEF BlTypeOK
    <2>2. rv' \in [Servers -> RvType]
      BY <1>0, <1>1 DEF BlTypeOK, RvType, IdleRv
    <2>3. forgot' \in BOOLEAN
      BY <1>1
    <2> QED
      BY <1>0, <1>1, <2>1, <2>2, <2>3 DEF BlTypeOK
  <1>3. /\ redis' = 0 \/ redis' >= Exp
        /\ Alive' <=> Alive
        /\ \A j \in Servers : rv'[j].at <= blNow'
    BY <1>0, <1>1 DEF BlInv, BlTypeOK, Alive, IdleRv
  <1>4. InRedis => InRedis'
    BY <1>0, <1>1 DEF InRedis, Alive
  <1>5. ~forgot' => (KeptSomewhere => KeptSomewhere')
    <2> SUFFICES ASSUME ~forgot', KeptSomewhere PROVE KeptSomewhere'
      OBVIOUS
    <2>1. ~memory[i]
      BY <1>1
    <2>2. \A j \in Servers : memory[j] => memory'[j]
      BY <1>0, <1>1, <2>1 DEF BlTypeOK
    <2> QED
      BY <1>1, <1>4, <2>2 DEF KeptSomewhere
  <1>6. ASSUME Alive, NEW j \in Servers PROVE CheckInv(j)'
    <2>1. CASE j = i
      <3>1. ck'[j] = IdleCk
        BY <1>0, <1>1, <2>1 DEF BlTypeOK
      <3> QED
        BY <3>1, IdleCkFacts DEF CheckInv
    <2>2. CASE j # i
      <3>1. ck'[j] = ck[j] /\ memory'[j] = memory[j] /\ CheckInv(j)
        BY <1>0, <1>1, <1>6, <2>2 DEF BlInv, BlTypeOK
      <3>2. HeldBy(j) \subseteq HeldBy(j)'
        BY <1>1, <1>4, <3>1 DEF HeldBy
      <3> QED
        BY <1>1, <3>1, <3>2 DEF CheckInv
    <2> QED
      BY <2>1, <2>2
  <1>7. ~forgot' => ~forgot
    BY <1>1
  <1> QED
    BY <1>1, <1>2, <1>3, <1>5, <1>6, <1>7 DEF BlInv

\* The sweep leaves a token that is still alive.
LEMMA BlCleanupStep ==
    ASSUME BlInv, NEW i \in Servers, NEW ok \in BOOLEAN, BlCleanup(i, ok)
    PROVE  BlInv'
  <1>0. blNow \in Nat /\ Exp \in Nat /\ BlTypeOK
    BY BlacklistAssumption DEF BlInv, BlTypeOK
  <1> DEFINE b == memory[i] /\ Exp >= blNow
  <1>1. /\ memory' = [memory EXCEPT ![i] = b]
        /\ row' = (row /\ (~ok \/ Exp >= blNow))
        /\ UNCHANGED <<blNow, link, redis, rv, ck, acked, forgot>>
    BY DEF BlCleanup
  <1>2. b \in BOOLEAN /\ row' \in BOOLEAN
    BY <1>1
  <1>3. Alive => (memory[i] => b) /\ (row => row')
    <2>1. Alive => Exp >= blNow
      BY <1>0 DEF Alive
    <2> QED
      BY <1>1, <2>1
  <1> HIDE DEF b
  <1>4. BlTypeOK'
    BY <1>0, <1>1, <1>2 DEF BlTypeOK
  <1>5. Alive' <=> Alive
    BY <1>1 DEF Alive
  <1>6. CASE ~Alive
    BY <1>1, <1>4, <1>5, <1>6 DEF BlInv
  <1>7. CASE Alive
    <2>1. \A j \in Servers : memory[j] => memory'[j]
      BY <1>0, <1>1, <1>3, <1>7 DEF BlTypeOK
    <2>2. KeepsStores
      BY <1>1, <1>3, <1>7, <2>1 DEF KeepsStores, InRedis
    <2> QED
      BY <1>1, <1>4, <2>2, BlQuiet DEF BlInv
  <1> QED
    BY <1>6, <1>7

\* A server's connection to Redis comes or goes.
LEMMA BlLinkStep ==
    ASSUME BlInv, NEW i \in Servers, BlLink(i)
    PROVE  BlInv'
  <1>1. /\ link' = [link EXCEPT ![i] = ~@]
        /\ UNCHANGED <<blNow, redis, row, memory, rv, ck, acked, forgot>>
    BY DEF BlLink
  <1>2. link' \in [Servers -> BOOLEAN]
    BY <1>1 DEF BlInv, BlTypeOK
  <1>3. BlTypeOK'
    BY <1>1, <1>2 DEF BlInv, BlTypeOK
  <1>4. KeepsStores
    BY <1>1 DEF KeepsStores, InRedis
  <1> QED
    BY <1>1, <1>3, <1>4, BlQuiet DEF BlInv

\* Redis loses the entry: checks in progress no longer count on it.
LEMMA BlRedisLosesStep ==
    ASSUME BlInv, BlRedisLoses
    PROVE  BlInv'
  <1>0. BlTypeOK
    BY DEF BlInv
  <1>1. /\ redis' = 0 /\ forgot' = TRUE
        /\ ck' = [i \in Servers |-> [ck[i] EXCEPT !.held = @ \ {"redis"}]]
        /\ UNCHANGED <<blNow, link, row, memory, rv, acked>>
    BY DEF BlRedisLoses
  <1>2. ASSUME NEW i \in Servers
        PROVE  /\ ck'[i] \in CkType /\ ck'[i].pc = ck[i].pc
               /\ ck'[i].missed = ck[i].missed /\ ck'[i].held = ck[i].held \ {"redis"}
    <2>1. ck[i] \in CkType
      BY <1>0 DEF BlTypeOK
    <2>2. ck[i].held \ {"redis"} \in SUBSET Stores
      BY <2>1 DEF CkType
    <2>3. ck'[i] = [ck[i] EXCEPT !.held = @ \ {"redis"}]
      BY <1>1
    <2> QED
      BY <2>1, <2>2, <2>3 DEF CkType
  <1>3. ck' \in [Servers -> CkType]
    <2>1. ck' = [i \in Servers |-> ck'[i]]
      BY <1>1
    <2> QED
      BY <1>2, <2>1
  <1>4. BlTypeOK'
    BY <1>0, <1>1, <1>3 DEF BlTypeOK
  <1>5. Alive' <=> Alive
    BY <1>1 DEF Alive
  <1>6. ASSUME Alive, NEW i \in Servers PROVE CheckInv(i)'
    <2>1. CheckInv(i)
      BY <1>6 DEF BlInv
    <2>2. HeldBy(i) \ {"redis"} \subseteq HeldBy(i)'
      BY <1>1 DEF HeldBy
    <2> QED
      BY <1>1, <1>2, <2>1, <2>2 DEF CheckInv
  <1> QED
    BY <1>1, <1>4, <1>5, <1>6 DEF BlInv

\* Time passes; the entries lapse only when the token does.
LEMMA BlTickStep ==
    ASSUME BlInv, BlTick
    PROVE  BlInv'
  <1>0. /\ blNow \in Nat /\ Exp \in Nat /\ redis \in Int /\ BlTypeOK
        /\ \A i \in Servers : rv[i].at \in Nat
    BY BlacklistAssumption DEF BlInv, BlTypeOK, RvType
  <1>1. blNow' = blNow + 1 /\ UNCHANGED <<link, redis, row, memory, rv, ck, acked, forgot>>
    BY DEF BlTick
  <1>2. BlTypeOK'
    BY <1>0, <1>1 DEF BlTypeOK
  <1>3. \A i \in Servers : rv'[i].at <= blNow'
    BY <1>0, <1>1 DEF BlInv
  <1>4. CASE ~Alive'
    BY <1>1, <1>2, <1>3, <1>4 DEF BlInv
  <1>5. CASE Alive'
    <2>1. Alive /\ (InRedis => InRedis')
      BY <1>0, <1>1, <1>5 DEF BlInv, Alive, InRedis
    <2>2. KeepsStores
      BY <1>1, <2>1 DEF KeepsStores
    <2>3. KeptSomewhere => KeptSomewhere'
      BY <2>2 DEF KeptSomewhere, KeepsStores
    <2>4. \A i \in Servers : CheckInv(i)'
      BY <1>1, <2>1, <2>2, CheckKept DEF BlInv
    <2> QED
      BY <1>1, <1>2, <1>3, <2>1, <2>3, <2>4 DEF BlInv
  <1> QED
    BY <1>4, <1>5

\* No token is revoked at the start.
LEMMA BlInvInit == BlInit => BlInv
  <1> SUFFICES ASSUME BlInit PROVE BlInv
    OBVIOUS
  <1>1. \A i \in Servers : ck[i] = IdleCk /\ rv[i] = IdleRv
    BY DEF BlInit
  <1>2. BlTypeOK
    <2>1. IdleRv \in RvType
      BY DEF IdleRv, RvType
    <2>2. rv \in [Servers -> RvType] /\ ck \in [Servers -> CkType]
      BY <2>1, IdleCkFacts DEF BlInit
    <2>3. memory \in [Servers -> BOOLEAN] /\ link \in [Servers -> BOOLEAN]
      BY DEF BlInit
    <2>4. blNow \in Nat /\ redis \in Int
      BY DEF BlInit
    <2>5. row \in BOOLEAN /\ acked \in BOOLEAN /\ forgot \in BOOLEAN
      BY DEF BlInit
    <2> QED
      BY <2>2, <2>3, <2>4, <2>5 DEF BlTypeOK
  <1>3. \A i \in Servers : CheckInv(i)
    BY <1>1, IdleCkFacts DEF CheckInv
  <1>4. \A i \in Servers : rv[i].at <= blNow
    <2>1. blNow = 0 /\ IdleRv.at = 0
      BY DEF BlInit, IdleRv
    <2>2. \A i \in Servers : rv[i].at = 0
      BY <1>1, <2>1
    <2>3. 0 <= 0
      OBVIOUS
    <2> QED
      BY <2>1, <2>2, <2>3
  <1> QED
    BY <1>2, <1>3, <1>4 DEF BlInit, BlInv

\* Every step of the blacklist keeps its invariant.
LEMMA BlInvNext == BlInv /\ [BlNext]_blVars => BlInv'
  <1> SUFFICES ASSUME BlInv, [BlNext]_blVars PROVE BlInv'
    OBVIOUS
  <1>1. ASSUME NEW i \in Servers, BlRevoke(i) \/ BlCheck(i) \/ BlServe(i) \/ BlLink(i)
        PROVE  BlInv'
    BY <1>1, BlRevokeStep, BlCheckStep, BlServeStep, BlLinkStep
  <1>2. ASSUME NEW i \in Servers, NEW ok \in BOOLEAN,
               BlPersist(i, ok) \/ BlStore(i, ok) \/ BlCheckRedis(i, ok) \/ BlCleanup(i, ok)
        PROVE  BlInv'
    BY <1>2, BlPersistStep, BlStoreStep, BlCheckRedisStep, BlCleanupStep
  <1>3. ASSUME NEW i \in Servers, NEW ok \in BOOLEAN, NEW b \in BOOLEAN,
               BlCheckDb(i, ok, b) \/ BlRestart(i, ok, b)
        PROVE  BlInv'
    BY <1>3, BlCheckDbStep, BlRestartStep
  <1>4. CASE BlRedisLoses
    BY <1>4, BlRedisLosesStep
  <1>5. CASE BlTick
    BY <1>5, BlTickStep
  <1>6. CASE UNCHANGED blVars
    <2>1. BlTypeOK' /\ KeepsStores
      BY <1>6 DEF blVars, BlInv, BlTypeOK, KeepsStores, InRedis
    <2> QED
      BY <1>6, <2>1, BlQuiet DEF blVars, BlInv
  <1> QED
    BY <1>1, <1>2, <1>3, <1>4, <1>5, <1>6 DEF BlNext

(* A revocation lasts as long as the token (blacklistToken, isBlacklisted), *)
(* for any number of instances, revocations and checks under way at once,   *)
(* and any exp: the Redis key outlives the token whenever it was written.   *)
THEOREM RevocationLastsHolds == BlSpec => []RevocationLasts
  <1>1. BlInv => RevocationLasts
    <2> SUFFICES ASSUME BlInv PROVE RevocationLasts
      OBVIOUS
    <2>1. ASSUME acked, Alive, ~forgot PROVE \E i \in Servers : HeldBy(i) # {}
      <3>1. KeptSomewhere /\ Servers # {}
        BY <2>1 DEF BlInv
      <3> QED
        BY <3>1 DEF KeptSomewhere, HeldBy, Stores
    <2>2. ASSUME NEW i \in Servers, ck[i].pc = "accepted", Alive
          PROVE  ck[i].held \subseteq ck[i].missed
      BY <2>2 DEF BlInv, CheckInv
    <2> QED
      BY <2>1, <2>2 DEF RevocationLasts
  <1> QED
    BY <1>1, BlInvInit, BlInvNext, PTL DEF BlSpec

-----------------------------------------------------------------------------
(* Passkeys.  A challenge is unused, then stored, then claimed by at most   *)
(* one request, then spent: while it is stored or claimed it has signed     *)
(* nobody in, and no passkey, stored or read, was registered with it.       *)

PkRowType == [exists : BOOLEAN, id : 0..NChallenges, counter : Nat]
PkReqType == [pc : {"idle", "store", "lookup", "expired", "claim", "update", "register"},
              slot : Slots, challenge : 0..NChallenges, answered : 0..NChallenges,
              row : PkRowType]

PkTypeOK ==
    /\ pkNow \in Nat /\ nChal \in 0..NChallenges
    /\ pending \in [Slots -> [challenge : 0..NChallenges, until : Nat]]
    /\ passkey \in PkRowType
    /\ signature \in [Challenges -> Nat] /\ signCount \in Nat
    /\ pk \in [PkReqs -> PkReqType]
    /\ signIns \in [Challenges -> Nat] /\ highest \in Nat /\ overlap \in BOOLEAN

Stored(c)    == \E s \in Slots : pending[s].challenge = c
Claims(r, c) == pk[r].pc \in {"update", "register"} /\ pk[r].answered = c
Fresh(c)     == signIns[c] = 0 /\ passkey.id # c /\ \A q \in PkReqs : pk[q].row.id # c

ChalInv(c) ==
    /\ signIns[c] <= 1
    /\ c > nChal \/ Stored(c) => Fresh(c) /\ \A r \in PkReqs : ~Claims(r, c)
    /\ Stored(c) => c <= nChal
    /\ \A s, t \in Slots : pending[s].challenge = c /\ pending[t].challenge = c => s = t
    /\ \A r \in PkReqs : Claims(r, c) => Fresh(c) /\ \A q \in PkReqs : Claims(q, c) => q = r

\* What a request x knows of the response it verifies
PkReqOk(x, sig) ==
    /\ x.pc \in {"lookup", "claim", "expired", "update", "register"} => x.answered \in Challenges
    /\ x.pc \in {"lookup", "claim", "expired"} => x.slot = "register" \/ x.row.exists
    /\ x.pc = "update" => x.row.exists /\ sig[x.answered] > x.row.counter

\* A request that has read the stored passkey has read the highest counter,
\* and is alone, unless sign-ins overlapped.
HasRead(r) == pk[r].row.exists /\ pk[r].row.id = passkey.id
CounterInv ==
    passkey.exists /\ ~overlap =>
        /\ passkey.counter = highest
        /\ \A r \in PkReqs : HasRead(r) => pk[r].row.counter = highest
        /\ \A r, q \in PkReqs : HasRead(r) /\ HasRead(q) => q = r

PkInv ==
    /\ PkTypeOK
    /\ \A c \in Challenges : ChalInv(c)
    /\ \A r \in PkReqs : PkReqOk(pk[r], signature)
    /\ CounterInv

\* A request slot that serves nobody, and the absent passkey and challenge.
LEMMA IdlePkFacts ==
    /\ IdlePk \in PkReqType /\ IdlePk.pc = "idle" /\ IdlePk.row = NoPasskey
    /\ NoPasskey \in PkRowType /\ NoPasskey.exists = FALSE /\ NoPasskey.id = 0
    /\ NoPending \in [challenge : 0..NChallenges, until : Nat] /\ NoPending.challenge = 0
    /\ \A sig : PkReqOk(IdlePk, sig)
  <1>1. /\ NoPasskey \in PkRowType /\ NoPasskey.exists = FALSE /\ NoPasskey.id = 0
        /\ NoPending \in [challenge : 0..NChallenges, until : Nat] /\ NoPending.challenge = 0
    BY PasskeysAssumption DEF NoPasskey, NoPending, PkRowType
  <1>2. IdlePk \in PkReqType /\ IdlePk.pc = "idle" /\ IdlePk.row = NoPasskey
    BY <1>1, PasskeysAssumption DEF IdlePk, PkReqType, Slots
  <1> QED
    BY <1>1, <1>2 DEF PkReqOk

\* No passkey and no challenge exist at the start.
LEMMA PkInvInit == ASSUME PkInit PROVE PkInv
  <1>1. /\ \A r \in PkReqs : pk[r] = IdlePk
        /\ \A s \in Slots : pending[s] = NoPending
        /\ \A c \in Challenges : signIns[c] = 0
        /\ passkey.id = 0 /\ passkey.counter = 0 /\ highest = 0
    BY DEF PkInit, NoPasskey
  <1>2. PkTypeOK
    <2>1. passkey = NoPasskey \/ passkey = [NoPasskey EXCEPT !.exists = TRUE]
      BY DEF PkInit
    <2>2. NoPasskey \in PkRowType /\ [NoPasskey EXCEPT !.exists = TRUE] \in PkRowType
      BY IdlePkFacts DEF PkRowType
    <2> QED
      BY <2>1, <2>2, IdlePkFacts, PasskeysAssumption DEF PkInit, PkTypeOK
  <1>3. ASSUME NEW c \in Challenges PROVE ChalInv(c)
    <2>1. c \in Nat /\ c # 0
      BY PasskeysAssumption DEF Challenges
    <2>2. ~Stored(c) /\ Fresh(c) /\ \A r \in PkReqs : ~Claims(r, c)
      BY <1>1, <2>1, IdlePkFacts DEF Stored, Fresh, Claims
    <2> QED
      BY <1>1, <2>1, <2>2, IdlePkFacts DEF ChalInv
  <1>4. \A r \in PkReqs : PkReqOk(pk[r], signature)
    BY <1>1, IdlePkFacts
  <1>5. CounterInv
    BY <1>1, IdlePkFacts DEF CounterInv, HasRead
  <1> QED
    BY <1>2, <1>3, <1>4, <1>5 DEF PkInv

(* A request that does not claim its challenge: stored challenges can only  *)
(* go, and the request keeps the passkey it has read, or none.              *)
LEMMA PkMove ==
    ASSUME PkInv, NEW r \in PkReqs, NEW x,
           x \in PkReqType, x.pc \notin {"update", "register"},
           x.row = pk[r].row \/ x.row = NoPasskey, PkReqOk(x, signature),
           pk' = [pk EXCEPT ![r] = x],
           pending' \in [Slots -> [challenge : 0..NChallenges, until : Nat]],
           \A s \in Slots : pending'[s] = pending[s] \/ pending'[s] = NoPending,
           UNCHANGED <<pkNow, nChal, passkey, signature, signCount, signIns, highest, overlap>>
    PROVE  PkInv'
  <1>1. /\ pk'[r] = x /\ pk' \in [PkReqs -> PkReqType]
        /\ \A q \in PkReqs : q # r => pk'[q] = pk[q]
    BY DEF PkInv, PkTypeOK
  <1>2. PkTypeOK'
    BY <1>1 DEF PkInv, PkTypeOK
  <1>3. ASSUME NEW c \in Challenges PROVE ChalInv(c)'
    <2>0. c \in Nat /\ c # 0 /\ ChalInv(c) /\ nChal \in Nat
      BY PasskeysAssumption DEF Challenges, PkInv, PkTypeOK
    <2>1. \A q \in PkReqs : pk'[q].row = pk[q].row \/ pk'[q].row = NoPasskey
      BY <1>1
    <2>2. Fresh(c) => Fresh(c)'
      BY <2>0, <2>1, IdlePkFacts DEF Fresh
    <2>3. \A q \in PkReqs : Claims(q, c)' => Claims(q, c)
      BY <1>1 DEF Claims
    <2>4. \A s \in Slots : pending'[s].challenge = c => pending[s].challenge = c
      BY <2>0, IdlePkFacts
    <2>5. Stored(c)' => Stored(c)
      BY <2>4 DEF Stored
    <2> QED
      BY <2>0, <2>2, <2>3, <2>4, <2>5 DEF ChalInv
  <1>4. \A q \in PkReqs : PkReqOk(pk'[q], signature')
    BY <1>1 DEF PkInv
  <1>5. CounterInv'
    <2>1. \A q \in PkReqs : HasRead(q)' => HasRead(q) /\ pk'[q].row = pk[q].row
      BY <1>1, IdlePkFacts DEF HasRead
    <2> QED
      BY <2>1 DEF PkInv, CounterInv
  <1> QED
    BY <1>2, <1>3, <1>4, <1>5 DEF PkInv

\* Ending a request is such a step.
LEMMA PkEnds ==
    ASSUME PkInv, NEW r \in PkReqs, PkFinish(r),
           pending' \in [Slots -> [challenge : 0..NChallenges, until : Nat]],
           \A s \in Slots : pending'[s] = pending[s] \/ pending'[s] = NoPending,
           UNCHANGED <<pkNow, nChal, passkey, signature, signCount, signIns, highest, overlap>>
    PROVE  PkInv'
  BY IdlePkFacts, PkMove DEF PkFinish

\* New options first clear the pending slot.
LEMMA PkOptionsStep ==
    ASSUME PkInv, NEW r \in PkReqs, NEW s \in Slots, PkOptions(r, s)
    PROVE  PkInv'
  <1> DEFINE x == [IdlePk EXCEPT !.pc = "store", !.slot = s]
  <1>1. /\ pk' = [pk EXCEPT ![r] = x] /\ pending' = [pending EXCEPT ![s] = NoPending]
        /\ UNCHANGED <<pkNow, nChal, passkey, signature, signCount, signIns, highest, overlap>>
    BY DEF PkOptions
  <1>2. /\ pending' \in [Slots -> [challenge : 0..NChallenges, until : Nat]]
        /\ \A t \in Slots : pending'[t] = pending[t] \/ pending'[t] = NoPending
    BY <1>1, IdlePkFacts DEF PkInv, PkTypeOK
  <1>3. x \in PkReqType /\ x.pc = "store" /\ x.row = NoPasskey
    BY IdlePkFacts DEF PkReqType, IdlePk
  <1> HIDE DEF x
  <1>4. PkReqOk(x, signature)
    BY <1>3 DEF PkReqOk
  <1> QED
    BY <1>1, <1>2, <1>3, <1>4, PkMove

\* The new challenge is above every other one.
LEMMA PkStoreStep ==
    ASSUME PkInv, NEW r \in PkReqs, PkStore(r)
    PROVE  PkInv'
  <1> DEFINE s == pk[r].slot
  <1>0. s \in Slots /\ nChal \in Nat /\ nChal < NChallenges /\ NChallenges \in Nat
    BY PasskeysAssumption DEF PkInv, PkTypeOK, PkReqType, PkStore
  <1>1. CASE pending[s] # NoPending
    BY <1>1, PkEnds DEF PkStore, PkInv, PkTypeOK
  <1>2. CASE pending[s] = NoPending
    <2> DEFINE n == nChal + 1
               p == [challenge |-> n, until |-> pkNow + ChallengeTTL]
    <2>1. /\ nChal' = n /\ pending' = [pending EXCEPT ![s] = p]
          /\ pk' = [pk EXCEPT ![r] = IdlePk]
          /\ UNCHANGED <<pkNow, passkey, signature, signCount, signIns, highest, overlap>>
      BY <1>2 DEF PkStore, PkFinish
    <2>2. /\ p \in [challenge : 0..NChallenges, until : Nat] /\ p.challenge = n
          /\ n \in Challenges
      BY <1>0, PasskeysAssumption DEF PkInv, PkTypeOK, Challenges
    <2> HIDE DEF p
    <2>3. /\ pk'[r] = IdlePk /\ pk' \in [PkReqs -> PkReqType]
          /\ \A q \in PkReqs : q # r => pk'[q] = pk[q]
          /\ pending' \in [Slots -> [challenge : 0..NChallenges, until : Nat]]
          /\ pending'[s] = p /\ \A t \in Slots : t # s => pending'[t] = pending[t]
      BY <1>0, <2>1, <2>2, IdlePkFacts DEF PkInv, PkTypeOK
    <2>4. PkTypeOK'
      BY <1>0, <2>1, <2>3 DEF PkInv, PkTypeOK
    <2>5. ASSUME NEW c \in Challenges PROVE ChalInv(c)'
      <3>0. c \in Nat /\ c # 0 /\ ChalInv(c)
        BY PasskeysAssumption DEF Challenges, PkInv, PkTypeOK
      <3>1. Fresh(c) => Fresh(c)'
        BY <2>1, <2>3, <3>0, IdlePkFacts DEF Fresh
      <3>2. \A q \in PkReqs : Claims(q, c)' => Claims(q, c)
        BY <2>3, IdlePkFacts DEF Claims
      <3>3. CASE c # n
        <4>1. \A t \in Slots : pending'[t].challenge = c => pending[t].challenge = c
          BY <2>2, <2>3, <3>3
        <4>2. Stored(c)' => Stored(c)
          BY <4>1 DEF Stored
        <4> QED
          BY <1>0, <2>1, <3>0, <3>1, <3>2, <3>3, <4>1, <4>2 DEF ChalInv
      <3>4. CASE c = n
        <4>1. Fresh(c) /\ (\A q \in PkReqs : ~Claims(q, c)) /\ ~Stored(c)
          BY <1>0, <3>0, <3>4 DEF ChalInv
        <4>2. \A t \in Slots : pending'[t].challenge = c => t = s
          BY <2>3, <4>1 DEF Stored
        <4> QED
          BY <1>0, <2>1, <3>0, <3>1, <3>2, <3>4, <4>1, <4>2 DEF ChalInv
      <3> QED
        BY <3>3, <3>4
    <2>6. \A q \in PkReqs : PkReqOk(pk'[q], signature')
      BY <2>1, <2>3, IdlePkFacts DEF PkInv
    <2>7. CounterInv'
      <3>1. \A q \in PkReqs : HasRead(q)' => HasRead(q) /\ pk'[q].row = pk[q].row
        BY <2>1, <2>3, IdlePkFacts DEF HasRead
      <3> QED
        BY <2>1, <3>1 DEF PkInv, CounterInv
    <2> QED
      BY <2>4, <2>5, <2>6, <2>7 DEF PkInv
  <1> QED
    BY <1>1, <1>2

\* The authenticator answers a challenge nobody verifies yet.
LEMMA PkSignStep ==
    ASSUME PkInv, NEW c \in Challenges, PkSign(c)
    PROVE  PkInv'
  <1>1. /\ signature[c] = 0 /\ signCount' = signCount + 1
        /\ signature' = [signature EXCEPT ![c] = signCount']
        /\ UNCHANGED <<pkNow, pending, nChal, passkey, pk, signIns, highest, overlap>>
    BY DEF PkSign
  <1>2. PkTypeOK' /\ \A d \in Challenges : signature'[d] \in Nat /\ signature[d] \in Nat
    BY <1>1 DEF PkInv, PkTypeOK
  <1>3. \A d \in Challenges : ChalInv(d)'
    BY <1>1 DEF PkInv, ChalInv, Stored, Claims, Fresh
  <1>4. \A d \in Challenges : signature'[d] >= signature[d]
    BY <1>1, <1>2 DEF PkInv, PkTypeOK
  <1>5. ASSUME NEW q \in PkReqs PROVE PkReqOk(pk'[q], signature')
    <2>1. PkReqOk(pk[q], signature) /\ pk[q].row.counter \in Nat
      BY DEF PkInv, PkTypeOK, PkReqType, PkRowType
    <2> QED
      BY <1>1, <1>2, <1>4, <2>1 DEF PkReqOk
  <1>6. CounterInv'
    BY <1>1 DEF PkInv, CounterInv, HasRead
  <1> QED
    BY <1>2, <1>3, <1>5, <1>6 DEF PkInv

\* The row that was read is the stored one.
LEMMA PkBeginStep ==
    ASSUME PkInv, NEW r \in PkReqs, NEW c \in Challenges, PkBegin(r, c)
    PROVE  PkInv'
  <1> DEFINE x == [IdlePk EXCEPT !.pc = "lookup", !.answered = c, !.row = passkey]
  <1>1. /\ pk' = [pk EXCEPT ![r] = x] /\ passkey.exists
        /\ UNCHANGED <<pkNow, pending, nChal, passkey, signature, signCount, signIns, highest>>
    BY DEF PkBegin
  <1>2. overlap' \in BOOLEAN /\ (~overlap' => ~overlap /\ Verifying = {})
    BY DEF PkBegin, PkInv, PkTypeOK
  <1>3. x \in PkReqType /\ x.pc = "lookup" /\ x.row = passkey /\ x.answered = c
    <2>1. c \in 0..NChallenges /\ passkey \in PkRowType
      BY PasskeysAssumption DEF Challenges, PkInv, PkTypeOK
    <2> QED
      BY <2>1, IdlePkFacts DEF PkReqType
  <1> HIDE DEF x
  <1>4. /\ pk'[r] = x /\ pk' \in [PkReqs -> PkReqType]
        /\ \A q \in PkReqs : q # r => pk'[q] = pk[q]
    BY <1>1, <1>3 DEF PkInv, PkTypeOK
  <1>5. PkTypeOK'
    BY <1>1, <1>2, <1>4 DEF PkInv, PkTypeOK
  <1>6. ASSUME NEW d \in Challenges PROVE ChalInv(d)'
    <2>1. Fresh(d) => Fresh(d)'
      BY <1>1, <1>3, <1>4 DEF Fresh
    <2>2. \A q \in PkReqs : Claims(q, d)' => Claims(q, d)
      BY <1>3, <1>4 DEF Claims
    <2> QED
      BY <1>1, <2>1, <2>2 DEF PkInv, ChalInv, Stored
  <1>7. ASSUME NEW q \in PkReqs PROVE PkReqOk(pk'[q], signature')
    BY <1>1, <1>3, <1>4 DEF PkInv, PkReqOk
  <1>8. CounterInv'
    <2> SUFFICES ASSUME ~overlap' PROVE CounterInv'
      BY DEF CounterInv
    <2>1. \A q \in PkReqs : q # r => ~HasRead(q)'
      BY <1>2, <1>4 DEF Verifying, HasRead
    <2> QED
      BY <1>1, <1>2, <1>3, <1>4, <2>1 DEF PkInv, CounterInv
  <1> QED
    BY <1>5, <1>6, <1>7, <1>8 DEF PkInv

\* A registration arrives with an answer to a challenge that was signed.
LEMMA PkRegisterBeginStep ==
    ASSUME PkInv, NEW r \in PkReqs, NEW c \in Challenges, PkRegisterBegin(r, c)
    PROVE  PkInv'
  <1> DEFINE x == [IdlePk EXCEPT !.pc = "lookup", !.slot = "register", !.answered = c]
  <1>1. /\ pk' = [pk EXCEPT ![r] = x]
        /\ UNCHANGED <<pkNow, pending, nChal, passkey, signature, signCount, signIns, highest, overlap>>
    BY DEF PkRegisterBegin
  <1>2. /\ x \in PkReqType /\ x.pc = "lookup" /\ x.row = NoPasskey /\ x.answered = c
        /\ x.slot = "register"
    <2>1. c \in 0..NChallenges
      BY PasskeysAssumption DEF Challenges
    <2> QED
      BY <2>1, IdlePkFacts, PasskeysAssumption DEF PkReqType, IdlePk, Slots
  <1> HIDE DEF x
  <1>3. PkReqOk(x, signature)
    BY <1>2 DEF PkReqOk
  <1>4. pending' \in [Slots -> [challenge : 0..NChallenges, until : Nat]]
    BY <1>1 DEF PkInv, PkTypeOK
  <1> QED
    BY <1>1, <1>2, <1>3, <1>4, PkMove

\* The key of the realm after that of the user, or the end
LEMMA PkNextSlot ==
    ASSUME PkInv, NEW r \in PkReqs, pk[r].pc \in {"lookup", "expired"}, NextSlot(r),
           pending' \in [Slots -> [challenge : 0..NChallenges, until : Nat]],
           \A s \in Slots : pending'[s] = pending[s] \/ pending'[s] = NoPending,
           UNCHANGED <<pkNow, nChal, passkey, signature, signCount, signIns, highest, overlap>>
    PROVE  PkInv'
  <1>1. CASE pk[r].slot = "user"
    <2> DEFINE x == [pk[r] EXCEPT !.pc = "lookup", !.slot = "realm"]
    <2>0. pk[r] \in PkReqType /\ pk \in [PkReqs -> PkReqType]
      BY DEF PkInv, PkTypeOK
    <2>1. pk' = [pk EXCEPT ![r] = x]
      BY <1>1, <2>0 DEF NextSlot
    <2>2. /\ x \in PkReqType /\ x.pc = "lookup" /\ x.row = pk[r].row
          /\ x.answered = pk[r].answered /\ x.slot = "realm"
      BY <2>0 DEF PkReqType, Slots
    <2> HIDE DEF x
    <2>3. PkReqOk(x, signature)
      BY <1>1, <2>2 DEF PkInv, PkReqOk
    <2> QED
      BY <2>1, <2>2, <2>3, PkMove
  <1>2. CASE pk[r].slot # "user"
    BY <1>2, PkEnds DEF NextSlot
  <1> QED
    BY <1>1, <1>2

\* The pending challenge of the slot is read: absent, expired, or to be claimed.
LEMMA PkLookupStep ==
    ASSUME PkInv, NEW r \in PkReqs, PkLookup(r)
    PROVE  PkInv'
  <1> DEFINE p == pending[pk[r].slot]
  <1>0. /\ pk[r] \in PkReqType /\ pk \in [PkReqs -> PkReqType] /\ pk[r].pc = "lookup"
        /\ p \in [challenge : 0..NChallenges, until : Nat]
        /\ UNCHANGED <<pkNow, pending, nChal, passkey, signature, signCount, signIns, highest, overlap>>
        /\ pending' \in [Slots -> [challenge : 0..NChallenges, until : Nat]]
    BY DEF PkInv, PkTypeOK, PkLookup, PkReqType
  <1>1. CASE p = NoPending
    BY <1>0, <1>1, PkNextSlot DEF PkLookup
  <1>2. CASE p # NoPending
    <2> DEFINE l == IF p.until < pkNow THEN "expired" ELSE "claim"
               x == [pk[r] EXCEPT !.pc = l, !.challenge = p.challenge]
    <2>1. pk' = [pk EXCEPT ![r] = x]
      BY <1>0, <1>2 DEF PkLookup
    <2>2. l \in {"expired", "claim"} /\ p.challenge \in 0..NChallenges
      BY <1>0
    <2> HIDE DEF l, p
    <2>3. /\ x \in PkReqType /\ x.pc = l /\ x.row = pk[r].row
          /\ x.answered = pk[r].answered /\ x.slot = pk[r].slot
      BY <1>0, <2>2 DEF PkReqType
    <2> HIDE DEF x
    <2>4. PkReqOk(x, signature)
      BY <1>0, <2>2, <2>3 DEF PkInv, PkReqOk
    <2> QED
      BY <1>0, <2>1, <2>2, <2>3, <2>4, PkMove
  <1> QED
    BY <1>1, <1>2

\* An expired challenge is dropped, or was claimed by another request meanwhile.
LEMMA PkExpiredStep ==
    ASSUME PkInv, NEW r \in PkReqs, PkExpired(r)
    PROVE  PkInv'
  <1>0. /\ pk[r].pc = "expired" /\ pending \in [Slots -> [challenge : 0..NChallenges, until : Nat]]
        /\ UNCHANGED <<pkNow, nChal, passkey, signature, signCount, signIns, highest, overlap>>
    BY DEF PkInv, PkTypeOK, PkExpired
  <1>1. CASE Consumed(r)
    BY <1>0, <1>1, PkEnds DEF PkExpired
  <1>2. CASE ~Consumed(r)
    <2>1. NextSlot(r) /\ pending' = [pending EXCEPT ![pk[r].slot] = NoPending]
      BY <1>2 DEF PkExpired
    <2>2. /\ pending' \in [Slots -> [challenge : 0..NChallenges, until : Nat]]
          /\ \A s \in Slots : pending'[s] = pending[s] \/ pending'[s] = NoPending
      BY <1>0, <2>1, IdlePkFacts
    <2> QED
      BY <1>0, <2>1, <2>2, PkNextSlot
  <1> QED
    BY <1>1, <1>2

(* The request that deletes the row claims the challenge: it was stored, so *)
(* nobody has claimed it, and it is stored no more.                         *)
LEMMA PkClaimStep ==
    ASSUME PkInv, NEW r \in PkReqs, PkClaim(r)
    PROVE  PkInv'
  <1>0. /\ pk[r].pc = "claim" /\ pending \in [Slots -> [challenge : 0..NChallenges, until : Nat]]
        /\ pk[r] \in PkReqType /\ pk \in [PkReqs -> PkReqType] /\ pk[r].slot \in Slots
        /\ UNCHANGED <<pkNow, nChal, passkey, signature, signCount, signIns, highest, overlap>>
    BY DEF PkInv, PkTypeOK, PkClaim, PkReqType
  <1>1. /\ pending' \in [Slots -> [challenge : 0..NChallenges, until : Nat]]
        /\ \A s \in Slots : pending'[s] = pending[s] \/ pending'[s] = NoPending
    BY <1>0, IdlePkFacts DEF PkClaim
  <1>2. CASE ~(~Consumed(r) /\ Verified(r))
    BY <1>0, <1>1, <1>2, PkEnds DEF PkClaim
  <1>3. CASE ~Consumed(r) /\ Verified(r)
    <2> DEFINE a == pk[r].answered
               l == IF pk[r].slot = "register" THEN "register" ELSE "update"
               x == [pk[r] EXCEPT !.pc = l]
    <2>1. pk' = [pk EXCEPT ![r] = x] /\ pending' = [pending EXCEPT ![pk[r].slot] = NoPending]
      BY <1>0, <1>3 DEF PkClaim, PkGoto
    <2>2. /\ a \in Challenges /\ pending[pk[r].slot].challenge = a
          /\ pk[r].slot = "register" \/ (pk[r].row.exists /\ signature[a] > pk[r].row.counter)
      BY <1>0, <1>3 DEF PkInv, PkReqOk, Consumed, Verified
    <2>3. /\ l \in {"update", "register"} /\ x \in PkReqType /\ x.pc = l
          /\ x.row = pk[r].row /\ x.answered = a /\ x.slot = pk[r].slot
      BY <1>0 DEF PkReqType
    <2>4. PkReqOk(x, signature)
      BY <2>2, <2>3 DEF PkReqOk
    <2> HIDE DEF l, x
    <2>5. /\ pk'[r] = x /\ pk' \in [PkReqs -> PkReqType]
          /\ \A q \in PkReqs : q # r => pk'[q] = pk[q]
      BY <1>0, <2>1, <2>3
    <2>6. PkTypeOK'
      BY <1>0, <1>1, <2>5 DEF PkInv, PkTypeOK
    <2>7. ASSUME NEW c \in Challenges PROVE ChalInv(c)'
      <3>0. c \in Nat /\ c # 0 /\ ChalInv(c) /\ nChal \in Nat
        BY PasskeysAssumption DEF Challenges, PkInv, PkTypeOK
      <3>1. Fresh(c) => Fresh(c)'
        BY <1>0, <2>3, <2>5 DEF Fresh
      <3>2. \A s \in Slots : pending'[s].challenge = c => pending[s].challenge = c
        BY <1>1, <3>0, IdlePkFacts
      <3>3. Stored(c)' => Stored(c)
        BY <3>2 DEF Stored
      <3>4. CASE c # a
        <4>1. \A q \in PkReqs : Claims(q, c)' => Claims(q, c)
          BY <2>3, <2>5, <3>4 DEF Claims
        <4> QED
          BY <1>0, <3>0, <3>1, <3>2, <3>3, <4>1 DEF ChalInv
      <3>5. CASE c = a
        <4>1. Stored(c)
          BY <1>0, <2>2, <3>5 DEF Stored
        <4>2. Fresh(c) /\ c <= nChal /\ \A q \in PkReqs : ~Claims(q, c)
          BY <3>0, <4>1 DEF ChalInv
        <4>3. \A q \in PkReqs : Claims(q, c)' => q = r
          BY <2>5, <4>2 DEF Claims
        <4>4. pending'[pk[r].slot].challenge # c
          BY <1>0, <2>1, <3>0, IdlePkFacts
        <4>5. \A s \in Slots : pending'[s].challenge # c
          BY <1>0, <2>2, <3>0, <3>2, <3>5, <4>4 DEF ChalInv
        <4>6. ~Stored(c)' /\ ~(c > nChal')
          BY <1>0, <3>0, <4>2, <4>5 DEF Stored
        <4> QED
          BY <1>0, <3>0, <3>1, <4>2, <4>3, <4>5, <4>6 DEF ChalInv
      <3> QED
        BY <3>4, <3>5
    <2>8. \A q \in PkReqs : PkReqOk(pk'[q], signature')
      BY <1>0, <2>4, <2>5 DEF PkInv
    <2>9. CounterInv'
      <3>1. \A q \in PkReqs : HasRead(q)' => HasRead(q) /\ pk'[q].row = pk[q].row
        BY <1>0, <2>3, <2>5 DEF HasRead
      <3> QED
        BY <1>0, <3>1 DEF PkInv, CounterInv
    <2> QED
      BY <2>6, <2>7, <2>8, <2>9 DEF PkInv
  <1> QED
    BY <1>2, <1>3

(* The claimed challenge is spent: one sign-in, and the counter read is     *)
(* still the highest one, so the new one is.                                *)
LEMMA PkUpdateStep ==
    ASSUME PkInv, NEW r \in PkReqs, PkUpdate(r)
    PROVE  PkInv'
  <1> DEFINE a == pk[r].answered
             n == signature[a]
  <1>0. /\ a \in Challenges /\ pk[r].row.exists /\ n > pk[r].row.counter
        /\ pk[r].row \in PkRowType /\ pk[r].row.counter \in Nat
        /\ signature \in [Challenges -> Nat] /\ n \in Nat /\ Claims(r, a)
        /\ PkFinish(r) /\ pk[r].pc = "update"
        /\ UNCHANGED <<pkNow, pending, nChal, signature, signCount, overlap>>
    BY DEF PkInv, PkTypeOK, PkReqOk, PkReqType, PkRowType, PkUpdate, Claims
  <1>1. CASE ~(passkey.exists /\ passkey.id = pk[r].row.id)
    BY <1>0, <1>1, PkEnds DEF PkUpdate, PkInv, PkTypeOK
  <1>2. CASE passkey.exists /\ passkey.id = pk[r].row.id
    <2>1. /\ passkey' = [passkey EXCEPT !.counter = n]
          /\ signIns' = [signIns EXCEPT ![a] = @ + 1]
          /\ highest' = IF n > highest THEN n ELSE highest
      BY <1>2 DEF PkUpdate
    <2>2. /\ pk'[r] = IdlePk /\ pk' \in [PkReqs -> PkReqType]
          /\ \A q \in PkReqs : q # r => pk'[q] = pk[q]
      BY <1>0, IdlePkFacts DEF PkFinish, PkInv, PkTypeOK
    <2>3. /\ passkey' \in PkRowType /\ passkey'.exists = passkey.exists
          /\ passkey'.id = passkey.id /\ passkey'.counter = n
      BY <1>0, <2>1 DEF PkInv, PkTypeOK, PkRowType
    <2>4. /\ signIns' \in [Challenges -> Nat] /\ signIns'[a] = signIns[a] + 1
          /\ \A c \in Challenges : c # a => signIns'[c] = signIns[c]
      BY <1>0, <2>1 DEF PkInv, PkTypeOK
    <2>5. highest' \in Nat
      BY <1>0, <2>1 DEF PkInv, PkTypeOK
    <2>6. PkTypeOK'
      BY <1>0, <2>2, <2>3, <2>4, <2>5 DEF PkInv, PkTypeOK
    <2>7. ASSUME NEW c \in Challenges PROVE ChalInv(c)'
      <3>0. c \in Nat /\ c # 0 /\ ChalInv(c) /\ nChal \in Nat
        BY PasskeysAssumption DEF Challenges, PkInv, PkTypeOK
      <3>1. \A q \in PkReqs : Claims(q, c)' => Claims(q, c) /\ q # r
        BY <2>2, IdlePkFacts DEF Claims
      <3>2. Stored(c)' = Stored(c)
        BY <1>0 DEF Stored
      <3>3. CASE c # a
        <4>1. Fresh(c) => Fresh(c)'
          BY <2>2, <2>3, <2>4, <3>0, <3>3, IdlePkFacts DEF Fresh
        <4>2. signIns'[c] = signIns[c]
          BY <2>4, <3>3
        <4> QED
          BY <1>0, <3>0, <3>1, <3>2, <4>1, <4>2 DEF ChalInv
      <3>4. CASE c = a
        <4>1. Claims(r, c)
          BY <1>0, <3>4
        <4>2. Fresh(c) /\ ~Stored(c) /\ ~(c > nChal)
          BY <3>0, <4>1 DEF ChalInv
        <4>3. \A q \in PkReqs : ~Claims(q, c)'
          BY <3>0, <3>1, <4>1 DEF ChalInv
        <4>4. signIns'[c] = 1
          BY <2>4, <3>4, <4>2 DEF Fresh
        <4>5. \A s \in Slots : pending'[s].challenge # c
          BY <1>0, <4>2 DEF Stored
        <4> QED
          BY <1>0, <3>0, <3>2, <4>2, <4>3, <4>4, <4>5 DEF ChalInv
      <3> QED
        BY <3>3, <3>4
    <2>8. \A q \in PkReqs : PkReqOk(pk'[q], signature')
      BY <1>0, <2>2, IdlePkFacts DEF PkInv
    <2>9. CounterInv'
      <3> SUFFICES ASSUME passkey.exists, ~overlap PROVE CounterInv'
        BY <1>0, <2>3 DEF CounterInv
      <3>1. /\ HasRead(r) /\ pk[r].row.counter = highest
            /\ \A q \in PkReqs : HasRead(q) => q = r
        BY <1>0, <1>2 DEF PkInv, CounterInv, HasRead
      <3>2. highest' = n
        BY <1>0, <2>1, <3>1
      <3>3. \A q \in PkReqs : ~HasRead(q)'
        BY <2>2, <2>3, <3>1, IdlePkFacts DEF HasRead
      <3> QED
        BY <2>3, <3>2, <3>3 DEF CounterInv
    <2> QED
      BY <2>6, <2>7, <2>8, <2>9 DEF PkInv
  <1> QED
    BY <1>1, <1>2

\* A passkey is named for the challenge that registered it, which nobody has read.
LEMMA PkRegisterStep ==
    ASSUME PkInv, NEW r \in PkReqs, PkRegister(r)
    PROVE  PkInv'
  <1> DEFINE a == pk[r].answered
             n == signature[a]
  <1>0. /\ a \in Challenges /\ signature \in [Challenges -> Nat] /\ n \in Nat /\ Claims(r, a)
        /\ PkFinish(r)
        /\ UNCHANGED <<pkNow, pending, nChal, signature, signCount, signIns>>
    BY DEF PkInv, PkTypeOK, PkReqOk, PkRegister, Claims
  <1>1. CASE passkey.exists
    BY <1>0, <1>1, PkEnds DEF PkRegister, PkInv, PkTypeOK
  <1>2. CASE ~passkey.exists
    <2>1. /\ passkey' = [exists |-> TRUE, id |-> a, counter |-> n]
          /\ highest' = n /\ overlap' = FALSE
      BY <1>2 DEF PkRegister
    <2>2. /\ pk'[r] = IdlePk /\ pk' \in [PkReqs -> PkReqType]
          /\ \A q \in PkReqs : q # r => pk'[q] = pk[q]
      BY <1>0, IdlePkFacts DEF PkFinish, PkInv, PkTypeOK
    <2>3. passkey' \in PkRowType /\ passkey'.id = a /\ passkey'.counter = n
      BY <1>0, <2>1 DEF PkRowType, Challenges
    <2>4. PkTypeOK'
      BY <1>0, <2>1, <2>2, <2>3 DEF PkInv, PkTypeOK
    <2>5. ASSUME NEW c \in Challenges PROVE ChalInv(c)'
      <3>0. c \in Nat /\ c # 0 /\ ChalInv(c) /\ nChal \in Nat
        BY PasskeysAssumption DEF Challenges, PkInv, PkTypeOK
      <3>1. \A q \in PkReqs : Claims(q, c)' => Claims(q, c) /\ q # r
        BY <2>2, IdlePkFacts DEF Claims
      <3>2. Stored(c)' = Stored(c)
        BY <1>0 DEF Stored
      <3>3. CASE c # a
        <4>1. Fresh(c) => Fresh(c)'
          BY <1>0, <2>2, <2>3, <3>0, <3>3, IdlePkFacts DEF Fresh
        <4> QED
          BY <1>0, <3>0, <3>1, <3>2, <4>1 DEF ChalInv
      <3>4. CASE c = a
        <4>1. Claims(r, c)
          BY <1>0, <3>4
        <4>2. ~Stored(c) /\ ~(c > nChal)
          BY <3>0, <4>1 DEF ChalInv
        <4>3. \A q \in PkReqs : ~Claims(q, c)'
          BY <3>0, <3>1, <4>1 DEF ChalInv
        <4>5. \A s \in Slots : pending'[s].challenge # c
          BY <1>0, <4>2 DEF Stored
        <4> QED
          BY <1>0, <3>0, <3>2, <4>2, <4>3, <4>5 DEF ChalInv
      <3> QED
        BY <3>3, <3>4
    <2>6. \A q \in PkReqs : PkReqOk(pk'[q], signature')
      BY <1>0, <2>2, IdlePkFacts DEF PkInv
    <2>7. CounterInv'
      <3>1. Fresh(a)
        BY <1>0 DEF PkInv, ChalInv
      <3>2. \A q \in PkReqs : ~HasRead(q)'
        BY <2>2, <2>3, <3>1, IdlePkFacts DEF HasRead, Fresh
      <3> QED
        BY <2>1, <2>3, <3>2 DEF CounterInv
    <2> QED
      BY <2>4, <2>5, <2>6, <2>7 DEF PkInv
  <1> QED
    BY <1>1, <1>2

\* The passkey row is deleted under the requests that have read it.
LEMMA PkRemoveStep ==
    ASSUME PkInv, PkRemove
    PROVE  PkInv'
  <1>1. /\ passkey' = NoPasskey
        /\ UNCHANGED <<pkNow, pending, nChal, signature, signCount, pk, signIns, highest, overlap>>
    BY DEF PkRemove
  <1>2. PkTypeOK'
    BY <1>1, IdlePkFacts DEF PkInv, PkTypeOK
  <1>3. ASSUME NEW c \in Challenges PROVE ChalInv(c)'
    <2>1. c # 0 /\ ChalInv(c)
      BY PasskeysAssumption DEF PkInv, Challenges
    <2>2. Fresh(c) => Fresh(c)'
      BY <1>1, <2>1, IdlePkFacts DEF Fresh
    <2> QED
      BY <1>1, <2>1, <2>2 DEF ChalInv, Stored, Claims
  <1>4. \A q \in PkReqs : PkReqOk(pk'[q], signature')
    BY <1>1 DEF PkInv
  <1>5. CounterInv'
    BY <1>1, IdlePkFacts DEF CounterInv
  <1> QED
    BY <1>2, <1>3, <1>4, <1>5 DEF PkInv

\* Every step of the passkey service keeps its invariant.
LEMMA PkInvNext == ASSUME PkInv, [PkNext]_pkVars PROVE PkInv'
  <1>1. ASSUME NEW r \in PkReqs,
               \/ PkStore(r) \/ PkLookup(r) \/ PkExpired(r) \/ PkClaim(r) \/ PkUpdate(r)
               \/ PkRegister(r)
               \/ \E s \in Slots : PkOptions(r, s)
               \/ \E c \in Challenges : PkBegin(r, c) \/ PkRegisterBegin(r, c)
        PROVE  PkInv'
    BY <1>1, PkStoreStep, PkLookupStep, PkExpiredStep, PkClaimStep, PkUpdateStep,
       PkRegisterStep, PkOptionsStep, PkBeginStep, PkRegisterBeginStep
  <1>2. ASSUME NEW r \in PkReqs, PkAbort(r) PROVE PkInv'
    BY <1>2, PkEnds DEF PkAbort, PkInv, PkTypeOK
  <1>3. ASSUME NEW c \in Challenges, PkSign(c) PROVE PkInv'
    BY <1>3, PkSignStep
  <1>4. CASE PkRemove
    BY <1>4, PkRemoveStep
  <1>5. CASE PkTick \/ UNCHANGED pkVars
    <2>1. /\ pkNow' \in Nat
          /\ UNCHANGED <<pending, nChal, passkey, signature, signCount, pk, signIns, highest, overlap>>
      BY <1>5 DEF PkTick, pkVars, PkInv, PkTypeOK
    <2>2. PkTypeOK' /\ CounterInv' /\ \A r \in PkReqs : PkReqOk(pk'[r], signature')
      BY <2>1 DEF PkInv, PkTypeOK, CounterInv, HasRead
    <2>3. \A c \in Challenges : ChalInv(c)'
      BY <2>1 DEF PkInv, ChalInv, Stored, Claims, Fresh
    <2> QED
      BY <2>2, <2>3 DEF PkInv
  <1> QED
    BY <1>1, <1>2, <1>3, <1>4, <1>5 DEF PkNext

(* A challenge signs in once and the stored counter is the highest one      *)
(* accepted unless sign-ins overlapped (consumeWebAuthnChallenge,           *)
(* verifyAuthentication), for any number of requests and challenges and any *)
(* lifetime: the request that deletes the challenge is the only one that    *)
(* may still use it.                                                        *)
THEOREM PasskeySignsInOnceHolds == PkSpec => []PasskeySignsInOnce
  <1>1. PkInv => PasskeySignsInOnce
    BY DEF PkInv, ChalInv, CounterInv, PasskeySignsInOnce
  <1> QED
    BY <1>1, PkInvInit, PkInvNext, PTL DEF PkSpec

-----------------------------------------------------------------------------
(* The limits of an API key.  Members of the sorted set are told apart by   *)
(* their numbers.  While the clock has not passed the end of a window, the  *)
(* members of it that are no longer in the sorted set were lost with the    *)
(* key before their own EXPIRE; once it has, no request that is still to be *)
(* validated can join the window.                                           *)

AkPcs == {"idle", "verify", "trim", "count", "add", "expire", "daily", "month"}
AkRec == [pc : AkPcs, at : Nat, count : Nat, id : Nat]
MemberRec == [at : Nat, id : Nat]

AkTypeOK ==
    /\ akNow \in AkTimes /\ deadline \in Int
    /\ daily \in [AkDays -> Nat] /\ usage \in Nat /\ owed \in Nat
    /\ ak \in [AkReqs -> AkRec]
    /\ admitted \in [rate : SUBSET MemberRec, day : [AkDays -> Nat], month : Nat]
    /\ IsFiniteSet(admitted.rate) /\ zset \subseteq admitted.rate
    /\ uses \in [all : Nat, peak : Nat, failed : Nat]

Adding == {r \in AkReqs : ak[r].pc = "add"}
Trying == {r \in AkReqs : ak[r].pc \in {"trim", "count", "add"}}
Expiring == {r \in AkReqs : ak[r].pc = "expire"}
Joining(t) == {r \in Trying : t - Window < ak[r].at /\ ak[r].at <= t}
InVerify == {r \in AkReqs : ak[r].pc = "verify"}
AkActive == {r \in AkReqs : ak[r].pc \notin {"idle", "verify"}}
UnderQuota == {r \in AkReqs : ak[r].pc # "idle" /\ ak[r].count < PerMonth}

MemberInv ==
    /\ \A e \in admitted.rate : e.at <= akNow /\ e.id <= uses.all
    /\ \A r \in AkActive : ak[r].at <= akNow /\ ak[r].id <= uses.all
    /\ \A q, r \in AkActive : ak[q].id = ak[r].id => q = r
    /\ \A r \in Trying : Member(r) \notin admitted.rate

TtlInv ==
    /\ deadline = NoDeadline \/ deadline > akNow
    /\ \A e \in zset : \/ \E r \in Expiring : e = Member(r)
                       \/ deadline # NoDeadline /\ e.at + Ttl <= deadline
    /\ \A e \in admitted.rate \ zset :
          /\ e.at < akNow
          /\ \/ deadline = NoDeadline
             \/ e.at + Ttl < deadline
             \/ e.at <= akNow - Window

WindowAt(t) ==
    IF akNow <= t
      THEN Cardinality(InWindow(t) \ zset) <= Cardinality(AkReqs)
      ELSE Cardinality(InWindow(t)) + Cardinality(Joining(t))
             <= PerWindow - 1 + 3 * Cardinality(AkReqs)

WindowInv ==
    /\ Cardinality(zset) + Cardinality(Adding) <= PerWindow - 1 + Cardinality(AkReqs)
    /\ \A t \in AkTimes : WindowAt(t)

DayInv == "daily" \notin open =>
    \A d \in AkDays : admitted.day[d] <= daily[d] /\ admitted.day[d] <= PerDay

MonthInv ==
    /\ uses.all = usage + owed + uses.failed
    /\ admitted.month + Cardinality(AkActive) <= uses.all
    /\ admitted.month + Cardinality(UnderQuota) <= PerMonth - 1 + uses.peak + uses.failed

AkInv ==
    /\ AkTypeOK /\ MemberInv /\ DayInv /\ MonthInv
    /\ "rate" \notin open => TtlInv /\ WindowInv

-----------------------------------------------------------------------------
\* The constants, the idle slot and the counts of requests.
LEMMA AkFacts ==
    /\ PerWindow \in Nat /\ PerWindow >= 1 /\ Window \in Nat /\ Window >= 1
    /\ Ttl \in Nat /\ Ttl > Window /\ PerDay \in Nat /\ Day \in Nat /\ Day >= 1
    /\ PerMonth \in Nat /\ PerMonth >= 1 /\ AkMaxTime \in Nat /\ IsFiniteSet(AkReqs)
    /\ AkTimes \subseteq Nat /\ Cardinality(AkReqs) \in Nat
    /\ IdleAk \in AkRec /\ IdleAk.pc = "idle" /\ NoDeadline = -1
  <1>1. /\ PerWindow \in Nat /\ PerWindow >= 1 /\ Window \in Nat /\ Window >= 1
        /\ Ttl \in Nat /\ Ttl > Window /\ PerDay \in Nat /\ Day \in Nat /\ Day >= 1
        /\ PerMonth \in Nat /\ PerMonth >= 1 /\ AkMaxTime \in Nat /\ IsFiniteSet(AkReqs)
    BY ApiKeyGuardAssumption
  <1>2. AkTimes \subseteq Nat /\ Cardinality(AkReqs) \in Nat
    BY <1>1, FS_CardinalityType DEF AkTimes
  <1>3. IdleAk \in AkRec /\ IdleAk.pc = "idle" /\ NoDeadline = -1
    BY DEF IdleAk, AkRec, AkPcs, NoDeadline
  <1> QED
    BY <1>1, <1>2, <1>3

\* A subset of a finite set is finite and counts no more.
LEMMA SubsetCount ==
    ASSUME NEW R, IsFiniteSet(R), NEW S, S \subseteq R
    PROVE  IsFiniteSet(S) /\ Cardinality(S) \in Nat /\ Cardinality(S) <= Cardinality(R)
           /\ Cardinality(R) \in Nat
  BY FS_Subset, FS_CardinalityType

AkOne(b) == IF b THEN 1 ELSE 0

\* Sets of requests that differ in r only
LEMMA AkOneMoves ==
    ASSUME NEW r \in AkReqs, NEW S, NEW T, S \subseteq AkReqs, T \subseteq AkReqs,
           \A q \in AkReqs : q # r => (q \in S <=> q \in T)
    PROVE  /\ Cardinality(S) \in Nat /\ Cardinality(T) \in Nat
           /\ Cardinality(T) = Cardinality(S) + AkOne(r \in T) - AkOne(r \in S)
  <1>0. /\ IsFiniteSet(AkReqs) /\ IsFiniteSet(S) /\ IsFiniteSet(T)
        /\ Cardinality(S) \in Nat /\ Cardinality(T) \in Nat
    BY AkFacts, SubsetCount
  <1>1. CASE r \in T /\ r \notin S
    <2>1. T = S \cup {r}
      BY <1>1
    <2> QED
      BY <1>0, <1>1, <2>1, FS_AddElement DEF AkOne
  <1>2. CASE r \notin T /\ r \in S
    <2>1. S = T \cup {r}
      BY <1>2
    <2> QED
      BY <1>0, <1>2, <2>1, FS_AddElement DEF AkOne
  <1>3. CASE r \in T <=> r \in S
    <2>1. T = S
      BY <1>3
    <2> QED
      BY <1>0, <2>1 DEF AkOne
  <1> QED
    BY <1>1, <1>2, <1>3

\* Finite sets of members and of requests have a size.
LEMMA AkCounts ==
    ASSUME AkTypeOK
    PROVE  /\ Cardinality(zset) \in Nat /\ IsFiniteSet(zset)
           /\ Cardinality(Adding) \in Nat /\ Cardinality(Adding) <= Cardinality(AkReqs)
           /\ Cardinality(AkActive) \in Nat /\ Cardinality(UnderQuota) \in Nat
           /\ Cardinality(InVerify) \in Nat
           /\ Cardinality(UnderQuota) <= Cardinality(AkActive) + Cardinality(InVerify)
           /\ \A t \in AkTimes :
                /\ Cardinality(Joining(t)) \in Nat
                /\ Cardinality(Joining(t)) <= Cardinality(AkReqs)
                /\ IsFiniteSet(InWindow(t)) /\ Cardinality(InWindow(t)) \in Nat
                /\ IsFiniteSet(InWindow(t) \ zset) /\ Cardinality(InWindow(t) \ zset) \in Nat
  <1>1. IsFiniteSet(AkReqs) /\ IsFiniteSet(admitted.rate) /\ zset \subseteq admitted.rate
    BY AkFacts DEF AkTypeOK
  <1>2. Cardinality(zset) \in Nat /\ IsFiniteSet(zset)
    BY <1>1, SubsetCount
  <1>3. Cardinality(Adding) \in Nat /\ Cardinality(Adding) <= Cardinality(AkReqs)
    BY <1>1, SubsetCount DEF Adding
  <1>4. Cardinality(AkActive) \in Nat /\ IsFiniteSet(AkActive)
    BY <1>1, SubsetCount DEF AkActive
  <1>5. /\ Cardinality(UnderQuota) \in Nat /\ Cardinality(InVerify) \in Nat
        /\ Cardinality(UnderQuota) <= Cardinality(AkActive) + Cardinality(InVerify)
    <2>1. IsFiniteSet(InVerify) /\ Cardinality(InVerify) \in Nat /\ Cardinality(UnderQuota) \in Nat
      BY <1>1, SubsetCount DEF InVerify, UnderQuota
    <2>2. UnderQuota \subseteq AkActive \cup InVerify
      BY DEF UnderQuota, AkActive, InVerify
    <2>3. /\ IsFiniteSet(AkActive \cup InVerify)
          /\ Cardinality(AkActive \cup InVerify)
               = Cardinality(AkActive) + Cardinality(InVerify) - Cardinality(AkActive \cap InVerify)
      BY <1>4, <2>1, FS_Union
    <2>4. Cardinality(AkActive \cap InVerify) \in Nat
      BY <1>4, FS_Intersection, FS_CardinalityType
    <2>5. Cardinality(UnderQuota) <= Cardinality(AkActive \cup InVerify)
      BY <2>2, <2>3, SubsetCount
    <2> QED
      BY <1>4, <2>1, <2>3, <2>4, <2>5
  <1>6. ASSUME NEW t \in AkTimes
        PROVE  /\ Cardinality(Joining(t)) \in Nat
               /\ Cardinality(Joining(t)) <= Cardinality(AkReqs)
               /\ IsFiniteSet(InWindow(t)) /\ Cardinality(InWindow(t)) \in Nat
               /\ IsFiniteSet(InWindow(t) \ zset) /\ Cardinality(InWindow(t) \ zset) \in Nat
    <2>1. Joining(t) \subseteq AkReqs
      BY DEF Joining, Trying
    <2>2. InWindow(t) \subseteq admitted.rate /\ InWindow(t) \ zset \subseteq admitted.rate
      BY DEF InWindow
    <2> QED
      BY <1>1, <2>1, <2>2, SubsetCount
  <1> QED
    BY <1>2, <1>3, <1>4, <1>5, <1>6

-----------------------------------------------------------------------------
\* At the beginning there are no requests and nothing was admitted.
LEMMA AkInvInit == ASSUME AkInit PROVE AkInv
  <1>1. AkTypeOK
    <2>1. akNow \in AkTimes
      BY AkFacts DEF AkInit, AkTimes
    <2>2. admitted \in [rate : SUBSET MemberRec, day : [AkDays -> Nat], month : Nat]
          /\ uses \in [all : Nat, peak : Nat, failed : Nat]
      BY DEF AkInit
    <2>3. admitted.rate = {} /\ IsFiniteSet({}) /\ zset \subseteq admitted.rate
      BY FS_EmptySet DEF AkInit
    <2> QED
      BY <2>1, <2>2, <2>3, AkFacts DEF AkTypeOK, AkInit
  <1>2. /\ Adding = {} /\ Trying = {} /\ AkActive = {} /\ UnderQuota = {}
        /\ \A t : Joining(t) = {} /\ InWindow(t) = {}
    BY AkFacts DEF AkInit, Adding, Trying, AkActive, UnderQuota, Joining, InWindow
  <1>3. Cardinality({}) = 0
    BY FS_EmptySet
  <1>4. MemberInv /\ DayInv /\ MonthInv
    BY <1>2, <1>3, AkFacts DEF AkInit, MemberInv, DayInv, MonthInv
  <1>5. TtlInv
    BY DEF AkInit, TtlInv
  <1>6. WindowInv
    <2>1. Cardinality(zset) = 0 /\ \A t : InWindow(t) \ zset = {}
      BY <1>2, <1>3 DEF AkInit
    <2>2. ASSUME NEW t \in AkTimes
          PROVE  WindowAt(t)
      <3>1. InWindow(t) \ zset = {} /\ InWindow(t) = {} /\ Joining(t) = {}
        BY <1>2, <2>1
      <3> QED
        BY <1>3, <3>1, AkFacts DEF WindowAt
    <2>3. Cardinality(zset) + Cardinality(Adding) <= PerWindow - 1 + Cardinality(AkReqs)
      BY <1>2, <1>3, <2>1, AkFacts
    <2> QED
      BY <2>2, <2>3 DEF WindowInv
  <1> QED
    BY <1>1, <1>4, <1>5, <1>6 DEF AkInv

\* A request reads the row of the key, and its hash is verified.
LEMMA AkBegins ==
    ASSUME AkTypeOK, NEW r \in AkReqs
    PROVE  /\ AkRead(r) => /\ ak' \in [AkReqs -> AkRec]
                           /\ \A q \in AkReqs : q # r => ak'[q] = ak[q]
                           /\ ak'[r].pc = "verify" /\ ak'[r].count = usage
           /\ AkValidate(r) => /\ ak' \in [AkReqs -> AkRec]
                               /\ \A q \in AkReqs : q # r => ak'[q] = ak[q]
                               /\ ak'[r].pc = "trim" /\ ak'[r].at = akNow
                               /\ ak'[r].id = uses.all + 1 /\ ak'[r].count = ak[r].count
  <1>0. ak \in [AkReqs -> AkRec] /\ ak[r] \in AkRec /\ usage \in Nat /\ uses.all \in Nat /\ akNow \in Nat
    BY AkFacts DEF AkTypeOK
  <1>1. ASSUME AkRead(r)
        PROVE  /\ ak' \in [AkReqs -> AkRec]
               /\ \A q \in AkReqs : q # r => ak'[q] = ak[q]
               /\ ak'[r].pc = "verify" /\ ak'[r].count = usage
    <2> DEFINE y == [IdleAk EXCEPT !.pc = "verify", !.count = usage]
    <2>1. ak' = [ak EXCEPT ![r] = y]
      BY <1>1 DEF AkRead
    <2>2. y \in AkRec /\ y.pc = "verify" /\ y.count = usage
      BY <1>0 DEF IdleAk, AkRec, AkPcs
    <2> HIDE DEF y
    <2> QED
      BY <1>0, <2>1, <2>2
  <1>2. ASSUME AkValidate(r)
        PROVE  /\ ak' \in [AkReqs -> AkRec]
               /\ \A q \in AkReqs : q # r => ak'[q] = ak[q]
               /\ ak'[r].pc = "trim" /\ ak'[r].at = akNow
               /\ ak'[r].id = uses.all + 1 /\ ak'[r].count = ak[r].count
    <2> DEFINE n == uses.all + 1
               y == [ak[r] EXCEPT !.pc = "trim", !.at = akNow, !.id = n]
    <2>1. ak' = [ak EXCEPT ![r] = y]
      BY <1>2 DEF AkValidate
    <2>3. n \in Nat
      BY <1>0
    <2> HIDE DEF n
    <2>2. y \in AkRec /\ y.pc = "trim" /\ y.at = akNow /\ y.id = n /\ y.count = ak[r].count
      BY <1>0, <2>3 DEF AkRec, AkPcs
    <2> HIDE DEF y
    <2> QED
      BY <1>0, <2>1, <2>2 DEF n
  <1> QED
    BY <1>1, <1>2

\* Every step of a request changes its own slot only.
LEMMA AkOthers ==
    ASSUME AkTypeOK, NEW r \in AkReqs,
           \/ \E l \in AkPcs : AkGoto(r, l)
           \/ AkReject(r)
           \/ AkValidate(r)
           \/ AkRead(r)
    PROVE  /\ ak' \in [AkReqs -> AkRec]
           /\ \A q \in AkReqs : q # r => ak'[q] = ak[q]
           /\ ak'[r].pc # "idle" /\ ~ AkValidate(r) /\ ~ AkRead(r) =>
                ak'[r].at = ak[r].at /\ ak'[r].id = ak[r].id /\ ak'[r].count = ak[r].count
  <1>1. CASE \E l \in AkPcs : AkGoto(r, l)
    <2>1. PICK l \in AkPcs : ak' = [ak EXCEPT ![r].pc = l]
      BY <1>1 DEF AkGoto
    <2> QED
      BY <2>1 DEF AkTypeOK, AkRec
  <1>2. CASE AkReject(r)
    BY <1>2, AkFacts DEF AkTypeOK, AkReject
  <1>3. CASE AkValidate(r) \/ AkRead(r)
    BY <1>3, AkBegins
  <1> QED
    BY <1>1, <1>2, <1>3

\* Where a step of a request takes it.
LEMMA AkPc ==
    ASSUME AkTypeOK, NEW r \in AkReqs
    PROVE  /\ \A l : AkGoto(r, l) => ak'[r].pc = l
           /\ AkReject(r) => ak'[r].pc = "idle"
  <1>1. ASSUME NEW l, AkGoto(r, l) PROVE ak'[r].pc = l
    BY <1>1 DEF AkGoto, AkTypeOK, AkRec
  <1>2. ASSUME AkReject(r) PROVE ak'[r].pc = "idle"
    BY <1>2, AkFacts DEF AkReject, AkTypeOK
  <1> QED
    BY <1>1, <1>2

-----------------------------------------------------------------------------
\* What a step of a request lets past a limit keeps its type.
LEMMA AdmittedFacts ==
    ASSUME AkTypeOK
    PROVE  /\ akNow \div Day \in AkDays
           /\ \A r \in AkReqs : Member(r) \in MemberRec
           /\ \A r \in AkReqs :
                LET a == [admitted EXCEPT !.rate = @ \cup {Member(r)}] IN
                /\ a \in [rate : SUBSET MemberRec, day : [AkDays -> Nat], month : Nat]
                /\ a.rate = admitted.rate \cup {Member(r)} /\ IsFiniteSet(a.rate)
                /\ a.day = admitted.day /\ a.month = admitted.month
           /\ \A d \in AkDays :
                LET a == [admitted EXCEPT !.day[d] = @ + 1] IN
                /\ a \in [rate : SUBSET MemberRec, day : [AkDays -> Nat], month : Nat]
                /\ a.rate = admitted.rate /\ a.month = admitted.month
                /\ a.day = [admitted.day EXCEPT ![d] = @ + 1]
  <1>1. akNow \div Day \in AkDays
    <2>1. akNow \in Nat /\ akNow <= AkMaxTime /\ AkMaxTime \in Nat /\ Day \in Nat /\ Day >= 1
      BY AkFacts DEF AkTypeOK, AkTimes
    <2>2. akNow \div Day \in Nat /\ akNow \div Day <= AkMaxTime \div Day /\ AkMaxTime \div Day \in Nat
      BY <2>1, SMTT(60)
    <2> QED
      BY <2>2 DEF AkDays
  <1>2. \A r \in AkReqs : Member(r) \in MemberRec
    BY DEF AkTypeOK, Member, MemberRec, AkRec
  <1>3. ASSUME NEW r \in AkReqs
        PROVE  LET a == [admitted EXCEPT !.rate = @ \cup {Member(r)}] IN
               /\ a \in [rate : SUBSET MemberRec, day : [AkDays -> Nat], month : Nat]
               /\ a.rate = admitted.rate \cup {Member(r)} /\ IsFiniteSet(a.rate)
               /\ a.day = admitted.day /\ a.month = admitted.month
    <2>1. IsFiniteSet(admitted.rate \cup {Member(r)})
      BY FS_AddElement DEF AkTypeOK
    <2> QED
      BY <1>2, <2>1 DEF AkTypeOK
  <1>4. ASSUME NEW d \in AkDays
        PROVE  LET a == [admitted EXCEPT !.day[d] = @ + 1] IN
               /\ a \in [rate : SUBSET MemberRec, day : [AkDays -> Nat], month : Nat]
               /\ a.rate = admitted.rate /\ a.month = admitted.month
               /\ a.day = [admitted.day EXCEPT ![d] = @ + 1]
    BY DEF AkTypeOK
  <1> QED
    BY <1>1, <1>2, <1>3, <1>4

\* A request that reads the row counts among those that are not in requestCount.
LEMMA ReadPeak ==
    ASSUME AkTypeOK, NEW r \in AkReqs, AkRead(r)
    PROVE  /\ uses' \in [all : Nat, peak : Nat, failed : Nat]
           /\ uses'.all = uses.all /\ uses'.failed = uses.failed
           /\ uses'.peak >= uses.peak /\ uses'.peak >= owed + Cardinality(InVerify) + 1
  <1> DEFINE n == owed + Cardinality(InVerify) + 1
             m == IF n > uses.peak THEN n ELSE uses.peak
  <1>1. Uncounted = owed + Cardinality(InVerify)
    BY DEF Uncounted, InVerify
  <1>2. uses' = [uses EXCEPT !.peak = m]
    BY <1>1 DEF AkRead
  <1>3. uses.peak \in Nat /\ owed \in Nat /\ Cardinality(InVerify) \in Nat
    BY AkCounts DEF AkTypeOK
  <1>4. m \in Nat /\ m >= uses.peak /\ m >= n
    BY <1>3
  <1> HIDE DEF n, m
  <1>5. uses' \in [all : Nat, peak : Nat, failed : Nat] /\ uses'.peak = m
        /\ uses'.all = uses.all /\ uses'.failed = uses.failed
    BY <1>2, <1>4 DEF AkTypeOK
  <1> QED
    BY <1>4, <1>5 DEF n

\* The types are kept by every step.
LEMMA AkTypeNext == ASSUME AkTypeOK, AkNext PROVE AkTypeOK'
  <1> USE DEF AkTypeOK
  <1>1. ASSUME NEW r \in AkReqs, AkValidate(r) PROVE AkTypeOK'
    <2>1. ak' \in [AkReqs -> AkRec]
      BY <1>1, AkOthers
    <2>2. owed' \in Nat /\ uses' \in [all : Nat, peak : Nat, failed : Nat]
      <3>1. owed' \in Nat
        BY <1>1 DEF AkValidate
      <3> QED
        BY <1>1, <3>1 DEF AkValidate
    <2> QED
      BY <1>1, <2>1, <2>2 DEF AkValidate
  <1>2. ASSUME NEW r \in AkReqs, AkTrim(r) PROVE AkTypeOK'
    <2>1. ak' \in [AkReqs -> AkRec]
      BY <1>2, AkOthers DEF AkTrim, AkPcs
    <2> QED
      BY <1>2, <2>1, AkFacts DEF AkTrim
  <1>3. ASSUME NEW r \in AkReqs, AkCount(r) PROVE AkTypeOK'
    <2>1. ak' \in [AkReqs -> AkRec]
      BY <1>3, AkOthers DEF AkCount, AkPcs
    <2> QED
      BY <1>3, <2>1 DEF AkCount
  <1>4. ASSUME NEW r \in AkReqs, AkAdd(r) PROVE AkTypeOK'
    <2>1. ak' \in [AkReqs -> AkRec]
      BY <1>4, AkOthers DEF AkAdd, AkPcs
    <2>2. /\ admitted' \in [rate : SUBSET MemberRec, day : [AkDays -> Nat], month : Nat]
          /\ admitted'.rate = admitted.rate \cup {Member(r)} /\ IsFiniteSet(admitted'.rate)
      BY <1>4, AdmittedFacts DEF AkAdd
    <2> QED
      BY <1>4, <2>1, <2>2 DEF AkAdd
  <1>5. ASSUME NEW r \in AkReqs, AkExpire(r) PROVE AkTypeOK'
    <2>1. ak' \in [AkReqs -> AkRec]
      BY <1>5, AkOthers DEF AkExpire, AkPcs
    <2>2. deadline' \in Int
      BY <1>5, AkFacts DEF AkExpire
    <2> QED
      BY <1>5, <2>1, <2>2 DEF AkExpire
  <1>6. ASSUME NEW r \in AkReqs, AkRateOpen(r) PROVE AkTypeOK'
    <2>1. ak' \in [AkReqs -> AkRec]
      BY <1>6, AkOthers DEF AkRateOpen, AkPcs
    <2>2. /\ admitted' \in [rate : SUBSET MemberRec, day : [AkDays -> Nat], month : Nat]
          /\ admitted'.rate = admitted.rate \cup {Member(r)} /\ IsFiniteSet(admitted'.rate)
      BY <1>6, AdmittedFacts DEF AkRateOpen
    <2> QED
      BY <1>6, <2>1, <2>2 DEF AkRateOpen
  <1>7. ASSUME NEW r \in AkReqs, AkDaily(r) PROVE AkTypeOK'
    <2>1. ak' \in [AkReqs -> AkRec]
      BY <1>7, AkOthers DEF AkDaily, AkPcs
    <2>2. /\ admitted' \in [rate : SUBSET MemberRec, day : [AkDays -> Nat], month : Nat]
          /\ admitted'.rate = admitted.rate /\ daily' \in [AkDays -> Nat]
      BY <1>7, AdmittedFacts DEF AkDaily
    <2> QED
      BY <1>7, <2>1, <2>2 DEF AkDaily
  <1>8. ASSUME NEW r \in AkReqs, AkDailyOpen(r) PROVE AkTypeOK'
    <2>1. ak' \in [AkReqs -> AkRec]
      BY <1>8, AkOthers DEF AkDailyOpen, AkPcs
    <2>2. /\ admitted' \in [rate : SUBSET MemberRec, day : [AkDays -> Nat], month : Nat]
          /\ admitted'.rate = admitted.rate
      BY <1>8, AdmittedFacts DEF AkDailyOpen
    <2> QED
      BY <1>8, <2>1, <2>2 DEF AkDailyOpen
  <1>9. ASSUME NEW r \in AkReqs, AkMonth(r) PROVE AkTypeOK'
    <2>1. ak' \in [AkReqs -> AkRec]
      BY <1>9, AkOthers DEF AkMonth
    <2>2. /\ admitted' \in [rate : SUBSET MemberRec, day : [AkDays -> Nat], month : Nat]
          /\ admitted'.rate = admitted.rate
      BY <1>9 DEF AkMonth
    <2> QED
      BY <1>9, <2>1, <2>2 DEF AkMonth
  <1>10. ASSUME NEW ok \in BOOLEAN, AkUsageUpdate(ok) PROVE AkTypeOK'
    BY <1>10 DEF AkUsageUpdate
  <1>11. ASSUME AkTick PROVE AkTypeOK'
    BY <1>11, AkFacts DEF AkTick, AkTimes
  <1>12. ASSUME NEW r \in AkReqs, AkRead(r) PROVE AkTypeOK'
    <2>1. ak' \in [AkReqs -> AkRec]
      BY <1>12, AkOthers
    <2>2. uses' \in [all : Nat, peak : Nat, failed : Nat]
      BY <1>12, ReadPeak
    <2> QED
      BY <1>12, <2>1, <2>2 DEF AkRead
  <1>13. ASSUME NEW r \in AkReqs, AkRefuse(r) PROVE AkTypeOK'
    <2>1. ak' \in [AkReqs -> AkRec]
      BY <1>13, AkOthers DEF AkRefuse
    <2> QED
      BY <1>13, <2>1 DEF AkRefuse
  <1> QED
    BY <1>1, <1>2, <1>3, <1>4, <1>5, <1>6, <1>7, <1>8, <1>9, <1>10, <1>11, <1>12, <1>13
       DEF AkNext

-----------------------------------------------------------------------------
\* A request under way goes on or ends, and at most its own member is let past.
LEMMA MemberMoves ==
    ASSUME AkTypeOK, MemberInv, NEW r \in AkActive,
           (\E l \in AkPcs : AkGoto(r, l)) \/ AkReject(r),
           akNow' = akNow, uses'.all = uses.all,
           \/ admitted'.rate = admitted.rate /\ (r \in Trying' => r \in Trying)
           \/ admitted'.rate = admitted.rate \cup {Member(r)} /\ r \notin Trying'
    PROVE  MemberInv'
  <1>1. r \in AkReqs /\ ~ AkValidate(r) /\ ~ AkRead(r)
    BY DEF AkActive, AkValidate, AkRead
  <1>2. /\ \A q \in AkReqs : q # r => ak'[q] = ak[q]
        /\ ak'[r].pc # "idle" => ak'[r].at = ak[r].at /\ ak'[r].id = ak[r].id
    BY <1>1, AkOthers
  <1>3. ASSUME NEW q \in AkActive'
        PROVE  q \in AkActive /\ ak'[q].at = ak[q].at /\ ak'[q].id = ak[q].id
    BY <1>2 DEF AkActive
  <1>4. \A e \in admitted'.rate : e.at <= akNow /\ e.id <= uses.all
    <2>1. Member(r).at <= akNow /\ Member(r).id <= uses.all
      BY DEF MemberInv, Member
    <2> QED
      BY <2>1 DEF MemberInv
  <1>5. ASSUME NEW q \in Trying'
        PROVE  Member(q)' \notin admitted'.rate
    <2>1. q \in AkActive' /\ q \in Trying /\ q \in AkActive
      BY <1>2 DEF AkActive, Trying
    <2>2. Member(q)' = Member(q) /\ Member(q) \notin admitted.rate
      BY <1>3, <2>1 DEF Member, MemberInv
    <2>3. CASE q = r
      BY <2>2, <2>3
    <2>4. CASE q # r
      <3>1. ak[q].id # ak[r].id
        BY <2>1, <2>4 DEF MemberInv
      <3>2. Member(q) # Member(r)
        BY <3>1 DEF Member
      <3> QED
        BY <2>2, <3>2
    <2> QED
      BY <2>3, <2>4
  <1> QED
    BY <1>3, <1>4, <1>5 DEF MemberInv

\* Members and requests keep their numbers and times by every step.
LEMMA MemberNext == ASSUME AkTypeOK, MemberInv, AkNext PROVE MemberInv'
  <1>1. ASSUME NEW r \in AkReqs, AkValidate(r) PROVE MemberInv'
    <2>1. /\ \A q \in AkReqs : q # r => ak'[q] = ak[q]
          /\ ak'[r].pc = "trim" /\ ak'[r].at = akNow /\ ak'[r].id = uses.all + 1
      BY <1>1, AkBegins
    <2>2. /\ uses.all \in Nat /\ uses'.all = uses.all + 1 /\ akNow' = akNow
          /\ admitted' = admitted /\ akNow \in Nat
      BY <1>1, AkFacts DEF AkValidate, AkTypeOK
    <2>3. \A e \in admitted.rate : e.id \in Nat /\ e.at \in Nat
      BY DEF AkTypeOK, MemberRec
    <2>4. \A q \in AkReqs : ak[q].id \in Nat /\ ak[q].at \in Nat
      BY DEF AkTypeOK, AkRec
    <2>5. AkActive' = AkActive \cup {r} /\ Trying' = Trying \cup {r} /\ r \notin AkActive
      BY <1>1, <2>1 DEF AkActive, Trying, AkValidate
    <2>6. \A e \in admitted.rate : e.at <= akNow /\ e.id <= uses.all + 1
      BY <2>2, <2>3 DEF MemberInv
    <2>7. \A q \in AkActive' : ak'[q].at <= akNow /\ ak'[q].id <= uses.all + 1
      BY <2>1, <2>2, <2>4, <2>5 DEF MemberInv, AkActive
    <2>8. \A q, p \in AkActive' : ak'[q].id = ak'[p].id => q = p
      <3>1. \A q \in AkActive : q # r /\ ak'[q] = ak[q] /\ ak[q].id # uses.all + 1
        BY <2>1, <2>2, <2>4, <2>5 DEF MemberInv, AkActive
      <3> QED
        BY <2>1, <2>5, <3>1 DEF MemberInv
    <2>9. \A q \in Trying' : Member(q)' \notin admitted.rate
      <3>1. ASSUME NEW q \in Trying, q # r
            PROVE  Member(q)' \notin admitted.rate
        BY <2>1, <3>1 DEF MemberInv, Trying, Member
      <3>2. Member(r)' \notin admitted.rate
        <4>1. Member(r)'.id = uses.all + 1
          BY <2>1 DEF Member
        <4> QED
          BY <2>2, <2>3, <4>1 DEF MemberInv
      <3> QED
        BY <2>5, <3>1, <3>2
    <2> QED
      BY <2>2, <2>6, <2>7, <2>8, <2>9 DEF MemberInv
  <1>2. ASSUME NEW r \in AkReqs, ~(r \in InVerify), AkRefuse(r) \/ AkTrim(r) \/ AkCount(r) \/ AkExpire(r) \/ AkMonth(r)
                                  \/ AkDaily(r) \/ AkDailyOpen(r)
        PROVE  MemberInv'
    <2>1. r \in AkActive
      BY <1>2 DEF InVerify, AkActive, AkRefuse, AkTrim, AkCount, AkExpire, AkMonth, AkDaily, AkDailyOpen
    <2>2. akNow' = akNow /\ uses' = uses /\ ((\E l \in AkPcs : AkGoto(r, l)) \/ AkReject(r))
      BY <1>2 DEF AkRefuse, AkTrim, AkCount, AkExpire, AkMonth, AkDaily, AkDailyOpen, AkPcs
    <2>3. admitted'.rate = admitted.rate
      BY <1>2, AdmittedFacts
        DEF AkRefuse, AkTrim, AkCount, AkExpire, AkMonth, AkDaily, AkDailyOpen, AkTypeOK
    <2>4. r \in Trying' => r \in Trying
      <3>1. ak'[r].pc \in {"trim", "count", "add"} => ak[r].pc \in {"trim", "count", "add"}
        <4>1. CASE AkTrim(r) \/ AkCount(r)
          BY <4>1 DEF AkTrim, AkCount
        <4>2. CASE AkRefuse(r) \/ AkExpire(r) \/ AkMonth(r) \/ AkDaily(r) \/ AkDailyOpen(r)
          <5>1. ak'[r].pc \in {"idle", "daily", "month"}
            BY <4>2, AkPc DEF AkRefuse, AkExpire, AkMonth, AkDaily, AkDailyOpen
          <5> QED
            BY <5>1
        <4> QED
          BY <1>2, <4>1, <4>2
      <3> QED
        BY <3>1 DEF Trying
    <2> QED
      BY <2>1, <2>2, <2>3, <2>4, MemberMoves
  <1>3. ASSUME NEW r \in AkReqs, AkAdd(r) \/ AkRateOpen(r) PROVE MemberInv'
    <2>1. r \in AkActive
      BY <1>3 DEF AkActive, AkAdd, AkRateOpen
    <2>2. akNow' = akNow /\ uses' = uses /\ \E l \in AkPcs : AkGoto(r, l)
      BY <1>3 DEF AkAdd, AkRateOpen, AkPcs
    <2>3. admitted'.rate = admitted.rate \cup {Member(r)}
      BY <1>3, AdmittedFacts DEF AkAdd, AkRateOpen
    <2>4. r \notin Trying'
      <3>1. ak'[r].pc \in {"expire", "daily"}
        BY <1>3, AkPc DEF AkAdd, AkRateOpen
      <3> QED
        BY <3>1 DEF Trying
    <2> QED
      BY <2>1, <2>2, <2>3, <2>4, MemberMoves
  <1>4. ASSUME NEW ok \in BOOLEAN, AkUsageUpdate(ok) PROVE MemberInv'
    <2>1. akNow' = akNow /\ admitted' = admitted /\ ak' = ak /\ uses'.all = uses.all
      BY <1>4 DEF AkUsageUpdate, AkTypeOK
    <2> QED
      BY <2>1 DEF MemberInv, AkActive, Trying, Member
  <1>5. ASSUME AkTick PROVE MemberInv'
    <2>1. akNow \in Nat /\ akNow' = akNow + 1 /\ admitted' = admitted /\ ak' = ak /\ uses' = uses
      BY <1>5, AkFacts DEF AkTick, AkTypeOK
    <2>2. \A q \in AkReqs : ak[q].at \in Nat
      BY DEF AkTypeOK, AkRec
    <2>3. \A e \in admitted.rate : e.at \in Nat
      BY DEF AkTypeOK, MemberRec
    <2>4. \A e \in admitted.rate : e.at <= akNow'
      BY <2>1, <2>3 DEF MemberInv
    <2>5. \A q \in AkActive : ak[q].at <= akNow'
      BY <2>1, <2>2 DEF MemberInv, AkActive
    <2> QED
      BY <2>1, <2>4, <2>5 DEF MemberInv, AkActive, Trying, Member
  <1>6. ASSUME NEW r \in AkReqs, AkRead(r) \/ (AkRefuse(r) /\ r \in InVerify)
        PROVE  MemberInv'
    <2>1. /\ akNow' = akNow /\ admitted' = admitted /\ uses'.all = uses.all
          /\ ak[r].pc \in {"idle", "verify"} /\ ak'[r].pc \in {"idle", "verify"}
      BY <1>6, AkBegins, AkPc, ReadPeak DEF AkRead, AkRefuse, InVerify
    <2>2. \A q \in AkReqs : q # r => ak'[q] = ak[q]
      BY <1>6, AkOthers DEF AkRefuse
    <2>3. AkActive' = AkActive /\ Trying' = Trying /\ \A q \in AkActive : ak'[q] = ak[q]
      BY <2>1, <2>2 DEF AkActive, Trying
    <2>4. \A q \in Trying : q \in AkActive
      BY DEF Trying, AkActive
    <2> QED
      BY <2>1, <2>3, <2>4 DEF MemberInv, Member
  <1>7. ASSUME NEW r \in AkReqs,
               \/ AkRefuse(r) \/ AkTrim(r) \/ AkCount(r) \/ AkExpire(r) \/ AkMonth(r)
               \/ AkDaily(r) \/ AkDailyOpen(r)
        PROVE  MemberInv'
    <2>1. r \in InVerify => AkRefuse(r)
      BY <1>7 DEF InVerify, AkTrim, AkCount, AkExpire, AkMonth, AkDaily, AkDailyOpen
    <2> QED
      BY <1>2, <1>6, <1>7, <2>1
  <1> QED
    BY <1>1, <1>3, <1>4, <1>5, <1>6, <1>7 DEF AkNext

-----------------------------------------------------------------------------
\* A day lets past no more than its counter and the quota.
LEMMA DayNext == ASSUME AkTypeOK, DayInv, AkNext PROVE DayInv'
  <1>1. ASSUME NEW r \in AkReqs, AkDaily(r) PROVE DayInv'
    <2> DEFINE d == akNow \div Day
    <2>1. d \in AkDays
      BY AdmittedFacts
    <2> HIDE DEF d
    <2>2. /\ open' = open /\ daily' = [daily EXCEPT ![d] = @ + 1]
          /\ \/ admitted' = admitted
             \/ daily'[d] <= PerDay /\ admitted' = [admitted EXCEPT !.day[d] = @ + 1]
      <3>1. daily' = [daily EXCEPT ![d] = @ + 1] /\ open' = open
        BY <1>1 DEF AkDaily, d
      <3>2. daily'[d] \in Nat /\ PerDay \in Nat
        BY <2>1, <3>1, AkFacts DEF AkTypeOK
      <3> QED
        BY <1>1, <3>1, <3>2 DEF AkDaily, d
    <2>3. CASE admitted' = admitted
      BY <2>1, <2>2, <2>3 DEF DayInv, AkTypeOK
    <2>4. CASE daily'[d] <= PerDay /\ admitted' = [admitted EXCEPT !.day[d] = @ + 1]
      <3>1. admitted'.day = [admitted.day EXCEPT ![d] = @ + 1]
        BY <2>1, <2>4, AdmittedFacts
      <3>2. admitted.day \in [AkDays -> Nat] /\ daily \in [AkDays -> Nat] /\ PerDay \in Nat
        BY AkFacts DEF AkTypeOK
      <3> QED
        BY <2>1, <2>2, <2>4, <3>1, <3>2 DEF DayInv
    <2> QED
      BY <2>2, <2>3, <2>4
  <1>2. ASSUME NEW r \in AkReqs, AkDailyOpen(r) PROVE DayInv'
    BY <1>2 DEF AkDailyOpen, DayInv
  <1>3. ASSUME NEW r \in AkReqs, AkAdd(r) \/ AkRateOpen(r) PROVE DayInv'
    <2>1. admitted'.day = admitted.day /\ daily' = daily /\ open \subseteq open'
      BY <1>3, AdmittedFacts DEF AkAdd, AkRateOpen
    <2> QED
      BY <2>1 DEF DayInv
  <1>4. ASSUME NEW r \in AkReqs,
               AkRead(r) \/ AkValidate(r) \/ AkRefuse(r) \/ AkTrim(r) \/ AkCount(r) \/ AkExpire(r) \/ AkMonth(r)
        PROVE  DayInv'
    <2>1. admitted'.day = admitted.day /\ daily' = daily /\ open' = open
      BY <1>4 DEF AkRead, AkValidate, AkRefuse, AkTrim, AkCount, AkExpire, AkMonth, AkTypeOK
    <2> QED
      BY <2>1 DEF DayInv
  <1>5. ASSUME (\E ok \in BOOLEAN : AkUsageUpdate(ok)) \/ AkTick PROVE DayInv'
    <2>1. admitted' = admitted /\ daily' = daily /\ open' = open
      BY <1>5 DEF AkUsageUpdate, AkTick
    <2> QED
      BY <2>1 DEF DayInv
  <1> QED
    BY <1>1, <1>2, <1>3, <1>4, <1>5 DEF AkNext

\* A request that ends, or goes on, without the monthly quota letting it past
LEMMA MonthMoves ==
    ASSUME AkTypeOK, MonthInv, NEW r \in AkReqs, ak[r].pc # "idle", ~ AkValidate(r),
           (\E l \in AkPcs : AkGoto(r, l)) \/ AkReject(r),
           ak[r].pc = "verify" => ak'[r].pc = "idle",
           usage' = usage, owed' = owed, uses' = uses, admitted'.month = admitted.month
    PROVE  MonthInv'
  <1>1. ~ AkRead(r)
    BY DEF AkRead
  <1>2. AkActive' \subseteq AkActive /\ UnderQuota' \subseteq UnderQuota
    <2>1. /\ \A q \in AkReqs : q # r => ak'[q] = ak[q]
          /\ ak'[r].pc # "idle" => ak'[r].count = ak[r].count
      BY <1>1, AkOthers
    <2> QED
      BY <2>1 DEF AkActive, UnderQuota
  <1>3. /\ Cardinality(AkActive') \in Nat /\ Cardinality(UnderQuota') \in Nat
        /\ Cardinality(AkActive) \in Nat /\ Cardinality(UnderQuota) \in Nat
        /\ Cardinality(AkActive') <= Cardinality(AkActive)
        /\ Cardinality(UnderQuota') <= Cardinality(UnderQuota)
    <2>1. AkActive \subseteq AkReqs /\ UnderQuota \subseteq AkReqs
      BY DEF AkActive, UnderQuota
    <2>2. IsFiniteSet(AkActive) /\ IsFiniteSet(UnderQuota)
      BY <2>1, AkFacts, SubsetCount
    <2> QED
      BY <1>2, <2>2, SubsetCount
  <1> QED
    BY <1>3, AkFacts DEF MonthInv, AkTypeOK

\* The requests let past and those that may still be, by every step.
LEMMA MonthNext == ASSUME AkTypeOK, MonthInv, AkNext PROVE MonthInv'
  <1>0. /\ usage \in Nat /\ owed \in Nat /\ uses.all \in Nat /\ uses.peak \in Nat
        /\ uses.failed \in Nat /\ admitted.month \in Nat /\ PerMonth \in Nat /\ PerMonth >= 1
        /\ Cardinality(AkActive) \in Nat /\ Cardinality(UnderQuota) \in Nat
        /\ Cardinality(InVerify) \in Nat
        /\ Cardinality(UnderQuota) <= Cardinality(AkActive) + Cardinality(InVerify)
    BY AkFacts, AkCounts DEF AkTypeOK
  <1>1. ASSUME NEW r \in AkReqs, AkRead(r) PROVE MonthInv'
    <2>1. /\ \A q \in AkReqs : q # r => ak'[q] = ak[q]
          /\ ak'[r].pc = "verify" /\ ak'[r].count = usage /\ ak[r].pc = "idle"
      BY <1>1, AkBegins DEF AkRead
    <2>2. /\ owed' = owed /\ usage' = usage /\ admitted' = admitted
          /\ uses'.all = uses.all /\ uses'.failed = uses.failed /\ uses'.peak \in Nat
          /\ uses'.peak >= uses.peak /\ uses'.peak >= owed + Cardinality(InVerify) + 1
      BY <1>1, ReadPeak DEF AkRead
    <2>3. AkActive' = AkActive
      BY <2>1 DEF AkActive
    <2>4. /\ Cardinality(UnderQuota') \in Nat
          /\ Cardinality(UnderQuota') = Cardinality(UnderQuota) + AkOne(usage < PerMonth)
      <3>1. /\ UnderQuota \subseteq AkReqs /\ UnderQuota' \subseteq AkReqs
            /\ (r \in UnderQuota' <=> usage < PerMonth) /\ r \notin UnderQuota
            /\ \A q \in AkReqs : q # r => (q \in UnderQuota <=> q \in UnderQuota')
        BY <2>1 DEF UnderQuota
      <3> QED
        BY <1>0, <3>1, AkOneMoves DEF AkOne
    <2>5. CASE usage < PerMonth
      BY <1>0, <2>2, <2>3, <2>4, <2>5 DEF MonthInv, AkOne
    <2>6. CASE ~(usage < PerMonth)
      BY <1>0, <2>2, <2>3, <2>4, <2>6 DEF MonthInv, AkOne
    <2> QED
      BY <2>5, <2>6
  <1>6. ASSUME NEW r \in AkReqs, AkValidate(r) PROVE MonthInv'
    <2>0. ak[r].pc = "verify"
      BY <1>6 DEF AkValidate
    <2>1. /\ \A q \in AkReqs : q # r => ak'[q] = ak[q]
          /\ ak'[r].pc = "trim" /\ ak'[r].count = ak[r].count /\ ak[r].pc = "verify"
      BY <1>6, <2>0, AkBegins
    <2>2. /\ owed' = owed + 1 /\ usage' = usage /\ admitted' = admitted
          /\ uses'.all = uses.all + 1 /\ uses'.failed = uses.failed /\ uses'.peak = uses.peak
      BY <1>6 DEF AkValidate, AkTypeOK
    <2>3. Cardinality(AkActive') = Cardinality(AkActive) + 1
      <3>1. /\ AkActive \subseteq AkReqs /\ AkActive' \subseteq AkReqs
            /\ r \in AkActive' /\ r \notin AkActive
            /\ \A q \in AkReqs : q # r => (q \in AkActive <=> q \in AkActive')
        BY <2>1 DEF AkActive
      <3> QED
        BY <1>0, <3>1, AkOneMoves DEF AkOne
    <2>4. UnderQuota' = UnderQuota
      BY <2>1 DEF UnderQuota
    <2> QED
      BY <1>0, <2>2, <2>3, <2>4 DEF MonthInv
  <1>2. ASSUME NEW r \in AkReqs, AkMonth(r) PROVE MonthInv'
    <2>1. /\ r \in AkActive /\ AkReject(r) /\ usage' = usage /\ owed' = owed /\ uses' = uses
          /\ ak[r].count \in Nat
      BY <1>2 DEF AkMonth, AkActive, AkTypeOK, AkRec
    <2>2. CASE ak[r].count >= PerMonth
      <3>1. ak[r].pc = "month" /\ admitted' = admitted /\ ~ AkValidate(r)
        BY <1>2, <2>2 DEF AkMonth, AkValidate
      <3> QED
        BY <2>1, <3>1, MonthMoves
    <2>3. CASE ~(ak[r].count >= PerMonth)
      <3>1. admitted'.month = admitted.month + 1
        BY <1>2, <2>3 DEF AkMonth, AkTypeOK
      <3>2. /\ \A q \in AkReqs : q # r => ak'[q] = ak[q]
            /\ ak'[r].pc = "idle"
        BY <2>1, AkOthers, AkPc
      <3>3. Cardinality(AkActive') = Cardinality(AkActive) - 1
        <4>1. /\ AkActive \subseteq AkReqs /\ AkActive' \subseteq AkReqs
              /\ r \notin AkActive' /\ r \in AkActive
              /\ \A q \in AkReqs : q # r => (q \in AkActive <=> q \in AkActive')
          BY <2>1, <3>2 DEF AkActive
        <4> QED
          BY <1>0, <4>1, AkOneMoves DEF AkOne
      <3>4. Cardinality(UnderQuota') = Cardinality(UnderQuota) - 1
        <4>1. /\ UnderQuota \subseteq AkReqs /\ UnderQuota' \subseteq AkReqs
              /\ r \notin UnderQuota' /\ r \in UnderQuota
              /\ \A q \in AkReqs : q # r => (q \in UnderQuota <=> q \in UnderQuota')
          BY <1>0, <2>1, <2>3, <3>2 DEF AkActive, UnderQuota
        <4> QED
          BY <1>0, <4>1, AkOneMoves DEF AkOne
      <3> QED
        BY <1>0, <2>1, <3>1, <3>3, <3>4 DEF MonthInv
    <2> QED
      BY <2>2, <2>3
  <1>3. ASSUME NEW r \in AkReqs, AkRefuse(r) \/ AkTrim(r) \/ AkCount(r) \/ AkExpire(r) \/ AkAdd(r)
                                  \/ AkRateOpen(r) \/ AkDaily(r) \/ AkDailyOpen(r)
        PROVE  MonthInv'
    <2>1. ak[r].pc # "idle" /\ (ak[r].pc = "verify" => AkRefuse(r))
      BY <1>3 DEF AkRefuse, AkTrim, AkCount, AkExpire, AkAdd, AkRateOpen, AkDaily, AkDailyOpen
    <2>4. (ak[r].pc = "verify" => ak'[r].pc = "idle") /\ ~ AkValidate(r)
      <3>1. AkRefuse(r) => ak'[r].pc = "idle"
        BY AkPc DEF AkRefuse
      <3>2. AkValidate(r) => ak'[r].pc = "trim"
        BY AkBegins
      <3>3. AkValidate(r) => ak[r].pc = "verify"
        BY DEF AkValidate
      <3> QED
        BY <2>1, <3>1, <3>2, <3>3
    <2>2. /\ usage' = usage /\ owed' = owed /\ uses' = uses
          /\ (\E l \in AkPcs : AkGoto(r, l)) \/ AkReject(r)
      BY <1>3 DEF AkRefuse, AkTrim, AkCount, AkExpire, AkAdd, AkRateOpen, AkDaily, AkDailyOpen,
                  AkPcs
    <2>3. admitted'.month = admitted.month
      BY <1>3, AdmittedFacts
        DEF AkRefuse, AkTrim, AkCount, AkExpire, AkAdd, AkRateOpen, AkDaily, AkDailyOpen
    <2> QED
      BY <2>1, <2>2, <2>3, <2>4, MonthMoves
  <1>4. ASSUME NEW ok \in BOOLEAN, AkUsageUpdate(ok) PROVE MonthInv'
    <2>1. /\ AkActive' = AkActive /\ UnderQuota' = UnderQuota /\ admitted' = admitted
          /\ owed' = owed - 1 /\ owed > 0
      BY <1>4 DEF AkUsageUpdate, AkActive, UnderQuota
    <2>2. \/ usage' = usage + 1 /\ uses' = uses
          \/ /\ usage' = usage /\ uses'.all = uses.all /\ uses'.peak = uses.peak
             /\ uses'.failed = uses.failed + 1
      BY <1>4 DEF AkUsageUpdate, AkTypeOK
    <2> QED
      BY <1>0, <2>1, <2>2 DEF MonthInv
  <1>5. ASSUME AkTick PROVE MonthInv'
    <2>1. /\ AkActive' = AkActive /\ UnderQuota' = UnderQuota /\ admitted' = admitted
          /\ owed' = owed /\ usage' = usage /\ uses' = uses
      BY <1>5 DEF AkTick, AkActive, UnderQuota
    <2> QED
      BY <2>1 DEF MonthInv
  <1> QED
    BY <1>1, <1>2, <1>3, <1>4, <1>5, <1>6 DEF AkNext

-----------------------------------------------------------------------------
\* The instants that are compared are numbers.
LEMMA AkInstants ==
    ASSUME AkTypeOK
    PROVE  /\ akNow \in Nat /\ deadline \in Int
           /\ \A e \in admitted.rate : e.at \in Nat
           /\ \A r \in AkReqs : ak[r].at \in Nat
  BY AkFacts DEF AkTypeOK, MemberRec, AkRec

\* Requests other than r keep their members; so does r unless it ends.
LEMMA ExpiringKept ==
    ASSUME AkTypeOK, NEW r \in AkReqs, ak[r].pc # "expire",
           \/ \E l \in AkPcs : AkGoto(r, l)
           \/ AkReject(r)
           \/ AkValidate(r)
           \/ AkRead(r)
    PROVE  \A q \in Expiring : q \in Expiring' /\ Member(q)' = Member(q)
  <1>1. \A q \in AkReqs : q # r => ak'[q] = ak[q]
    BY AkOthers
  <1> QED
    BY <1>1 DEF Expiring, Member

\* Every member in the sorted set will be there for its window, unless its EXPIRE
\* is still to come; one that is not there left the window or went with the key.
LEMMA TtlNext ==
    ASSUME AkTypeOK, MemberInv, TtlInv, AkNext, "rate" \notin open'
    PROVE  TtlInv'
  <1>0. /\ akNow \in Nat /\ deadline \in Int /\ Ttl \in Nat /\ Ttl > Window /\ Window \in Nat
        /\ Window >= 1 /\ NoDeadline = -1
        /\ \A e \in admitted.rate : e.at \in Nat /\ e.at <= akNow
        /\ zset \subseteq admitted.rate
    BY AkFacts, AkInstants DEF MemberInv, AkTypeOK
  <1>1. ASSUME akNow' = akNow, deadline' = deadline, zset' = zset,
               admitted'.rate = admitted.rate,
               \A q \in Expiring : q \in Expiring' /\ Member(q)' = Member(q)
        PROVE  TtlInv'
    BY <1>1 DEF TtlInv
  <1>2. ASSUME NEW r \in AkReqs,
               \/ AkRead(r) \/ AkValidate(r) \/ AkRefuse(r)
               \/ AkCount(r) \/ AkDaily(r) \/ AkDailyOpen(r) \/ AkMonth(r)
        PROVE  TtlInv'
    <2>1. akNow' = akNow /\ deadline' = deadline /\ zset' = zset
      BY <1>2 DEF AkRead, AkValidate, AkRefuse, AkCount, AkDaily, AkDailyOpen, AkMonth
    <2>2. admitted'.rate = admitted.rate
      BY <1>2, AdmittedFacts
        DEF AkRead, AkValidate, AkRefuse, AkCount, AkDaily, AkDailyOpen, AkMonth, AkTypeOK
    <2>3. /\ ak[r].pc # "expire"
          /\ (\E l \in AkPcs : AkGoto(r, l)) \/ AkReject(r) \/ AkValidate(r) \/ AkRead(r)
      BY <1>2 DEF AkRead, AkValidate, AkRefuse, AkCount, AkDaily, AkDailyOpen, AkMonth, AkPcs
    <2> QED
      BY <1>1, <2>1, <2>2, <2>3, ExpiringKept
  <1>3. ASSUME NEW ok \in BOOLEAN, AkUsageUpdate(ok) PROVE TtlInv'
    BY <1>1, <1>3 DEF AkUsageUpdate, Expiring, Member
  <1>4. ASSUME NEW r \in AkReqs, AkTrim(r) PROVE TtlInv'
    <2>1. /\ akNow' = akNow /\ admitted' = admitted /\ zset' = {e \in zset : e.at > ak[r].at - Window}
          /\ deadline' = IF zset' = {} THEN NoDeadline ELSE deadline
          /\ ak[r].pc = "trim" /\ AkGoto(r, "count")
      BY <1>4 DEF AkTrim
    <2>2. \A q \in Expiring : q \in Expiring' /\ Member(q)' = Member(q)
      BY <2>1, ExpiringKept DEF AkPcs
    <2>3. ak[r].at \in Nat /\ ak[r].at <= akNow
      BY <2>1, AkInstants DEF MemberInv, AkActive
    <2>4. ASSUME NEW e \in admitted.rate \ zset'
          PROVE  /\ e.at < akNow
                 /\ \/ deadline' = NoDeadline
                    \/ e.at + Ttl < deadline'
                    \/ e.at <= akNow - Window
      <3>1. CASE e \notin zset
        BY <2>1, <3>1 DEF TtlInv
      <3>2. CASE e \in zset
        <4>1. e.at <= ak[r].at - Window
          BY <1>0, <2>1, <2>3, <3>2
        <4> QED
          BY <1>0, <2>3, <4>1
      <3> QED
        BY <3>1, <3>2
    <2>5. ASSUME NEW e \in zset'
          PROVE  \/ \E q \in Expiring' : e = Member(q)'
                 \/ deadline' # NoDeadline /\ e.at + Ttl <= deadline'
      <3>1. e \in zset /\ deadline' = deadline
        BY <2>1
      <3> QED
        BY <2>2, <3>1 DEF TtlInv
    <2>6. deadline' = NoDeadline \/ deadline' > akNow
      BY <2>1 DEF TtlInv
    <2> QED
      BY <2>1, <2>4, <2>5, <2>6 DEF TtlInv
  <1>5. ASSUME NEW r \in AkReqs, AkAdd(r) PROVE TtlInv'
    <2>1. /\ akNow' = akNow /\ deadline' = deadline /\ zset' = zset \cup {Member(r)}
          /\ ak[r].pc = "add" /\ AkGoto(r, "expire")
      BY <1>5 DEF AkAdd
    <2>2. admitted'.rate = admitted.rate \cup {Member(r)}
      BY <1>5, AdmittedFacts DEF AkAdd
    <2>3. \A q \in Expiring : q \in Expiring' /\ Member(q)' = Member(q)
      BY <2>1, ExpiringKept DEF AkPcs
    <2>4. r \in Expiring' /\ Member(r)' = Member(r)
      <3>1. ak'[r].pc = "expire" /\ ~ AkValidate(r) /\ ~ AkRead(r)
        BY <2>1, AkPc DEF AkValidate, AkRead
      <3>2. ak'[r].at = ak[r].at /\ ak'[r].id = ak[r].id
        BY <2>1, <3>1, AkOthers DEF AkPcs
      <3> QED
        BY <3>1, <3>2 DEF Expiring, Member
    <2> QED
      BY <2>1, <2>2, <2>3, <2>4 DEF TtlInv
  <1>6. ASSUME NEW r \in AkReqs, AkExpire(r) PROVE TtlInv'
    <2>1. /\ akNow' = akNow /\ zset' = zset /\ admitted' = admitted
          /\ deadline' = IF zset = {} THEN NoDeadline ELSE akNow + Ttl
      BY <1>6 DEF AkExpire
    <2>2. CASE zset = {}
      BY <2>1, <2>2 DEF TtlInv
    <2>3. CASE zset # {}
      <3>1. deadline' = akNow + Ttl /\ deadline' # NoDeadline /\ deadline' > akNow
        BY <1>0, <2>1, <2>3
      <3>2. \A e \in zset : e.at + Ttl <= deadline'
        BY <1>0, <3>1
      <3>3. \A e \in admitted.rate \ zset : e.at < akNow /\ e.at + Ttl < deadline'
        BY <1>0, <3>1 DEF TtlInv
      <3> QED
        BY <2>1, <3>1, <3>2, <3>3 DEF TtlInv
    <2> QED
      BY <2>2, <2>3
  <1>7. ASSUME AkTick PROVE TtlInv'
    <2>1. /\ akNow' = akNow + 1 /\ admitted' = admitted /\ ak' = ak
          /\ zset' = IF akNow' = deadline THEN {} ELSE zset
          /\ deadline' = IF akNow' = deadline THEN NoDeadline ELSE deadline
      BY <1>7 DEF AkTick
    <2>2. \A q \in Expiring : q \in Expiring' /\ Member(q)' = Member(q)
      BY <2>1 DEF Expiring, Member
    <2>3. CASE akNow' = deadline
      <3>1. \A e \in admitted.rate : e.at < akNow'
        BY <1>0, <2>1
      <3> QED
        BY <2>1, <2>3, <3>1 DEF TtlInv
    <2>4. CASE akNow' # deadline
      <3>1. deadline = NoDeadline \/ deadline > akNow'
        BY <1>0, <2>1, <2>4 DEF TtlInv
      <3>2. \A e \in admitted.rate \ zset :
              /\ e.at < akNow'
              /\ \/ deadline = NoDeadline
                 \/ e.at + Ttl < deadline
                 \/ e.at <= akNow' - Window
        BY <1>0, <2>1 DEF TtlInv
      <3> QED
        BY <2>1, <2>2, <2>4, <3>1, <3>2 DEF TtlInv
    <2> QED
      BY <2>3, <2>4
  <1>8. ASSUME NEW r \in AkReqs, AkRateOpen(r) PROVE FALSE
    BY <1>8 DEF AkRateOpen
  <1> QED
    BY <1>2, <1>3, <1>4, <1>5, <1>6, <1>7, <1>8 DEF AkNext

-----------------------------------------------------------------------------
\* A step that lets nothing past and loses no member of a window that is not over.
LEMMA WindowQuiet ==
    ASSUME AkTypeOK, AkTypeOK', akNow' = akNow, admitted'.rate = admitted.rate,
           NEW t \in AkTimes, WindowAt(t),
           akNow <= t => InWindow(t) \ zset' \subseteq InWindow(t) \ zset,
           akNow > t => Joining(t)' \subseteq Joining(t)
    PROVE  WindowAt(t)'
  <1>0. /\ IsFiniteSet(AkReqs) /\ Cardinality(AkReqs) \in Nat /\ akNow \in Nat /\ t \in Nat
        /\ PerWindow \in Nat
    BY AkFacts, AkInstants
  <1>1. InWindow(t)' = InWindow(t)
    BY DEF InWindow
  <1>2. CASE akNow <= t
    <2>1. IsFiniteSet(InWindow(t) \ zset)
      BY AkCounts
    <2>2. /\ Cardinality(InWindow(t) \ zset') \in Nat /\ Cardinality(InWindow(t) \ zset) \in Nat
          /\ Cardinality(InWindow(t) \ zset') <= Cardinality(InWindow(t) \ zset)
      BY <1>2, <2>1, SubsetCount
    <2> QED
      BY <1>0, <1>1, <1>2, <2>2 DEF WindowAt
  <1>3. CASE ~(akNow <= t)
    <2>1. Joining(t) \subseteq AkReqs /\ Joining(t)' \subseteq Joining(t)
      BY <1>0, <1>3 DEF Joining, Trying
    <2>2. /\ Cardinality(Joining(t)') \in Nat /\ Cardinality(Joining(t)) \in Nat
          /\ Cardinality(Joining(t)') <= Cardinality(Joining(t))
      <3>1. IsFiniteSet(Joining(t))
        BY <1>0, <2>1, SubsetCount
      <3> QED
        BY <2>1, <3>1, SubsetCount
    <2>3. Cardinality(InWindow(t)) \in Nat
      BY AkCounts
    <2> QED
      BY <1>0, <1>1, <1>3, <2>2, <2>3 DEF WindowAt
  <1> QED
    BY <1>2, <1>3

\* The requests that may still join a window do not grow by a request under way.
LEMMA JoiningKept ==
    ASSUME AkTypeOK, NEW r \in AkReqs, (\E l \in AkPcs : AkGoto(r, l)) \/ AkReject(r),
           ak[r].pc \notin {"idle", "verify"}, ak'[r].pc \in {"trim", "count", "add"} => r \in Trying
    PROVE  \A t \in AkTimes : Joining(t)' \subseteq Joining(t)
  <1>1. /\ \A q \in AkReqs : q # r => ak'[q] = ak[q]
        /\ ak'[r].pc # "idle" => ak'[r].at = ak[r].at
    <2>1. ak[r].pc # "verify" /\ ak[r].pc # "idle"
      OBVIOUS
    <2>2. ~ AkValidate(r) /\ ~ AkRead(r)
      BY <2>1 DEF AkValidate, AkRead
    <2> QED
      BY <2>2, AkOthers
  <1>2. ASSUME NEW t \in AkTimes, NEW q \in Joining(t)'
        PROVE  q \in Joining(t)
    <2>1. q \in AkReqs /\ ak'[q].pc \in {"trim", "count", "add"}
      BY <1>2 DEF Joining, Trying
    <2>2. t - Window < ak'[q].at /\ ak'[q].at <= t
      BY <1>2 DEF Joining
    <2>3. q \in Trying /\ ak'[q].at = ak[q].at
      BY <1>1, <2>1 DEF Trying
    <2> QED
      BY <2>2, <2>3 DEF Joining
  <1> QED
    BY <1>2

\* The requests about to add stay the same unless r is one of them.
LEMMA AddingKept ==
    ASSUME AkTypeOK, NEW r \in AkReqs,
           (\E l \in AkPcs : AkGoto(r, l)) \/ AkReject(r) \/ AkValidate(r) \/ AkRead(r),
           ak[r].pc # "add", ak'[r].pc # "add"
    PROVE  Adding' = Adding
  <1>1. \A q \in AkReqs : q # r => ak'[q] = ak[q]
    BY AkOthers
  <1> QED
    BY <1>1 DEF Adding

\* ZADD: the member joins the sorted set and its windows; the request no longer may.
LEMMA WindowAddStep ==
    ASSUME AkTypeOK, AkTypeOK', MemberInv, WindowInv, NEW r \in AkReqs, AkAdd(r)
    PROVE  WindowInv'
  <1>0. /\ Cardinality(AkReqs) \in Nat /\ PerWindow \in Nat /\ akNow \in Nat
        /\ AkTimes \subseteq Nat /\ Window \in Nat
        /\ Cardinality(zset) \in Nat /\ IsFiniteSet(zset)
        /\ Cardinality(Adding) \in Nat
    BY AkFacts, AkCounts, AkInstants
  <1>1. /\ akNow' = akNow /\ zset' = zset \cup {Member(r)}
        /\ ak[r].pc = "add" /\ AkGoto(r, "expire")
    BY DEF AkAdd
  <1>2. admitted'.rate = admitted.rate \cup {Member(r)} /\ Member(r) \notin admitted.rate
    BY <1>1, AdmittedFacts DEF AkAdd, MemberInv, Trying
  <1>3. /\ \A q \in AkReqs : q # r => ak'[q] = ak[q]
        /\ ak'[r].pc = "expire"
    BY <1>1, AkOthers, AkPc DEF AkPcs
  <1>4. Cardinality(zset') = Cardinality(zset) + 1
    <2>1. Member(r) \notin zset
      BY <1>2 DEF AkTypeOK
    <2> QED
      BY <1>0, <1>1, <2>1, FS_AddElement
  <1>5. Cardinality(Adding') = Cardinality(Adding) - 1
    <2>1. /\ Adding \subseteq AkReqs /\ Adding' \subseteq AkReqs /\ r \in Adding /\ r \notin Adding'
          /\ \A q \in AkReqs : q # r => (q \in Adding <=> q \in Adding')
      BY <1>1, <1>3 DEF Adding
    <2> QED
      BY <1>0, <2>1, AkOneMoves DEF AkOne
  <1>6. ASSUME NEW t \in AkTimes
        PROVE  WindowAt(t)'
    <2>0. /\ t \in Nat /\ WindowAt(t)
          /\ IsFiniteSet(InWindow(t)) /\ Cardinality(InWindow(t)) \in Nat
          /\ Cardinality(Joining(t)) \in Nat
      BY <1>0, AkCounts DEF WindowInv
    <2>1. CASE akNow <= t
      <3>1. InWindow(t)' \ zset' = InWindow(t) \ zset
        <4>1. InWindow(t)' \ zset' \subseteq InWindow(t) \ zset
          BY <1>1, <1>2 DEF InWindow
        <4>2. InWindow(t) \ zset \subseteq InWindow(t)' \ zset'
          BY <1>1, <1>2 DEF InWindow
        <4> QED
          BY <4>1, <4>2
      <3> QED
        BY <1>1, <2>0, <2>1, <3>1 DEF WindowAt
    <2>2. CASE ~(akNow <= t)
      <3>1. Joining(t)' \subseteq Joining(t) /\ r \notin Joining(t)'
        BY <1>1, <1>3, JoiningKept DEF Trying, Joining, AkPcs
      <3>2. CASE t - Window < ak[r].at /\ ak[r].at <= t
        <4>1. InWindow(t)' = InWindow(t) \cup {Member(r)} /\ Member(r) \notin InWindow(t)
          BY <1>2, <3>2 DEF InWindow, Member
        <4>2. Cardinality(InWindow(t)') = Cardinality(InWindow(t)) + 1
          BY <2>0, <4>1, FS_AddElement
        <4>3. /\ Joining(t) \subseteq AkReqs /\ Joining(t)' \subseteq AkReqs
              /\ r \in Joining(t) /\ r \notin Joining(t)'
              /\ \A q \in AkReqs : q # r => (q \in Joining(t) <=> q \in Joining(t)')
          BY <1>1, <1>3, <3>1, <3>2 DEF Joining, Trying
        <4>4. Cardinality(Joining(t)') = Cardinality(Joining(t)) - 1
          BY <2>0, <4>3, AkOneMoves DEF AkOne
        <4> QED
          BY <1>0, <1>1, <2>0, <2>2, <4>2, <4>4 DEF WindowAt
      <3>3. CASE ~(t - Window < ak[r].at /\ ak[r].at <= t)
        <4>1. InWindow(t)' = InWindow(t)
          BY <1>2, <3>3 DEF InWindow, Member
        <4>2. Cardinality(Joining(t)') \in Nat /\ Cardinality(Joining(t)') <= Cardinality(Joining(t))
          <5>1. IsFiniteSet(Joining(t))
            BY AkFacts, SubsetCount DEF Joining, Trying
          <5> QED
            BY <3>1, <5>1, SubsetCount
        <4> QED
          BY <1>0, <1>1, <2>0, <2>2, <4>1, <4>2 DEF WindowAt
      <3> QED
        BY <3>2, <3>3
    <2> QED
      BY <2>1, <2>2
  <1> QED
    BY <1>0, <1>4, <1>5, <1>6 DEF WindowInv

\* At most one member per request is lost with the key before its EXPIRE.
LEMMA LostCount ==
    ASSUME NEW S, \A e \in S : \E r \in Expiring : e = Member(r)
    PROVE  IsFiniteSet(S) /\ Cardinality(S) \in Nat /\ Cardinality(S) <= Cardinality(AkReqs)
  <1> DEFINE f == [e \in S |-> CHOOSE r \in AkReqs : e = Member(r)]
  <1>1. \A e \in S : f[e] \in AkReqs /\ e = Member(f[e])
    BY DEF Expiring
  <1>2. f \in Injection(S, AkReqs)
    BY <1>1 DEF Injection, IsInjective
  <1> QED
    BY <1>2, AkFacts, FS_Injection, FS_CardinalityType

\* The clock: a key may go with its members, and a window may end.
LEMMA WindowTickStep ==
    ASSUME AkTypeOK, AkTypeOK', MemberInv, TtlInv, WindowInv, AkTick
    PROVE  WindowInv'
  <1>0. /\ akNow \in Nat /\ deadline \in Int /\ Ttl \in Nat /\ Ttl > Window /\ Window \in Nat
        /\ NoDeadline = -1 /\ PerWindow \in Nat /\ PerWindow >= 1 /\ Cardinality(AkReqs) \in Nat
        /\ \A e \in admitted.rate : e.at \in Nat /\ e.at <= akNow
        /\ Cardinality(zset) \in Nat /\ IsFiniteSet(zset) /\ Cardinality(Adding) \in Nat
        /\ Cardinality(Adding) <= Cardinality(AkReqs)
    BY AkFacts, AkInstants, AkCounts DEF MemberInv
  <1>1. /\ akNow' = akNow + 1 /\ admitted' = admitted /\ ak' = ak
        /\ zset' = IF akNow' = deadline THEN {} ELSE zset
    BY DEF AkTick
  <1>2. /\ Adding' = Adding
        /\ \A t \in AkTimes : Joining(t)' = Joining(t) /\ InWindow(t)' = InWindow(t)
    BY <1>1 DEF Adding, Joining, Trying, InWindow
  <1>3. Cardinality(zset') + Cardinality(Adding') <= PerWindow - 1 + Cardinality(AkReqs)
    <2>1. CASE zset' = zset
      BY <1>2, <2>1 DEF WindowInv
    <2>2. CASE zset' = {}
      <3>1. Cardinality(zset') = 0
        BY <2>2, FS_EmptySet
      <3> QED
        BY <1>0, <1>2, <3>1
    <2> QED
      BY <1>1, <2>1, <2>2
  <1>4. ASSUME NEW t \in AkTimes
        PROVE  WindowAt(t)'
    <2>0. /\ t \in Nat /\ WindowAt(t)
          /\ IsFiniteSet(InWindow(t)) /\ Cardinality(InWindow(t)) \in Nat
          /\ IsFiniteSet(InWindow(t) \ zset) /\ Cardinality(InWindow(t) \ zset) \in Nat
          /\ Cardinality(Joining(t)) \in Nat /\ Cardinality(Joining(t)) <= Cardinality(AkReqs)
      BY AkFacts, AkCounts DEF WindowInv
    <2>1. CASE akNow + 1 <= t /\ akNow' # deadline
      <3>1. akNow <= t /\ akNow' <= t /\ zset' = zset
        BY <1>0, <1>1, <2>0, <2>1
      <3> QED
        BY <1>2, <2>0, <3>1 DEF WindowAt
    <2>2. CASE akNow + 1 <= t /\ akNow' = deadline
      <3>1. ASSUME NEW e \in InWindow(t)
            PROVE  \E r \in Expiring : e = Member(r)
        <4>1. e \in admitted.rate /\ t - Window < e.at /\ deadline # NoDeadline
          BY <1>0, <1>1, <2>2, <3>1 DEF InWindow
        <4>2. ~(e.at + Ttl <= deadline) /\ ~(e.at <= akNow - Window)
          BY <1>0, <1>1, <2>0, <2>2, <4>1
        <4>3. e \in zset
          <5>1. SUFFICES ASSUME e \notin zset PROVE FALSE
            OBVIOUS
          <5>2. e.at + Ttl < deadline
            BY <4>1, <4>2, <5>1 DEF TtlInv
          <5> QED
            BY <1>0, <4>1, <4>2, <5>2
        <4> QED
          BY <4>2, <4>3 DEF TtlInv
      <3>2. Cardinality(InWindow(t)) <= Cardinality(AkReqs)
        BY <3>1, LostCount
      <3>3. InWindow(t)' \ zset' = InWindow(t)
        BY <1>1, <1>2, <2>2
      <3> QED
        BY <1>1, <2>2, <3>2, <3>3 DEF WindowAt
    <2>3. CASE akNow = t
      <3>1. Cardinality(InWindow(t) \ zset) <= Cardinality(AkReqs)
        BY <1>0, <2>0, <2>3 DEF WindowAt
      <3>2. Cardinality(InWindow(t)) <= Cardinality(zset) + Cardinality(InWindow(t) \ zset)
        <4>1. InWindow(t) \subseteq zset \cup (InWindow(t) \ zset)
          OBVIOUS
        <4>2. /\ IsFiniteSet(zset \cup (InWindow(t) \ zset))
              /\ Cardinality(zset \cup (InWindow(t) \ zset))
                   = Cardinality(zset) + Cardinality(InWindow(t) \ zset)
                     - Cardinality(zset \cap (InWindow(t) \ zset))
          BY <1>0, <2>0, FS_Union
        <4>3. Cardinality(zset \cap (InWindow(t) \ zset)) \in Nat
          BY <1>0, FS_Intersection, FS_CardinalityType
        <4>4. Cardinality(InWindow(t)) <= Cardinality(zset \cup (InWindow(t) \ zset))
          BY <4>1, <4>2, SubsetCount
        <4> QED
          BY <1>0, <2>0, <4>2, <4>3, <4>4
      <3>3. Cardinality(zset) + Cardinality(Adding) <= PerWindow - 1 + Cardinality(AkReqs)
        BY DEF WindowInv
      <3>4. ~(akNow' <= t)
        BY <1>0, <1>1, <2>3
      <3>5. Cardinality(InWindow(t)) + Cardinality(Joining(t))
              <= PerWindow - 1 + 3 * Cardinality(AkReqs)
        BY <1>0, <2>0, <3>1, <3>2, <3>3
      <3> QED
        BY <1>2, <3>4, <3>5 DEF WindowAt
    <2>4. CASE akNow > t
      <3>1. ~(akNow <= t) /\ ~(akNow' <= t)
        BY <1>0, <1>1, <2>0, <2>4
      <3> QED
        BY <1>2, <2>0, <3>1 DEF WindowAt
    <2> QED
      BY <1>0, <2>0, <2>1, <2>2, <2>3, <2>4
  <1> QED
    BY <1>3, <1>4 DEF WindowInv

\* The members in the sorted set and in every window, by every step.
LEMMA WindowNext ==
    ASSUME AkTypeOK, AkTypeOK', MemberInv, TtlInv, WindowInv, AkNext, "rate" \notin open'
    PROVE  WindowInv'
  <1>0. /\ Cardinality(AkReqs) \in Nat /\ PerWindow \in Nat /\ PerWindow >= 1 /\ akNow \in Nat
        /\ Cardinality(zset) \in Nat /\ IsFiniteSet(zset) /\ Cardinality(Adding) \in Nat
        /\ AkTimes \subseteq Nat /\ Window \in Nat
        /\ \A t \in AkTimes : WindowAt(t)
    BY AkFacts, AkCounts, AkInstants DEF WindowInv
  <1>1. ASSUME zset' = zset, Adding' = Adding
        PROVE  Cardinality(zset') + Cardinality(Adding') <= PerWindow - 1 + Cardinality(AkReqs)
    BY <1>1 DEF WindowInv
  <1>2. ASSUME NEW r \in AkReqs, AkValidate(r) PROVE WindowInv'
    <2>1. akNow' = akNow /\ zset' = zset /\ admitted' = admitted /\ ak[r].pc = "verify"
      BY <1>2 DEF AkValidate
    <2>2. /\ \A q \in AkReqs : q # r => ak'[q] = ak[q]
          /\ ak'[r].pc = "trim" /\ ak'[r].at = akNow
      BY <1>2, AkBegins
    <2>3. Adding' = Adding
      BY <1>2, <2>1, <2>2, AddingKept
    <2>4. ASSUME NEW t \in AkTimes, akNow > t
          PROVE  Joining(t)' \subseteq Joining(t)
      <3>1. r \notin Joining(t)'
        BY <1>0, <2>2, <2>4 DEF Joining
      <3> QED
        BY <2>2, <3>1 DEF Joining, Trying
    <2>5. \A t \in AkTimes : WindowAt(t)'
      BY <1>0, <2>1, <2>4, WindowQuiet
    <2> QED
      BY <1>1, <2>1, <2>3, <2>5 DEF WindowInv
  <1>3. ASSUME NEW r \in AkReqs, AkTrim(r) PROVE WindowInv'
    <2>1. /\ akNow' = akNow /\ admitted' = admitted /\ zset' = {e \in zset : e.at > ak[r].at - Window}
          /\ ak[r].pc = "trim" /\ AkGoto(r, "count")
      BY <1>3 DEF AkTrim
    <2>2. ak'[r].pc = "count" /\ r \in Trying
      BY <2>1, AkPc DEF Trying
    <2>3. Adding' = Adding
      BY <2>1, <2>2, AddingKept DEF AkPcs
    <2>4. \A t \in AkTimes : Joining(t)' \subseteq Joining(t)
      BY <2>1, <2>2, JoiningKept DEF AkPcs
    <2>5. ASSUME NEW t \in AkTimes, akNow <= t
          PROVE  InWindow(t) \ zset' \subseteq InWindow(t) \ zset
      <3>1. ak[r].at \in Nat /\ ak[r].at <= akNow
        BY <2>1, AkInstants DEF MemberInv, AkActive
      <3>2. ASSUME NEW e \in InWindow(t), e \in zset
            PROVE  e \in zset'
        <4>1. e.at \in Nat /\ t - Window < e.at
          BY <3>2, AkInstants DEF InWindow
        <4>2. t \in Nat /\ Window \in Nat /\ akNow \in Nat
          BY <1>0, AkFacts
        <4>3. ASSUME NEW x \in Nat, NEW z \in Nat, x <= akNow, t - Window < z
              PROVE  z > x - Window
          BY <2>5, <4>2, <4>3
        <4>4. e.at > ak[r].at - Window
          BY <3>1, <4>1, <4>3
        <4> QED
          BY <2>1, <3>2, <4>4
      <3> QED
        BY <3>2
    <2>6. \A t \in AkTimes : WindowAt(t)'
      BY <1>0, <2>1, <2>4, <2>5, WindowQuiet
    <2>7. Cardinality(zset') \in Nat /\ Cardinality(zset') <= Cardinality(zset)
      BY <1>0, <2>1, SubsetCount
    <2> QED
      BY <1>0, <2>3, <2>6, <2>7 DEF WindowInv
  <1>4. ASSUME NEW r \in AkReqs, AkCount(r) PROVE WindowInv'
    <2>1. akNow' = akNow /\ zset' = zset /\ admitted' = admitted /\ ak[r].pc = "count"
      BY <1>4 DEF AkCount
    <2>2. (\E l \in AkPcs : AkGoto(r, l)) \/ AkReject(r)
      BY <1>4 DEF AkCount, AkPcs
    <2>3. \A t \in AkTimes : Joining(t)' \subseteq Joining(t)
      BY <2>1, <2>2, JoiningKept DEF Trying
    <2>4. \A t \in AkTimes : WindowAt(t)'
      BY <1>0, <2>1, <2>3, WindowQuiet
    <2>5. CASE Cardinality(zset) >= PerWindow
      <3>1. AkReject(r) /\ ak'[r].pc = "idle"
        BY <1>4, <2>5, AkPc DEF AkCount
      <3>2. Adding' = Adding
        BY <2>1, <3>1, AddingKept
      <3> QED
        BY <1>1, <2>1, <2>4, <3>2 DEF WindowInv
    <2>6. CASE ~(Cardinality(zset) >= PerWindow)
      <3>1. Cardinality(Adding') \in Nat /\ Cardinality(Adding') <= Cardinality(AkReqs)
        BY AkFacts, SubsetCount DEF Adding
      <3> QED
        BY <1>0, <2>1, <2>4, <2>6, <3>1 DEF WindowInv
    <2> QED
      BY <2>5, <2>6
  <1>5. ASSUME NEW r \in AkReqs, AkExpire(r) \/ AkDaily(r) \/ AkDailyOpen(r) \/ AkMonth(r)
        PROVE  WindowInv'
    <2>1. akNow' = akNow /\ zset' = zset /\ ak[r].pc \in {"expire", "daily", "month"}
      BY <1>5 DEF AkExpire, AkDaily, AkDailyOpen, AkMonth
    <2>2. admitted'.rate = admitted.rate
      BY <1>5, AdmittedFacts DEF AkExpire, AkDaily, AkDailyOpen, AkMonth, AkTypeOK
    <2>3. /\ (\E l \in AkPcs : AkGoto(r, l)) \/ AkReject(r)
          /\ ak'[r].pc \in {"idle", "daily", "month"}
      BY <1>5, AkPc DEF AkExpire, AkDaily, AkDailyOpen, AkMonth, AkPcs
    <2>4. Adding' = Adding
      BY <2>1, <2>3, AddingKept
    <2>5. \A t \in AkTimes : Joining(t)' \subseteq Joining(t)
      BY <2>1, <2>3, JoiningKept
    <2>6. \A t \in AkTimes : WindowAt(t)'
      BY <1>0, <2>1, <2>2, <2>5, WindowQuiet
    <2> QED
      BY <1>1, <2>1, <2>4, <2>6 DEF WindowInv
  <1>6. ASSUME NEW ok \in BOOLEAN, AkUsageUpdate(ok) PROVE WindowInv'
    <2>1. akNow' = akNow /\ zset' = zset /\ admitted' = admitted /\ ak' = ak
      BY <1>6 DEF AkUsageUpdate
    <2>2. Adding' = Adding /\ \A t \in AkTimes : Joining(t)' \subseteq Joining(t)
      BY <2>1 DEF Adding, Joining, Trying
    <2>3. \A t \in AkTimes : WindowAt(t)'
      BY <1>0, <2>1, <2>2, WindowQuiet
    <2> QED
      BY <1>1, <2>1, <2>2, <2>3 DEF WindowInv
  <1>7. ASSUME NEW r \in AkReqs, AkRateOpen(r) PROVE FALSE
    BY <1>7 DEF AkRateOpen
  <1>8. ASSUME NEW r \in AkReqs, AkRead(r) \/ AkRefuse(r) PROVE WindowInv'
    <2>1. akNow' = akNow /\ zset' = zset /\ admitted' = admitted /\ ak[r].pc # "add"
      BY <1>8 DEF AkRead, AkRefuse
    <2>2. /\ AkReject(r) \/ AkRead(r)
          /\ ak'[r].pc \in {"idle", "verify"}
          /\ \A q \in AkReqs : q # r => ak'[q] = ak[q]
      BY <1>8, AkOthers, AkBegins, AkPc DEF AkRefuse
    <2>3. Adding' = Adding
      BY <2>1, <2>2, AddingKept
    <2>4. \A t \in AkTimes : Joining(t)' \subseteq Joining(t)
      BY <2>2 DEF Joining, Trying
    <2>5. \A t \in AkTimes : WindowAt(t)'
      BY <1>0, <2>1, <2>4, WindowQuiet
    <2> QED
      BY <1>1, <2>1, <2>3, <2>5 DEF WindowInv
  <1> QED
    BY <1>2, <1>3, <1>4, <1>5, <1>6, <1>7, <1>8, WindowAddStep, WindowTickStep DEF AkNext

\* The invariant is inductive.
LEMMA AkInvNext == ASSUME AkInv, [AkNext]_akVars PROVE AkInv'
  <1>1. CASE AkNext
    <2>1. AkTypeOK' /\ MemberInv' /\ DayInv' /\ MonthInv'
      BY <1>1, AkTypeNext, MemberNext, DayNext, MonthNext DEF AkInv
    <2>2. open \subseteq open'
      <3>1. ASSUME NEW r \in AkReqs, AkRead(r) \/ AkValidate(r) \/ AkRefuse(r) PROVE open' = open
        BY <3>1 DEF AkRead, AkValidate, AkRefuse
      <3>2. ASSUME NEW r \in AkReqs, \/ AkTrim(r) \/ AkCount(r) \/ AkAdd(r) \/ AkExpire(r)
                                    \/ AkRateOpen(r) \/ AkDaily(r) \/ AkDailyOpen(r) \/ AkMonth(r)
            PROVE  open \subseteq open'
        BY <3>2 DEF AkTrim, AkCount, AkAdd, AkExpire, AkRateOpen, AkDaily, AkDailyOpen, AkMonth
      <3>3. CASE (\E ok \in BOOLEAN : AkUsageUpdate(ok)) \/ AkTick
        BY <3>3 DEF AkUsageUpdate, AkTick
      <3> QED
        BY <1>1, <3>1, <3>2, <3>3 DEF AkNext
    <2>3. ASSUME "rate" \notin open' PROVE TtlInv' /\ WindowInv'
      BY <1>1, <2>1, <2>2, <2>3, TtlNext, WindowNext DEF AkInv
    <2> QED
      BY <2>1, <2>3 DEF AkInv
  <1>2. CASE UNCHANGED akVars
    <2>1. /\ akNow' = akNow /\ zset' = zset /\ deadline' = deadline /\ daily' = daily
          /\ usage' = usage /\ owed' = owed /\ ak' = ak /\ admitted' = admitted
          /\ uses' = uses /\ open' = open
      BY <1>2 DEF akVars
    <2>2. /\ Adding' = Adding /\ Trying' = Trying /\ Expiring' = Expiring
          /\ AkActive' = AkActive /\ UnderQuota' = UnderQuota
          /\ \A t : Joining(t)' = Joining(t) /\ InWindow(t)' = InWindow(t)
          /\ \A r : Member(r)' = Member(r)
      BY <2>1 DEF Adding, Trying, Expiring, AkActive, UnderQuota, Joining, InWindow, Member
    <2> QED
      BY <2>1, <2>2 DEF AkInv, AkTypeOK, MemberInv, DayInv, MonthInv, TtlInv, WindowInv, WindowAt
  <1> QED
    BY <1>1, <1>2

(* While Redis answers, no window of a minute lets past more than           *)
(* rateLimitPerMinute - 1 and three for every request that may be in flight *)
(* (checkRateLimit), for any limit, window and number of requests: the      *)
(* sorted set never exceeds the limit by more than the requests that counted*)
(* before one added; as many members at most are lost with the key before   *)
(* their EXPIRE; and only requests that read the clock in the window can    *)
(* still join it after it is over.                                          *)
THEOREM ApiKeyWindowHolds == AkSpec => []ApiKeyWindow
  <1>1. ASSUME AkInv PROVE ApiKeyWindow
    <2>1. SUFFICES ASSUME "rate" \notin open, NEW t \in AkTimes
                   PROVE  Cardinality(InWindow(t)) <= PerWindow - 1 + 3 * Cardinality(AkReqs)
      BY DEF ApiKeyWindow
    <2>2. AkTypeOK /\ WindowInv
      BY <1>1, <2>1 DEF AkInv
    <2>3. /\ Cardinality(AkReqs) \in Nat /\ PerWindow \in Nat
          /\ Cardinality(zset) \in Nat /\ IsFiniteSet(zset) /\ Cardinality(Adding) \in Nat
          /\ IsFiniteSet(InWindow(t)) /\ Cardinality(InWindow(t)) \in Nat
          /\ IsFiniteSet(InWindow(t) \ zset) /\ Cardinality(InWindow(t) \ zset) \in Nat
          /\ Cardinality(Joining(t)) \in Nat
      BY <2>2, AkFacts, AkCounts
    <2>4. CASE ~(akNow <= t)
      BY <2>2, <2>3, <2>4 DEF WindowInv, WindowAt
    <2>5. CASE akNow <= t
      <3>1. /\ Cardinality(InWindow(t) \ zset) <= Cardinality(AkReqs)
            /\ Cardinality(zset) + Cardinality(Adding) <= PerWindow - 1 + Cardinality(AkReqs)
        BY <2>2, <2>5 DEF WindowInv, WindowAt
      <3>2. /\ InWindow(t) \subseteq zset \cup (InWindow(t) \ zset)
            /\ IsFiniteSet(zset \cup (InWindow(t) \ zset))
            /\ Cardinality(zset \cup (InWindow(t) \ zset))
                 = Cardinality(zset) + Cardinality(InWindow(t) \ zset)
                   - Cardinality(zset \cap (InWindow(t) \ zset))
        BY <2>3, FS_Union
      <3>3. Cardinality(zset \cap (InWindow(t) \ zset)) \in Nat
        BY <2>3, FS_Intersection, FS_CardinalityType
      <3>4. Cardinality(InWindow(t)) <= Cardinality(zset \cup (InWindow(t) \ zset))
        BY <3>2, SubsetCount
      <3> QED
        BY <2>3, <3>1, <3>2, <3>3, <3>4
    <2> QED
      BY <2>4, <2>5
  <1> QED
    BY <1>1, AkInvInit, AkInvNext, PTL DEF AkSpec

(* A day lets past maxRequestsPerDay at most while the counter answers, and *)
(* the monthly quota is exceeded by no more than the failed updates and one *)
(* less than the most requests that had read requestCount and were not in   *)
(* it yet (checkAndIncrementDailyQuota, checkQuotas), for any limits and    *)
(* number of requests: a request let past read requestCount below the limit *)
(* before its hash was verified and before its own update was sent off.     *)
THEOREM ApiKeyQuotasHolds == AkSpec => []ApiKeyQuotas
  <1>1. ASSUME AkInv PROVE ApiKeyQuotas
    <2>1. AkTypeOK /\ DayInv /\ MonthInv
      BY <1>1 DEF AkInv
    <2>2. /\ admitted.month \in Nat /\ Cardinality(UnderQuota) \in Nat /\ PerMonth \in Nat
          /\ uses.peak \in Nat /\ uses.failed \in Nat
      BY <2>1, AkFacts, AkCounts DEF AkTypeOK
    <2>3. admitted.month <= PerMonth - 1 + uses.peak + uses.failed
      BY <2>1, <2>2 DEF MonthInv
    <2> QED
      BY <2>1, <2>3 DEF ApiKeyQuotas, DayInv
  <1> QED
    BY <1>1, AkInvInit, AkInvNext, PTL DEF AkSpec

(* The limits of an API key hold, each with its overshoot (canActivate),    *)
(* with the read of requestCount, the verification of the hash and the      *)
(* update of requestCount as steps of their own (validateApiKey).           *)
THEOREM ApiKeyLimitsHolds == AkSpec => []ApiKeyLimits
  <1>1. ApiKeyWindow /\ ApiKeyQuotas => ApiKeyLimits
    BY DEF ApiKeyLimits
  <1> QED
    BY <1>1, ApiKeyWindowHolds, ApiKeyQuotasHolds, PTL
=============================================================================
