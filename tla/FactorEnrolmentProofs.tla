----------------------- MODULE FactorEnrolmentProofs -----------------------
(***************************************************************************)
(* Proofs about FactorEnrolment: only a proven authenticator secret is     *)
(* active, a recovery code is accepted once, and a sign-in paused for      *)
(* enrolment is completed at most once and only through the factor that    *)
(* its own token enrolled, for any number of requests, administrators,     *)
(* secrets, codes and tokens.                                              *)
(***************************************************************************)
EXTENDS FactorEnrolment, TLAPS

EnrolType == [live : BOOLEAN, verified : BOOLEAN, expired : BOOLEAN]
CodeState == {"none", "unused", "used", "deleted"}

-----------------------------------------------------------------------------
(* What each request carries, and the rows it depends on. *)

ReqInv(x) ==
    /\ x.pc = "activate" => x.secret \in proven
    /\ x.pc \in {"activate", "count", "gen_delete"} => x.made = 0
    /\ x.pc \in {"count", "gen_delete", "gen_create", "mark"} => x.tok \in enrolled
    /\ x.pc = "gen_create" => x.set \in 1..nSet /\ x.made < SetSize
    /\ x.pc = "signin" => x.tok \in 1..nTok /\ x.tok \in enrolled

(* A row is verified only after a factor was activated through it; ids are  *)
(* handed out in order.                                                     *)
RowInv(k) ==
    /\ enrol[k].verified => k \in enrolled
    /\ k > nTok => ~enrol[k].live /\ ~enrol[k].verified

StoreInv ==
    /\ secret \in 0..nSecret /\ active \in BOOLEAN /\ phone \in BOOLEAN
    /\ nSecret \in 0..NSecrets /\ nSet \in 0..NSets /\ nTok \in 0..NTokens
    /\ codes \in [Codes -> CodeState]
    /\ enrol \in [Tokens -> EnrolType]
    /\ proven \subseteq 1..NSecrets /\ enrolled \subseteq 0..NTokens
    /\ uses \in [Codes -> Nat] /\ signins \in [Tokens -> Nat]
    /\ active => secret \in proven
    /\ \A k \in Tokens : RowInv(k)

Inv ==
    /\ StoreInv
    /\ req \in [All -> ReqType]
    /\ \A r \in All : ReqInv(req[r])

\* Histories and counters only grow.
Grows ==
    /\ proven \subseteq proven' /\ enrolled \subseteq enrolled'
    /\ nSet' >= nSet /\ nTok' >= nTok

\* What a step of request r leaves in its locals.
ReqFacts(r) == \E y \in ReqType : req' = [req EXCEPT ![r] = y] /\ ReqInv(y)'

\* The types the steps below keep asking for, in one place.
LEMMA TypeFacts ==
    ASSUME Inv
    PROVE  /\ secret \in Nat /\ nSecret \in 0..NSecrets /\ nSet \in 0..NSets
           /\ nTok \in 0..NTokens /\ NTokens \in Nat /\ NSets \in Nat /\ NSecrets \in Nat
           /\ SetSize \in Nat /\ SetSize >= 1
           /\ secret \in 0..nSecret
           /\ enrol \in [Tokens -> EnrolType] /\ req \in [All -> ReqType]
           /\ codes \in [Codes -> CodeState]
           /\ uses \in [Codes -> Nat] /\ signins \in [Tokens -> Nat]
           /\ proven \subseteq 1..NSecrets /\ enrolled \subseteq 0..NTokens
           /\ Tokens = 1..NTokens
  BY EnrolmentAssumption DEF Inv, StoreInv, Tokens

\* The invariant contains the type invariant.
LEMMA InvTyped == Inv => TypeOK
  <1>1. Inv => (active => secret # None)
    BY DEF Inv, StoreInv, None
  <1> QED
    BY <1>1 DEF Inv, StoreInv, TypeOK, EnrolType, CodeState

\* What a request carries stays true while it waits.
LEMMA ReqKept ==
    ASSUME Inv, Grows, nSet' \in Nat, nTok' \in Nat, NEW x, ReqInv(x)
    PROVE  ReqInv(x)'
  <1>1. nSet \in Nat /\ nTok \in Nat
    BY TypeFacts
  <1>2. 1..nSet \subseteq 1..nSet' /\ 1..nTok \subseteq 1..nTok'
    BY <1>1 DEF Grows
  <1> QED
    BY <1>2 DEF ReqInv, Grows

\* A step of one request keeps the invariant if it keeps the stores and that request's part.
LEMMA InvReq ==
    ASSUME Inv, NEW r \in All, StoreInv', Grows, ReqFacts(r)
    PROVE  Inv'
  <1>1. PICK y \in ReqType : req' = [req EXCEPT ![r] = y] /\ ReqInv(y)'
    BY DEF ReqFacts
  <1>2. req \in [All -> ReqType] /\ req' \in [All -> ReqType]
    BY <1>1, TypeFacts
  <1>3. nSet' \in Nat /\ nTok' \in Nat
    BY EnrolmentAssumption DEF StoreInv
  <1>4. ASSUME NEW q \in All PROVE ReqInv(req[q])'
    <2>1. CASE q = r
      <3>1. req'[q] = y
        BY <1>1, <1>2, <2>1
      <3> QED
        BY <1>1, <3>1 DEF ReqInv
    <2>2. CASE q # r
      <3>1. req'[q] = req[q] /\ ReqInv(req[q])
        BY <1>1, <1>2, <2>2 DEF Inv
      <3>2. PICK x : x = req[q] /\ ReqInv(x)
        BY <3>1
      <3>3. ReqInv(x)' /\ x = req'[q]
        BY <1>3, <3>1, <3>2, ReqKept
      <3> QED
        BY <3>3 DEF ReqInv
    <2> QED
      BY <2>1, <2>2
  <1> QED
    BY <1>2, <1>4 DEF Inv

\* So does a step that moves no request at all.
LEMMA InvEnv ==
    ASSUME Inv, StoreInv', Grows, UNCHANGED req
    PROVE  Inv'
  <1>1. nSet' \in Nat /\ nTok' \in Nat
    BY EnrolmentAssumption DEF StoreInv
  <1>2. ASSUME NEW q \in All PROVE ReqInv(req[q])'
    <2>1. PICK x : x = req[q] /\ ReqInv(x)
      BY DEF Inv
    <2>2. ReqInv(x)' /\ x = req'[q]
      BY <1>1, <2>1, ReqKept
    <2> QED
      BY <2>2 DEF ReqInv
  <1> QED
    BY <1>2 DEF Inv

-----------------------------------------------------------------------------
(* The locals a request takes up. *)

\* The idle slot has the type of a request.
LEMMA IdleTyped == IdleReq \in ReqType
  BY EnrolmentAssumption DEF IdleReq, ReqType, None

\* A request that ends leaves nothing to be shown of it.
LEMMA FinishFacts ==
    ASSUME NEW r \in All, Finish(r)
    PROVE  ReqFacts(r)
  <1>1. IdleReq \in ReqType
    BY IdleTyped
  <1>2. IdleReq.pc = "idle"
    BY DEF IdleReq
  <1>3. ReqInv(IdleReq)'
    BY <1>2 DEF ReqInv
  <1> QED
    BY <1>1, <1>3 DEF ReqFacts, Finish

\* A label that asks nothing of the locals, or one step further on.
LEMMA GotoFacts ==
    ASSUME Inv, NEW r \in All,
           NEW label \in {"set_delete", "set_create", "count", "gen_delete", "mark",
                          "factors", "wipe"},
           Goto(r, label), Grows,
           label = "count" => req[r].pc = "activate" /\ req[r].tok \in enrolled',
           label = "gen_delete" => req[r].pc = "count",
           label = "mark" => req[r].pc = "count"
    PROVE  ReqFacts(r)
  <1> DEFINE z == [req[r] EXCEPT !.pc = label]
  <1>0. req \in [All -> ReqType] /\ req[r] \in ReqType /\ ReqInv(req[r])
    BY TypeFacts DEF Inv
  <1>1. z \in ReqType
    BY <1>0 DEF ReqType
  <1>2. z.pc = label /\ z.made = req[r].made /\ z.tok = req[r].tok
    BY <1>0 DEF ReqType
  <1>3. req' = [req EXCEPT ![r] = z]
    BY DEF Goto
  <1> HIDE DEF z
  <1>4. PICK y \in ReqType : y = z
    BY <1>1
  <1>5. ReqInv(y)'
    BY <1>0, <1>2, <1>4 DEF ReqInv, Grows
  <1> QED
    BY <1>3, <1>4, <1>5 DEF ReqFacts

\* A step that writes no table.
LEMMA StoreSame ==
    ASSUME Inv, UNCHANGED <<creds, codes, nSet, enrol, nTok, history>>
    PROVE  StoreInv' /\ Grows
  <1>1. StoreInv'
    BY DEF Inv, StoreInv, RowInv, creds, history
  <1> QED
    BY <1>1, TypeFacts DEF Grows, history

\* A step that writes credentials or recovery codes, not the enrolment rows.
LEMMA StoreCreds ==
    ASSUME Inv, UNCHANGED <<nSet, enrol, nTok, signins>>,
           secret' \in 0..nSecret', active' \in BOOLEAN, phone' \in BOOLEAN,
           nSecret' \in 0..NSecrets, codes' \in [Codes -> CodeState],
           uses' \in [Codes -> Nat],
           proven' \subseteq 1..NSecrets, enrolled' \subseteq 0..NTokens,
           proven \subseteq proven', enrolled \subseteq enrolled',
           active' => secret' \in proven'
    PROVE  StoreInv' /\ Grows
  <1>1. \A k \in Tokens : RowInv(k)'
    BY DEF Inv, StoreInv, RowInv
  <1>2. StoreInv'
    BY <1>1 DEF Inv, StoreInv
  <1> QED
    BY <1>2, TypeFacts DEF Grows

\* A step that writes the enrolment rows only.
LEMMA StoreEnrol ==
    ASSUME Inv, UNCHANGED <<creds, codes, nSet, proven, uses, enrolled>>,
           enrol' \in [Tokens -> EnrolType], nTok' \in 0..NTokens, nTok' >= nTok,
           signins' \in [Tokens -> Nat], \A k \in Tokens : RowInv(k)'
    PROVE  StoreInv' /\ Grows
  <1>1. StoreInv'
    BY DEF Inv, StoreInv, creds
  <1> QED
    BY <1>1, TypeFacts DEF Grows

-----------------------------------------------------------------------------
(* The actions. *)

\* A request starts with locals of its own.
LEMMA StartFacts ==
    ASSUME NEW r \in All, NEW y \in ReqType, req' = [req EXCEPT ![r] = y], ReqInv(y)'
    PROVE  ReqFacts(r)
  BY DEF ReqFacts

\* A request arrives, reading the stores or claiming a verified token.
LEMMA ArriveStep ==
    ASSUME Inv, NEW r \in All, Arrive(r)
    PROVE  StoreInv' /\ Grows /\ (ReqFacts(r) \/ UNCHANGED req)
  <1>0. /\ req \in [All -> ReqType] /\ NTokens \in Nat /\ NSecrets \in Nat /\ SetSize \in Nat
        /\ NSets \in Nat /\ {None} \cup Tokens = 0..NTokens
    BY TypeFacts, EnrolmentAssumption DEF Tokens, None
  <1>1. ASSUME NEW k \in {None} \cup Tokens, SetupRead(r, k)
        PROVE  StoreInv' /\ Grows /\ ReqFacts(r)
    <2>1. StoreInv' /\ Grows
      BY <1>1, StoreSame DEF SetupRead
    <2> QED
      BY <1>1, <2>1, GotoFacts DEF SetupRead
  <1>2. ASSUME NEW k \in {None} \cup Tokens, ActivateRead(r, k)
        PROVE  StoreInv' /\ Grows /\ ReqFacts(r)
    <2>1. secret \in 1..NSecrets
      BY <1>2, TypeFacts DEF ActivateRead, None
    <2>2. /\ UNCHANGED <<secret, active, phone, nSecret, codes, nSet, enrol, nTok, uses,
                         enrolled, signins>>
          /\ proven' = proven \cup {secret}
      BY <1>2 DEF ActivateRead, creds
    <2>3. StoreInv' /\ Grows
      BY <2>1, <2>2, StoreCreds DEF Inv, StoreInv
    <2> DEFINE z == [IdleReq EXCEPT !.pc = "activate", !.tok = k, !.secret = secret]
    <2>4. z \in ReqType
      <3>1. k \in 0..NTokens /\ secret \in 0..NSecrets
        BY <1>0, <2>1
      <3> QED
        BY <3>1, IdleTyped DEF ReqType
    <2>5. z.pc = "activate" /\ z.secret = secret /\ z.made = 0
      BY DEF IdleReq
    <2>6. req' = [req EXCEPT ![r] = z]
      BY <1>2 DEF ActivateRead
    <2> HIDE DEF z
    <2>7. PICK y \in ReqType : y = z
      BY <2>4
    <2>8. ReqInv(y)'
      BY <2>2, <2>5, <2>7 DEF ReqInv
    <2> QED
      BY <2>3, <2>6, <2>7, <2>8, StartFacts
  <1>3. ASSUME NEW k \in {None} \cup Tokens, SmsActivate(r, k)
        PROVE  StoreInv' /\ Grows /\ ReqFacts(r)
    <2>1. /\ UNCHANGED <<secret, active, nSecret, codes, nSet, enrol, nTok, proven, uses,
                         signins>>
          /\ phone' = TRUE /\ enrolled' = enrolled \cup {k}
      BY <1>3 DEF SmsActivate
    <2>2. StoreInv' /\ Grows
      BY <1>0, <2>1, StoreCreds DEF Inv, StoreInv
    <2> DEFINE z == [IdleReq EXCEPT !.pc = "count", !.tok = k]
    <2>3. z \in ReqType
      BY <1>0, IdleTyped DEF ReqType
    <2>4. z.pc = "count" /\ z.tok = k /\ z.made = 0
      BY DEF IdleReq
    <2>5. req' = [req EXCEPT ![r] = z]
      BY <1>3 DEF SmsActivate
    <2> HIDE DEF z
    <2>6. PICK y \in ReqType : y = z
      BY <2>3
    <2>7. ReqInv(y)'
      BY <2>1, <2>4, <2>6 DEF ReqInv
    <2> QED
      BY <2>2, <2>5, <2>6, <2>7, StartFacts
  <1>4. ASSUME NEW k \in Tokens, ContinueClaim(r, k)
        PROVE  StoreInv' /\ Grows /\ (ReqFacts(r) \/ UNCHANGED req)
    <2>1. enrol \in [Tokens -> EnrolType] /\ enrol[k] \in EnrolType
      BY TypeFacts
    <2> DEFINE w == [enrol[k] EXCEPT !.live = FALSE]
    <2>2. w \in EnrolType /\ ~w.live /\ w.verified = enrol[k].verified
      BY <2>1 DEF EnrolType
    <2>3. /\ enrol' = [enrol EXCEPT ![k] = w]
          /\ UNCHANGED <<creds, codes, nSet, nTok, proven, uses, enrolled, signins>>
          /\ enrol[k].live
      BY <1>4 DEF ContinueClaim, history
    <2> HIDE DEF w
    <2>4. enrol' \in [Tokens -> EnrolType] /\ enrol'[k] = w
          /\ \A j \in Tokens : j # k => enrol'[j] = enrol[j]
      BY <2>1, <2>2, <2>3
    <2>5. \A j \in Tokens : RowInv(j)'
      BY <2>2, <2>3, <2>4 DEF Inv, StoreInv, RowInv
    <2>6. StoreInv' /\ Grows
      <3>1. nTok' \in 0..NTokens /\ nTok' >= nTok /\ signins' \in [Tokens -> Nat]
        BY <2>3, TypeFacts
      <3> QED
        BY <2>3, <2>4, <2>5, <3>1, StoreEnrol
    <2>7. CASE enrol[k].verified /\ ~enrol[k].expired
      <3> DEFINE z == [IdleReq EXCEPT !.pc = "signin", !.tok = k]
      <3>1. z \in ReqType
        BY <1>0, IdleTyped DEF ReqType
      <3>2. z.pc = "signin" /\ z.tok = k
        BY DEF IdleReq
      <3>3. req' = [req EXCEPT ![r] = z]
        BY <1>4, <2>7 DEF ContinueClaim
      <3> HIDE DEF z
      <3>4. PICK y \in ReqType : y = z
        BY <3>1
      <3>5. RowInv(k) /\ nTok \in Nat /\ k \in Nat /\ k >= 1 /\ nTok' = nTok
        BY <2>3, TypeFacts DEF Inv, StoreInv
      <3>6. k \in 1..nTok /\ k \in enrolled
        BY <2>3, <2>7, <3>5 DEF RowInv
      <3>7. ReqInv(y)'
        BY <2>3, <3>2, <3>4, <3>6 DEF ReqInv
      <3> QED
        BY <2>6, <3>3, <3>4, <3>7, StartFacts
    <2>8. CASE ~(enrol[k].verified /\ ~enrol[k].expired)
      BY <1>4, <2>6, <2>8 DEF ContinueClaim
    <2> QED
      BY <2>7, <2>8
  <1>5. ASSUME NEW f \in Factors, SelfDisableRead(r, f)
        PROVE  StoreInv' /\ Grows /\ ReqFacts(r)
    <2> DEFINE z == [IdleReq EXCEPT !.pc = "drop", !.drop = {f}]
    <2>1. z \in ReqType
      <3>1. {f} \in SUBSET Factors
        OBVIOUS
      <3> QED
        BY <3>1, IdleTyped DEF ReqType
    <2>2. z.pc = "drop"
      BY DEF IdleReq
    <2>3. req' = [req EXCEPT ![r] = z]
      BY <1>5 DEF SelfDisableRead
    <2> HIDE DEF z
    <2>4. PICK y \in ReqType : y = z
      BY <2>1
    <2>5. ReqInv(y)'
      BY <2>2, <2>4 DEF ReqInv
    <2>6. StoreInv' /\ Grows
      BY <1>5, StoreSame DEF SelfDisableRead
    <2> QED
      BY <2>3, <2>4, <2>5, <2>6, StartFacts
  <1> QED
    BY <1>1, <1>2, <1>3, <1>4, <1>5 DEF Arrive

\* An administrator starts to remove a set of factors.
LEMMA AdminStep ==
    ASSUME Inv, NEW r \in All, NEW F \in SUBSET Factors, AdminDisable(r, F)
    PROVE  StoreInv' /\ Grows /\ ReqFacts(r)
  <1> DEFINE z == [IdleReq EXCEPT !.pc = "drop", !.drop = F]
  <1>1. z \in ReqType
    BY IdleTyped DEF ReqType
  <1>2. z.pc = "drop"
    BY DEF IdleReq
  <1>3. req' = [req EXCEPT ![r] = z]
    BY DEF AdminDisable
  <1> HIDE DEF z
  <1>4. PICK y \in ReqType : y = z
    BY <1>1
  <1>5. ReqInv(y)'
    BY <1>2, <1>4 DEF ReqInv
  <1>6. StoreInv' /\ Grows
    BY StoreSame DEF AdminDisable
  <1> QED
    BY <1>3, <1>4, <1>5, <1>6, StartFacts

\* deleteMany on recovery_codes
LEMMA DeleteTyped ==
    ASSUME Inv, DeleteCodes
    PROVE  /\ codes' \in [Codes -> CodeState]
           /\ \A c \in Codes : codes'[c] = IF codes[c] = "none" THEN "none" ELSE "deleted"
  BY DEF DeleteCodes, CodeState

\* The next statement of a request in progress.
LEMMA StepStep ==
    ASSUME Inv, NEW r \in All, Step(r)
    PROVE  StoreInv' /\ Grows /\ ReqFacts(r)
  <1> USE EnrolmentAssumption
  <1>0. req \in [All -> ReqType] /\ req[r] \in ReqType /\ ReqInv(req[r]) /\ StoreInv
    BY TypeFacts DEF Inv
  <1>1. CASE SetupDelete(r)
    <2>1. /\ UNCHANGED <<active, phone, nSecret, codes, nSet, enrol, nTok, proven, uses,
                         enrolled, signins>>
          /\ secret' = IF active THEN secret ELSE None
      BY <1>1 DEF SetupDelete, history
    <2>2. secret' \in 0..nSecret' /\ (active' => secret' \in proven')
      BY <1>0, <2>1 DEF StoreInv, None
    <2>3. StoreInv' /\ Grows
      BY <1>0, <2>1, <2>2, StoreCreds DEF StoreInv
    <2> QED
      BY <1>1, <2>3, GotoFacts DEF SetupDelete
  <1>2. CASE SetupCreate(r)
    <2>1. /\ UNCHANGED <<active, phone, codes, nSet, enrol, nTok, proven, uses, enrolled,
                         signins>>
          /\ nSecret' = nSecret + 1 /\ nSecret < NSecrets
          /\ secret' = IF secret = None THEN nSecret + 1 ELSE secret
      BY <1>2 DEF SetupCreate, history
    <2>2. /\ nSecret' \in 0..NSecrets /\ secret' \in 0..nSecret'
          /\ active' => secret' \in proven'
      BY <1>0, <2>1 DEF StoreInv, None
    <2>3. StoreInv' /\ Grows
      BY <1>0, <2>1, <2>2, StoreCreds DEF StoreInv
    <2> QED
      BY <1>2, <2>3, FinishFacts DEF SetupCreate
  <1>3. CASE ActivateWrite(r)
    <2>1. /\ UNCHANGED <<secret, phone, nSecret, codes, nSet, enrol, nTok, proven, uses,
                         signins>>
          /\ req[r].pc = "activate"
      BY <1>3 DEF ActivateWrite
    <2>2. req[r].secret \in proven /\ req[r].tok \in 0..NTokens
      BY <1>0, <2>1 DEF ReqInv, ReqType
    <2>3. CASE secret = req[r].secret
      <3>1. active' = TRUE /\ enrolled' = enrolled \cup {req[r].tok} /\ Goto(r, "count")
        BY <1>3, <2>3 DEF ActivateWrite
      <3>2. StoreInv' /\ Grows
        BY <1>0, <2>1, <2>2, <2>3, <3>1, StoreCreds DEF StoreInv
      <3> QED
        BY <2>1, <3>1, <3>2, GotoFacts
    <2>4. CASE secret # req[r].secret
      <3>1. UNCHANGED <<active, enrolled>> /\ Finish(r)
        BY <1>3, <2>4 DEF ActivateWrite
      <3>2. StoreInv' /\ Grows
        BY <2>1, <3>1, StoreSame DEF creds, history
      <3> QED
        BY <3>1, <3>2, FinishFacts
    <2> QED
      BY <2>3, <2>4
  <1>4. CASE EnsureCount(r)
    <2>1. StoreInv' /\ Grows
      BY <1>4, StoreSame DEF EnsureCount
    <2>2. req[r].pc = "count" /\ (Goto(r, "mark") \/ Goto(r, "gen_delete"))
      BY <1>4 DEF EnsureCount
    <2> QED
      BY <2>1, <2>2, GotoFacts
  <1>5. CASE GenDelete(r)
    <2>1. /\ UNCHANGED <<creds, enrol, nTok, proven, uses, enrolled, signins>>
          /\ nSet < NSets /\ nSet' = nSet + 1 /\ DeleteCodes /\ req[r].pc = "gen_delete"
      BY <1>5 DEF GenDelete, history
    <2>2. nSet' \in 0..NSets /\ nSet' >= nSet
      BY <1>0, <2>1 DEF StoreInv
    <2>3. codes' \in [Codes -> CodeState]
      BY <2>1, DeleteTyped
    <2>4. \A k \in Tokens : RowInv(k)'
      BY <1>0, <2>1 DEF StoreInv, RowInv
    <2>5. StoreInv' /\ Grows
      <3>1. StoreInv'
        BY <1>0, <2>1, <2>2, <2>3, <2>4 DEF StoreInv, creds
      <3> QED
        BY <2>1, <2>2, <3>1, TypeFacts DEF Grows
    <2> DEFINE z == [req[r] EXCEPT !.pc = "gen_create", !.set = nSet + 1]
    <2>6. nSet + 1 \in 0..NSets /\ nSet + 1 \in 1..nSet'
      BY <1>0, <2>1 DEF StoreInv
    <2>7. z \in ReqType
      BY <1>0, <2>6 DEF ReqType
    <2>8. z.pc = "gen_create" /\ z.set = nSet + 1 /\ z.made = req[r].made /\ z.tok = req[r].tok
      BY <1>0 DEF ReqType
    <2>9. req' = [req EXCEPT ![r] = z]
      BY <1>5 DEF GenDelete
    <2> HIDE DEF z
    <2>10. PICK y \in ReqType : y = z
      BY <2>7
    <2>11. req[r].made = 0 /\ req[r].tok \in enrolled
      BY <1>0, <2>1 DEF ReqInv
    <2>12. ReqInv(y)'
      BY <2>1, <2>6, <2>8, <2>10, <2>11 DEF ReqInv
    <2> QED
      BY <2>5, <2>9, <2>10, <2>12, StartFacts
  <1>6. CASE GenCreate(r)
    <2> DEFINE n == req[r].made + 1
               p == IF n = SetSize THEN "mark" ELSE "gen_create"
               z == [req[r] EXCEPT !.made = n, !.pc = p]
    <2>1. /\ UNCHANGED <<creds, nSet, enrol, nTok, proven, uses, enrolled, signins>>
          /\ codes' = [codes EXCEPT ![<<req[r].set, n>>] = "unused"]
          /\ req[r].pc = "gen_create" /\ req' = [req EXCEPT ![r] = z]
      BY <1>6 DEF GenCreate, history
    <2>2. codes' \in [Codes -> CodeState]
      BY <1>0, <2>1 DEF StoreInv, CodeState
    <2>3. StoreInv' /\ Grows
      <3>1. UNCHANGED <<secret, active, phone, nSecret>>
        BY <2>1 DEF creds
      <3> QED
        BY <1>0, <2>1, <2>2, <3>1, StoreCreds DEF StoreInv
    <2>4. /\ req[r].made \in Nat /\ req[r].made < SetSize /\ req[r].set \in 1..nSet
          /\ req[r].tok \in enrolled
      BY <1>0, <2>1 DEF ReqInv, ReqType
    <2>5. n \in 0..SetSize /\ p \in {"mark", "gen_create"} /\ (p = "gen_create" => n < SetSize)
      BY <2>4
    <2> HIDE DEF n, p
    <2>6. z \in ReqType
      BY <1>0, <2>5 DEF ReqType
    <2>7. z.pc = p /\ z.made = n /\ z.set = req[r].set /\ z.tok = req[r].tok
      BY <1>0 DEF ReqType
    <2> HIDE DEF z
    <2>8. PICK y \in ReqType : y = z
      BY <2>6
    <2>9. ReqInv(y)'
      BY <2>1, <2>4, <2>5, <2>7, <2>8 DEF ReqInv
    <2> QED
      BY <2>1, <2>3, <2>8, <2>9, StartFacts
  <1>7. CASE Mark(r)
    <2> DEFINE k == req[r].tok
    <2>1. /\ UNCHANGED <<creds, codes, nSet, nTok, proven, uses, enrolled, signins>>
          /\ req[r].pc = "mark" /\ Finish(r)
      BY <1>7 DEF Mark, history
    <2>2. k \in 0..NTokens /\ k \in enrolled
      BY <1>0, <2>1 DEF ReqInv, ReqType
    <2>3. nTok' \in 0..NTokens /\ nTok' >= nTok /\ signins' \in [Tokens -> Nat]
      BY <2>1, TypeFacts
    <2>4. CASE k # None /\ enrol[k].live
      <3> DEFINE w == [enrol[k] EXCEPT !.verified = TRUE]
      <3>1. k \in Tokens /\ enrol \in [Tokens -> EnrolType] /\ enrol[k] \in EnrolType
        BY <2>2, <2>4, TypeFacts DEF None
      <3>2. w \in EnrolType /\ w.verified /\ w.live = enrol[k].live
        BY <3>1 DEF EnrolType
      <3>3. enrol' = [enrol EXCEPT ![k] = w]
        BY <1>7, <2>4 DEF Mark
      <3> HIDE DEF w, k
      <3>4. enrol' \in [Tokens -> EnrolType] /\ enrol'[k] = w
            /\ \A j \in Tokens : j # k => enrol'[j] = enrol[j]
        BY <3>1, <3>2, <3>3
      <3>5. RowInv(k)
        BY <1>0, <3>1 DEF StoreInv
      <3>6. \A j \in Tokens : RowInv(j)'
        BY <1>0, <2>1, <2>2, <2>4, <3>2, <3>4, <3>5 DEF StoreInv, RowInv
      <3>7. StoreInv' /\ Grows
        BY <2>1, <2>3, <3>4, <3>6, StoreEnrol
      <3> QED
        BY <2>1, <3>7, FinishFacts
    <2>5. CASE ~(k # None /\ enrol[k].live)
      <3>1. StoreInv' /\ Grows
        BY <1>7, <2>5, StoreSame DEF Mark
      <3> QED
        BY <2>1, <3>1, FinishFacts
    <2> QED
      BY <2>4, <2>5
  <1>8. CASE ContinueSignIn(r)
    <2> DEFINE k == req[r].tok
    <2>1. /\ UNCHANGED <<creds, codes, nSet, enrol, nTok, proven, uses, enrolled>>
          /\ Finish(r) /\ (signins' = signins \/ signins' = [signins EXCEPT ![k] = @ + 1])
      BY <1>8 DEF ContinueSignIn
    <2>2. signins' \in [Tokens -> Nat] /\ nTok' \in 0..NTokens /\ nTok' >= nTok
          /\ enrol' \in [Tokens -> EnrolType]
      BY <2>1, TypeFacts
    <2>3. \A j \in Tokens : RowInv(j)'
      BY <1>0, <2>1 DEF StoreInv, RowInv
    <2>4. StoreInv' /\ Grows
      BY <2>1, <2>2, <2>3, StoreEnrol
    <2> QED
      BY <2>1, <2>4, FinishFacts
  <1>9. CASE Drop(r)
    <2> DEFINE F == req[r].drop
    <2>1. /\ UNCHANGED <<nSecret, codes, nSet, enrol, nTok, proven, uses, enrolled, signins>>
          /\ secret' = IF "totp" \in F THEN None ELSE secret
          /\ active' = (active /\ "totp" \notin F)
          /\ phone' = (phone /\ "sms" \notin F)
          /\ Goto(r, "wipe") \/ Goto(r, "factors")
      BY <1>9 DEF Drop, history
    <2>2. active' \in BOOLEAN /\ phone' \in BOOLEAN
      BY <2>1
    <2> HIDE DEF F
    <2>3. secret' \in 0..nSecret' /\ (active' => secret' \in proven')
      <3>0. nSecret \in Nat /\ 0 \in 0..nSecret /\ secret \in 0..nSecret
        BY TypeFacts
      <3>1. CASE "totp" \in F
        <4>1. secret' = 0 /\ ~active' /\ nSecret' = nSecret
          BY <2>1, <3>1 DEF None
        <4> QED
          BY <3>0, <4>1
      <3>2. CASE "totp" \notin F
        <4>1. secret' = secret /\ nSecret' = nSecret /\ proven' = proven
          BY <2>1, <3>2
        <4>2. active' => active
          BY <2>1
        <4>3. active => secret \in proven
          BY <1>0 DEF StoreInv
        <4> QED
          BY <3>0, <4>1, <4>2, <4>3
      <3> QED
        BY <3>1, <3>2
    <2>4. StoreInv' /\ Grows
      BY <1>0, <2>1, <2>2, <2>3, StoreCreds DEF StoreInv
    <2> QED
      BY <2>1, <2>4, GotoFacts
  <1>10. CASE FactorsLeft(r)
    <2>1. StoreInv' /\ Grows
      BY <1>10, StoreSame DEF FactorsLeft
    <2> QED
      BY <1>10, <2>1, GotoFacts, FinishFacts DEF FactorsLeft
  <1>11. CASE Wipe(r)
    <2>1. /\ UNCHANGED <<secret, active, phone, nSecret, nSet, enrol, nTok, proven, uses,
                         enrolled, signins>>
          /\ DeleteCodes /\ Finish(r)
      BY <1>11 DEF Wipe, creds, history
    <2>2. codes' \in [Codes -> CodeState]
      BY <2>1, DeleteTyped
    <2>3. StoreInv' /\ Grows
      BY <1>0, <2>1, <2>2, StoreCreds DEF StoreInv
    <2> QED
      BY <2>1, <2>3, FinishFacts
  <1>12. CASE Abort(r)
    BY <1>12, StoreSame, FinishFacts DEF Abort
  <1> QED
    BY <1>1, <1>2, <1>3, <1>4, <1>5, <1>6, <1>7, <1>8, <1>9, <1>10, <1>11, <1>12 DEF Step

\* A recovery code still unused is redeemed.
LEMMA UseStep ==
    ASSUME Inv, NEW c \in Codes, UseRecoveryCode(c)
    PROVE  StoreInv' /\ Grows
  <1>1. /\ UNCHANGED <<secret, active, phone, nSecret, nSet, enrol, nTok, proven, enrolled,
                       signins>>
        /\ codes' = [codes EXCEPT ![c] = "used"] /\ uses' = [uses EXCEPT ![c] = @ + 1]
    BY DEF UseRecoveryCode, creds
  <1>2. codes' \in [Codes -> CodeState] /\ uses' \in [Codes -> Nat]
    BY <1>1, TypeFacts DEF CodeState
  <1> QED
    BY <1>1, <1>2, StoreCreds DEF Inv, StoreInv

\* An enrolment token reaches its expiry.
LEMMA ExpireStep ==
    ASSUME Inv, NEW k \in Tokens, Expire(k)
    PROVE  StoreInv' /\ Grows
  <1>1. enrol \in [Tokens -> EnrolType] /\ enrol[k] \in EnrolType
    BY TypeFacts
  <1> DEFINE w == [enrol[k] EXCEPT !.expired = TRUE]
  <1>2. w \in EnrolType /\ w.live = enrol[k].live /\ w.verified = enrol[k].verified
    BY <1>1 DEF EnrolType
  <1>3. /\ enrol' = [enrol EXCEPT ![k] = w]
        /\ UNCHANGED <<creds, codes, nSet, nTok, proven, uses, enrolled, signins>>
    BY DEF Expire, history
  <1> HIDE DEF w
  <1>4. enrol' \in [Tokens -> EnrolType] /\ enrol'[k] = w
        /\ \A j \in Tokens : j # k => enrol'[j] = enrol[j]
    BY <1>1, <1>2, <1>3
  <1>5. \A j \in Tokens : RowInv(j)'
    BY <1>2, <1>3, <1>4 DEF Inv, StoreInv, RowInv
  <1>6. nTok' \in 0..NTokens /\ nTok' >= nTok /\ signins' \in [Tokens -> Nat]
    BY <1>3, TypeFacts
  <1> QED
    BY <1>3, <1>4, <1>5, <1>6, StoreEnrol

\* The cleanup job revives no token.
LEMMA CleanupStep ==
    ASSUME Inv, Cleanup
    PROVE  /\ StoreInv' /\ Grows
           /\ \A k \in Tokens : enrol'[k].live => enrol[k].live
  <1>1. enrol \in [Tokens -> EnrolType]
    BY TypeFacts
  <1>2. UNCHANGED <<creds, codes, nSet, nTok, proven, uses, enrolled, signins>>
    BY DEF Cleanup, history
  <1>3. ASSUME NEW k \in Tokens
        PROVE  /\ enrol'[k] \in EnrolType /\ enrol'[k].verified = enrol[k].verified
               /\ enrol'[k].live => enrol[k].live
    <2>1. enrol'[k] = enrol[k] \/ enrol'[k] = [enrol[k] EXCEPT !.live = FALSE]
      BY DEF Cleanup
    <2>2. enrol[k] \in EnrolType
      BY <1>1
    <2> QED
      BY <2>1, <2>2 DEF EnrolType
  <1>4. enrol' \in [Tokens -> EnrolType]
    <2>1. enrol' = [k \in Tokens |-> enrol'[k]]
      BY DEF Cleanup
    <2> QED
      BY <1>3, <2>1
  <1>5. \A j \in Tokens : RowInv(j)'
    BY <1>2, <1>3 DEF Inv, StoreInv, RowInv
  <1>6. nTok' \in 0..NTokens /\ nTok' >= nTok /\ signins' \in [Tokens -> Nat]
    BY <1>2, TypeFacts
  <1> QED
    BY <1>2, <1>3, <1>4, <1>5, <1>6, StoreEnrol

\* A login that must enrol gets a fresh token.
LEMMA EnrolStep ==
    ASSUME Inv, StartEnrolment
    PROVE  StoreInv' /\ Grows
  <1> DEFINE w == [live |-> TRUE, verified |-> FALSE, expired |-> FALSE]
             k == nTok + 1
  <1>1. enrol \in [Tokens -> EnrolType] /\ k \in Tokens
    BY TypeFacts DEF StartEnrolment
  <1>2. w \in EnrolType /\ ~w.verified
    BY DEF EnrolType
  <1>3. /\ enrol' = [enrol EXCEPT ![k] = w] /\ nTok' = k
        /\ UNCHANGED <<creds, codes, nSet, proven, uses, enrolled, signins>>
    BY DEF StartEnrolment, history
  <1>4. nTok' \in 0..NTokens /\ nTok' >= nTok /\ signins' \in [Tokens -> Nat]
    BY <1>1, <1>3, TypeFacts
  <1>5. \A j \in Tokens : j > k => j > nTok
    BY TypeFacts
  <1>6. nTok' = k /\ k \in Nat /\ ~(k > k)
    BY <1>3, TypeFacts
  <1> HIDE DEF w, k
  <1>7. enrol' \in [Tokens -> EnrolType] /\ enrol'[k] = w
        /\ \A j \in Tokens : j # k => enrol'[j] = enrol[j]
    BY <1>1, <1>2, <1>3
  <1>8. \A j \in Tokens : RowInv(j)'
    BY <1>2, <1>3, <1>5, <1>6, <1>7 DEF Inv, StoreInv, RowInv
  <1> QED
    BY <1>3, <1>4, <1>7, <1>8, StoreEnrol

\* Init has no factor, no code and no token.
LEMMA InvInit == Init => Inv
  <1> SUFFICES ASSUME Init PROVE Inv
    OBVIOUS
  <1>1. \A k \in Tokens : RowInv(k)
    BY DEF Init, RowInv
  <1>2. StoreInv
    <2>1. /\ secret = 0 /\ nSecret = 0 /\ nSet = 0 /\ nTok = 0 /\ active = FALSE
          /\ phone = FALSE /\ proven = {} /\ enrolled = {}
      BY DEF Init, None
    <2>2. codes \in [Codes -> CodeState] /\ uses \in [Codes -> Nat]
          /\ signins \in [Tokens -> Nat]
      BY DEF Init, CodeState
    <2>3. enrol \in [Tokens -> EnrolType]
      BY DEF Init, EnrolType
    <2>4. 0 \in 0..NSecrets /\ 0 \in 0..NSets /\ 0 \in 0..NTokens /\ 0 \in 0..0
      BY EnrolmentAssumption
    <2> QED
      BY <1>1, <2>1, <2>2, <2>3, <2>4 DEF StoreInv
  <1>3. req \in [All -> ReqType] /\ \A r \in All : req[r] = IdleReq
    BY IdleTyped DEF Init
  <1>4. \A r \in All : ReqInv(req[r])
    BY <1>3 DEF ReqInv, IdleReq
  <1> QED
    BY <1>2, <1>3, <1>4 DEF Inv

\* Every step keeps the invariant.
LEMMA InvNext == Inv /\ [Next]_vars => Inv'
  <1> SUFFICES ASSUME Inv, [Next]_vars PROVE Inv'
    OBVIOUS
  <1>1. ASSUME NEW r \in Reqs, Arrive(r) PROVE Inv'
    <2>1. r \in All
      BY DEF All
    <2> QED
      BY <1>1, <2>1, ArriveStep, InvReq, InvEnv
  <1>2. ASSUME NEW r \in AdminReqs, NEW F \in SUBSET Factors, AdminDisable(r, F) PROVE Inv'
    <2>1. r \in All
      BY DEF All
    <2> QED
      BY <1>2, <2>1, AdminStep, InvReq
  <1>3. ASSUME NEW r \in All, Step(r) PROVE Inv'
    BY <1>3, StepStep, InvReq
  <1>4. ASSUME NEW c \in Codes, UseRecoveryCode(c) PROVE Inv'
    BY <1>4, UseStep, InvEnv DEF UseRecoveryCode
  <1>5. ASSUME NEW k \in Tokens, Expire(k) PROVE Inv'
    BY <1>5, ExpireStep, InvEnv DEF Expire
  <1>6. CASE StartEnrolment
    BY <1>6, EnrolStep, InvEnv DEF StartEnrolment
  <1>7. CASE Cleanup
    BY <1>7, CleanupStep, InvEnv DEF Cleanup
  <1>8. CASE UNCHANGED vars
    <2>1. StoreInv' /\ Grows
      BY <1>8, StoreSame DEF vars, creds, history
    <2> QED
      BY <1>8, <2>1, InvEnv DEF vars
  <1> QED
    BY <1>1, <1>2, <1>3, <1>4, <1>5, <1>6, <1>7, <1>8 DEF Next

\* So it holds throughout.
LEMMA InvHolds == Spec => []Inv
  BY InvInit, InvNext, PTL DEF Spec

(* Every reachable state has the schema's shape, and a verified             *)
(* authenticator credential is one that exists.                             *)
THEOREM FactorTypeCorrect == Spec => []TypeOK
  BY InvHolds, InvTyped, PTL

(* verifyAndActivateTotp writes the row it read and checked: the active     *)
(* secret is one a code was checked against, whatever other tabs replace.   *)
THEOREM ActiveSecretProvenHolds == Spec => []ActiveSecretProven
  <1>1. Inv => ActiveSecretProven
    BY DEF Inv, StoreInv, ActiveSecretProven
  <1> QED
    BY <1>1, InvHolds, PTL

-----------------------------------------------------------------------------
(* Where requests go: who enters a set of recovery codes being written, and *)
(* who enters a sign-in being completed.                                    *)

\* No request enters the label, or moves while it is there.
Same(label) == \A q \in All : req'[q].pc = label => req'[q] = req[q]

\* A request that starts elsewhere leaves every request at a label as it was...
LEMMA SameStart ==
    ASSUME Inv, NEW r \in All, NEW label, NEW y, y.pc # label, req' = [req EXCEPT ![r] = y]
    PROVE  Same(label)
  <1>1. req \in [All -> ReqType]
    BY TypeFacts
  <1> QED
    BY <1>1 DEF Same

\* ... as does one that moves to another label...
LEMMA SameGoto ==
    ASSUME Inv, NEW r \in All, NEW label, NEW p, p # label, Goto(r, p)
    PROVE  Same(label)
  <1> DEFINE z == [req[r] EXCEPT !.pc = p]
  <1>1. req \in [All -> ReqType] /\ req[r] \in ReqType
    BY TypeFacts
  <1>2. z.pc = p
    BY <1>1 DEF ReqType
  <1>3. req' = [req EXCEPT ![r] = z]
    BY DEF Goto
  <1> HIDE DEF z
  <1> QED
    BY <1>2, <1>3, SameStart

\* ... one that ends...
LEMMA SameFinish ==
    ASSUME Inv, NEW r \in All, NEW label, label # "idle", Finish(r)
    PROVE  Same(label)
  <1>1. IdleReq.pc # label
    BY DEF IdleReq
  <1> QED
    BY <1>1, SameStart DEF Finish

\* ... and a step that moves none.
LEMMA SameIdle ==
    ASSUME UNCHANGED req, NEW label
    PROVE  Same(label)
  BY DEF Same

\* The token an accepted continue carries.
Claimed(k) == [IdleReq EXCEPT !.pc = "signin", !.tok = k]

\* An arriving request touches no code, and claims at most one verified token.
LEMMA ArriveMoves ==
    ASSUME Inv, NEW r \in All, Arrive(r)
    PROVE  /\ UNCHANGED <<codes, nSet, uses, signins>>
           /\ Same("gen_create")
           /\ \/ Same("signin") /\ \A k \in Tokens : enrol'[k].live => enrol[k].live
              \/ \E k \in Tokens : /\ enrol[k].live /\ enrol[k].verified
                                   /\ enrol' = [enrol EXCEPT ![k].live = FALSE]
                                   /\ req' = [req EXCEPT ![r] = Claimed(k)]
  <1>1. ASSUME NEW k \in {None} \cup Tokens, SetupRead(r, k)
        PROVE  /\ UNCHANGED <<codes, nSet, uses, signins, enrol>>
               /\ Same("gen_create") /\ Same("signin")
    BY <1>1, SameGoto DEF SetupRead, history
  <1>2. ASSUME NEW k \in {None} \cup Tokens, ActivateRead(r, k)
        PROVE  /\ UNCHANGED <<codes, nSet, uses, signins, enrol>>
               /\ Same("gen_create") /\ Same("signin")
    <2> DEFINE z == [IdleReq EXCEPT !.pc = "activate", !.tok = k, !.secret = secret]
    <2>1. z.pc = "activate"
      BY DEF IdleReq
    <2>2. req' = [req EXCEPT ![r] = z]
      BY <1>2 DEF ActivateRead
    <2> HIDE DEF z
    <2>3. Same("gen_create") /\ Same("signin")
      BY <2>1, <2>2, SameStart
    <2> QED
      BY <1>2, <2>3 DEF ActivateRead
  <1>3. ASSUME NEW k \in {None} \cup Tokens, SmsActivate(r, k)
        PROVE  /\ UNCHANGED <<codes, nSet, uses, signins, enrol>>
               /\ Same("gen_create") /\ Same("signin")
    <2> DEFINE z == [IdleReq EXCEPT !.pc = "count", !.tok = k]
    <2>1. z.pc = "count"
      BY DEF IdleReq
    <2>2. req' = [req EXCEPT ![r] = z]
      BY <1>3 DEF SmsActivate
    <2> HIDE DEF z
    <2>3. Same("gen_create") /\ Same("signin")
      BY <2>1, <2>2, SameStart
    <2> QED
      BY <1>3, <2>3 DEF SmsActivate
  <1>4. ASSUME NEW f \in Factors, SelfDisableRead(r, f)
        PROVE  /\ UNCHANGED <<codes, nSet, uses, signins, enrol>>
               /\ Same("gen_create") /\ Same("signin")
    <2> DEFINE z == [IdleReq EXCEPT !.pc = "drop", !.drop = {f}]
    <2>1. z.pc = "drop"
      BY DEF IdleReq
    <2>2. req' = [req EXCEPT ![r] = z]
      BY <1>4 DEF SelfDisableRead
    <2> HIDE DEF z
    <2>3. Same("gen_create") /\ Same("signin")
      BY <2>1, <2>2, SameStart
    <2> QED
      BY <1>4, <2>3 DEF SelfDisableRead, history
  <1>5. ASSUME NEW k \in Tokens, ContinueClaim(r, k)
        PROVE  /\ UNCHANGED <<codes, nSet, uses, signins>>
               /\ enrol[k].live /\ enrol' = [enrol EXCEPT ![k].live = FALSE]
               /\ Same("gen_create")
               /\ \/ UNCHANGED req
                  \/ enrol[k].verified /\ req' = [req EXCEPT ![r] = Claimed(k)]
    <2>1. /\ UNCHANGED <<codes, nSet, uses, signins>>
          /\ enrol[k].live /\ enrol' = [enrol EXCEPT ![k].live = FALSE]
          /\ \/ UNCHANGED req
             \/ enrol[k].verified /\ req' = [req EXCEPT ![r] = Claimed(k)]
      BY <1>5 DEF ContinueClaim, history, Claimed
    <2>2. Claimed(k).pc # "gen_create"
      BY DEF Claimed, IdleReq
    <2> QED
      BY <2>1, <2>2, SameStart, SameIdle
  <1>6. ASSUME NEW k \in Tokens, ContinueClaim(r, k)
        PROVE  \A j \in Tokens : enrol'[j].live => enrol[j].live
    <2>1. enrol \in [Tokens -> EnrolType]
      BY TypeFacts
    <2> QED
      BY <1>5, <1>6, <2>1 DEF EnrolType
  <1>7. CASE \E k \in {None} \cup Tokens : SetupRead(r, k) \/ ActivateRead(r, k) \/ SmsActivate(r, k)
    BY <1>1, <1>2, <1>3, <1>7
  <1>8. CASE \E f \in Factors : SelfDisableRead(r, f)
    BY <1>4, <1>8
  <1>9. CASE \E k \in Tokens : ContinueClaim(r, k)
    BY <1>5, <1>6, <1>9, SameIdle
  <1> QED
    BY <1>7, <1>8, <1>9 DEF Arrive

\* An administrator's request touches neither codes nor tokens as it starts.
LEMMA AdminMoves ==
    ASSUME Inv, NEW r \in All, NEW F, AdminDisable(r, F)
    PROVE  /\ UNCHANGED <<codes, nSet, uses, signins, enrol>>
           /\ Same("gen_create") /\ Same("signin")
  <1> DEFINE z == [IdleReq EXCEPT !.pc = "drop", !.drop = F]
  <1>1. z.pc = "drop"
    BY DEF IdleReq
  <1>2. req' = [req EXCEPT ![r] = z]
    BY DEF AdminDisable
  <1> HIDE DEF z
  <1>3. Same("gen_create") /\ Same("signin")
    BY <1>1, <1>2, SameStart
  <1> QED
    BY <1>3 DEF AdminDisable, history

\* Only ContinueSignIn touches the sign-ins; Mark is all that writes an enrolment row.
LEMMA StepMoves ==
    ASSUME Inv, NEW r \in All, Step(r)
    PROVE  /\ UNCHANGED uses /\ Same("signin")
           /\ \A k \in Tokens : enrol'[k].live => enrol[k].live
           /\ signins' = signins \/ ContinueSignIn(r)
           /\ \/ UNCHANGED <<codes, nSet>> /\ Same("gen_create")
              \/ UNCHANGED nSet /\ DeleteCodes /\ Same("gen_create")
              \/ GenDelete(r) \/ GenCreate(r)
  <1>0. req \in [All -> ReqType] /\ req[r] \in ReqType
    BY TypeFacts
  <1>1. CASE SetupDelete(r)
    BY <1>1, SameGoto DEF SetupDelete, history
  <1>2. CASE SetupCreate(r)
    BY <1>2, SameFinish DEF SetupCreate, history
  <1>3. CASE ActivateWrite(r)
    BY <1>3, SameFinish, SameGoto DEF ActivateWrite
  <1>4. CASE EnsureCount(r)
    <2>1. Goto(r, "mark") \/ Goto(r, "gen_delete")
      BY <1>4 DEF EnsureCount
    <2> QED
      BY <1>4, <2>1, SameGoto DEF EnsureCount, history
  <1>5. CASE GenDelete(r)
    <2> DEFINE z == [req[r] EXCEPT !.pc = "gen_create", !.set = nSet + 1]
    <2>1. z.pc = "gen_create"
      BY <1>0 DEF ReqType
    <2>2. req' = [req EXCEPT ![r] = z]
      BY <1>5 DEF GenDelete
    <2> HIDE DEF z
    <2>3. Same("signin")
      BY <2>1, <2>2, SameStart
    <2> QED
      BY <1>5, <2>3 DEF GenDelete, history
  <1>6. CASE GenCreate(r)
    <2> DEFINE n == req[r].made + 1
               p == IF n = SetSize THEN "mark" ELSE "gen_create"
               z == [req[r] EXCEPT !.made = n, !.pc = p]
    <2>0. p # "signin"
      OBVIOUS
    <2>2. req' = [req EXCEPT ![r] = z]
      BY <1>6 DEF GenCreate
    <2> HIDE DEF n, p
    <2>1. z.pc = p
      BY <1>0 DEF ReqType
    <2> HIDE DEF z
    <2>3. Same("signin")
      BY <2>0, <2>1, <2>2, SameStart
    <2> QED
      BY <1>6, <2>3 DEF GenCreate, history
  <1>7. CASE Mark(r)
    <2> DEFINE k == req[r].tok
    <2>1. enrol \in [Tokens -> EnrolType]
      BY TypeFacts
    <2>2. enrol' = enrol \/ enrol' = [enrol EXCEPT ![k].verified = TRUE]
      BY <1>7 DEF Mark
    <2>3. \A j \in Tokens : enrol'[j].live => enrol[j].live
      BY <2>1, <2>2 DEF EnrolType
    <2> QED
      BY <1>7, <2>3, SameFinish DEF Mark, history
  <1>8. CASE ContinueSignIn(r)
    BY <1>8, SameFinish DEF ContinueSignIn
  <1>9. CASE Drop(r)
    <2>1. Goto(r, "wipe") \/ Goto(r, "factors")
      BY <1>9 DEF Drop
    <2> QED
      BY <1>9, <2>1, SameGoto DEF Drop, history
  <1>10. CASE FactorsLeft(r)
    BY <1>10, SameGoto, SameFinish DEF FactorsLeft, history
  <1>11. CASE Wipe(r)
    BY <1>11, SameFinish DEF Wipe, history
  <1>12. CASE Abort(r)
    BY <1>12, SameFinish DEF Abort, history
  <1> QED
    BY <1>1, <1>2, <1>3, <1>4, <1>5, <1>6, <1>7, <1>8, <1>9, <1>10, <1>11, <1>12 DEF Step

-----------------------------------------------------------------------------
(* Recovery codes: a code that was never handed out, or is unused, has no   *)
(* use behind it; a set being written belongs to one request, which only    *)
(* writes positions nobody has written before.                              *)

CodeRow(c) ==
    /\ uses[c] <= 1
    /\ codes[c] \in {"none", "unused"} => uses[c] = 0
    /\ c[1] > nSet => codes[c] = "none"

SetInv(x) ==
    x.pc = "gen_create" => \A n \in 1..SetSize : n > x.made => codes[<<x.set, n>>] = "none"

OwnSet(x, y) ==
    x.pc = "gen_create" /\ y.pc = "gen_create" => x.set # y.set

CodeInv ==
    /\ \A c \in Codes : CodeRow(c)
    /\ \A r \in All : SetInv(req[r])
    /\ \A r, q \in All : r # q => OwnSet(req[r], req[q])

\* Requests writing a set stay as they are: what is said of them stays true.
LEMMA SetsSame ==
    ASSUME Inv, CodeInv, Same("gen_create"),
           \A c \in Codes : codes[c] = "none" => codes'[c] = "none"
    PROVE  /\ \A r \in All : SetInv(req[r])'
           /\ \A r, q \in All : r # q => OwnSet(req[r], req[q])'
  <1>1. ASSUME NEW r \in All PROVE SetInv(req[r])'
    <2> SUFFICES ASSUME req'[r].pc = "gen_create", NEW n \in 1..SetSize, n > req'[r].made
                 PROVE  codes'[<<req'[r].set, n>>] = "none"
      BY DEF SetInv
    <2>1. req'[r] = req[r]
      BY DEF Same
    <2>2. ReqInv(req[r]) /\ SetInv(req[r]) /\ nSet \in 0..NSets /\ NSets \in Nat
      BY TypeFacts DEF Inv, CodeInv
    <2>3. req[r].set \in 1..NSets
      BY <2>1, <2>2 DEF ReqInv
    <2>4. <<req[r].set, n>> \in Codes
      BY <2>3 DEF Codes, SetIds
    <2> QED
      BY <2>1, <2>2, <2>4 DEF SetInv
  <1>2. ASSUME NEW r \in All, NEW q \in All, r # q PROVE OwnSet(req[r], req[q])'
    BY <1>2 DEF CodeInv, OwnSet, Same
  <1> QED
    BY <1>1, <1>2

\* No recovery code is written.
LEMMA CodesQuiet ==
    ASSUME Inv, CodeInv, UNCHANGED <<codes, nSet, uses>>, Same("gen_create")
    PROVE  CodeInv'
  <1>1. \A c \in Codes : CodeRow(c)'
    BY DEF CodeInv, CodeRow
  <1> QED
    BY <1>1, SetsSame DEF CodeInv

\* Deleting every code leaves none to be used twice.
LEMMA CodesWiped ==
    ASSUME Inv, CodeInv, UNCHANGED <<nSet, uses>>, DeleteCodes, Same("gen_create")
    PROVE  CodeInv'
  <1>1. \A c \in Codes : CodeRow(c)'
    <2> SUFFICES ASSUME NEW c \in Codes PROVE CodeRow(c)'
      OBVIOUS
    <2>1. CodeRow(c) /\ codes'[c] = IF codes[c] = "none" THEN "none" ELSE "deleted"
      BY DeleteTyped DEF CodeInv
    <2> QED
      BY <2>1 DEF CodeRow
  <1>2. \A c \in Codes : codes[c] = "none" => codes'[c] = "none"
    BY DeleteTyped
  <1> QED
    BY <1>1, <1>2, SetsSame DEF CodeInv

\* generateRecoveryCodes takes a number no set has had.
LEMMA CodesNewSet ==
    ASSUME Inv, CodeInv, NEW r \in All, GenDelete(r)
    PROVE  CodeInv'
  <1> DEFINE z == [req[r] EXCEPT !.pc = "gen_create", !.set = nSet + 1]
  <1>0. /\ req \in [All -> ReqType] /\ req[r] \in ReqType /\ nSet \in 0..NSets
        /\ NSets \in Nat
    BY TypeFacts
  <1>1. /\ req' = [req EXCEPT ![r] = z] /\ nSet' = nSet + 1 /\ nSet < NSets
        /\ DeleteCodes /\ uses' = uses
    BY DEF GenDelete, history
  <1>2. z.pc = "gen_create" /\ z.set = nSet + 1
    BY <1>0 DEF ReqType
  <1> HIDE DEF z
  <1>3. req'[r] = z /\ \A q \in All : q # r => req'[q] = req[q]
    BY <1>0, <1>1
  <1>4. \A c \in Codes : c[1] \in 1..NSets
    BY DEF Codes, SetIds
  <1>5. \A c \in Codes : CodeRow(c)'
    <2> SUFFICES ASSUME NEW c \in Codes PROVE CodeRow(c)'
      OBVIOUS
    <2>1. CodeRow(c) /\ codes'[c] = IF codes[c] = "none" THEN "none" ELSE "deleted"
      BY <1>1, DeleteTyped DEF CodeInv
    <2>2. c[1] > nSet' => c[1] > nSet
      BY <1>0, <1>1, <1>4
    <2> QED
      BY <1>1, <2>1, <2>2 DEF CodeRow
  <1>6. ASSUME NEW q \in All PROVE SetInv(req[q])'
    <2> SUFFICES ASSUME req'[q].pc = "gen_create", NEW n \in 1..SetSize, n > req'[q].made
                 PROVE  codes'[<<req'[q].set, n>>] = "none"
      BY DEF SetInv
    <2>1. CASE q = r
      <3>1. <<nSet + 1, n>> \in Codes
        BY <1>0, <1>1 DEF Codes, SetIds
      <3>2. CodeRow(<<nSet + 1, n>>)
        BY <3>1 DEF CodeInv
      <3>3. codes[<<nSet + 1, n>>] = "none"
        BY <1>0, <3>2 DEF CodeRow
      <3> QED
        BY <1>1, <1>2, <1>3, <2>1, <3>1, <3>3, DeleteTyped
    <2>2. CASE q # r
      <3>1. req'[q] = req[q] /\ ReqInv(req[q]) /\ SetInv(req[q])
        BY <1>3, <2>2 DEF Inv, CodeInv
      <3>2. req[q].set \in 1..NSets
        BY <1>0, <3>1 DEF ReqInv
      <3>3. <<req[q].set, n>> \in Codes
        BY <3>2 DEF Codes, SetIds
      <3> QED
        BY <1>1, <3>1, <3>3, DeleteTyped DEF SetInv
    <2> QED
      BY <2>1, <2>2
  <1>7. ASSUME NEW q \in All, q # r, req[q].pc = "gen_create"
        PROVE  req[q].set # nSet + 1
    <2>1. ReqInv(req[q])
      BY DEF Inv
    <2>2. req[q].set \in 1..nSet
      BY <1>7, <2>1 DEF ReqInv
    <2> QED
      BY <1>0, <2>2
  <1>8. ASSUME NEW p \in All, NEW q \in All, p # q PROVE OwnSet(req[p], req[q])'
    BY <1>2, <1>3, <1>7, <1>8 DEF CodeInv, OwnSet
  <1> QED
    BY <1>5, <1>6, <1>8 DEF CodeInv

\* One INSERT: the position was free, and stays the writer's own.
LEMMA CodesInsert ==
    ASSUME Inv, CodeInv, NEW r \in All, GenCreate(r)
    PROVE  CodeInv'
  <1> DEFINE n == req[r].made + 1
             p == IF n = SetSize THEN "mark" ELSE "gen_create"
             z == [req[r] EXCEPT !.made = n, !.pc = p]
             d == <<req[r].set, n>>
  <1>0. /\ req \in [All -> ReqType] /\ req[r] \in ReqType /\ nSet \in 0..NSets
        /\ NSets \in Nat /\ SetSize \in Nat /\ codes \in [Codes -> CodeState]
    BY TypeFacts
  <1>1. /\ req' = [req EXCEPT ![r] = z] /\ codes' = [codes EXCEPT ![d] = "unused"]
        /\ UNCHANGED <<nSet, uses>> /\ req[r].pc = "gen_create"
    BY DEF GenCreate, history
  <1>2. req[r].made \in Nat /\ req[r].made < SetSize /\ req[r].set \in 1..nSet
    BY <1>0, <1>1 DEF Inv, ReqInv, ReqType
  <1>3. n \in 1..SetSize /\ n > req[r].made
    BY <1>0, <1>2
  <1>4. d \in Codes /\ d[1] = req[r].set
    BY <1>0, <1>2, <1>3 DEF Codes, SetIds
  <1>5. codes[d] = "none"
    BY <1>1, <1>3 DEF CodeInv, SetInv
  <1>6. \A m \in 1..SetSize : m > n => m > req[r].made /\ <<req[r].set, m>> # d
    BY <1>0, <1>2
  <1>7. ~(d[1] > nSet)
    BY <1>0, <1>2, <1>4
  <1>8. \A q \in All, m \in 1..SetSize : req[q].set # req[r].set => <<req[q].set, m>> # d
    OBVIOUS
  <1> HIDE DEF n, p, d
  <1>9. z.made = n /\ z.set = req[r].set
    BY <1>0 DEF ReqType
  <1> HIDE DEF z
  <1>10. req'[r] = z /\ \A q \in All : q # r => req'[q] = req[q]
    BY <1>0, <1>1
  <1>11. codes'[d] = "unused" /\ \A c \in Codes : c # d => codes'[c] = codes[c]
    BY <1>0, <1>1, <1>4
  <1>12. \A c \in Codes : CodeRow(c)'
    <2> SUFFICES ASSUME NEW c \in Codes PROVE CodeRow(c)'
      OBVIOUS
    <2>1. CodeRow(c)
      BY DEF CodeInv
    <2> QED
      BY <1>1, <1>5, <1>7, <1>11, <2>1 DEF CodeRow
  <1>13. ASSUME NEW q \in All PROVE SetInv(req[q])'
    <2> SUFFICES ASSUME req'[q].pc = "gen_create", NEW m \in 1..SetSize, m > req'[q].made
                 PROVE  codes'[<<req'[q].set, m>>] = "none"
      BY DEF SetInv
    <2>1. CASE q = r
      <3>1. m > req[r].made /\ <<req[r].set, m>> # d /\ SetInv(req[r])
        BY <1>6, <1>9, <1>10, <2>1 DEF CodeInv
      <3>2. codes[<<req[r].set, m>>] = "none"
        BY <1>1, <3>1 DEF SetInv
      <3>3. <<req[r].set, m>> \in Codes
        BY <1>0, <1>2 DEF Codes, SetIds
      <3> QED
        BY <1>9, <1>10, <1>11, <2>1, <3>1, <3>2, <3>3
    <2>2. CASE q # r
      <3>1. req'[q] = req[q] /\ ReqInv(req[q]) /\ SetInv(req[q]) /\ OwnSet(req[q], req[r])
        BY <1>10, <2>2 DEF Inv, CodeInv
      <3>2. req[q].set \in 1..NSets /\ req[q].set # req[r].set
        BY <1>0, <1>1, <3>1 DEF ReqInv, OwnSet
      <3>3. <<req[q].set, m>> \in Codes /\ <<req[q].set, m>> # d
        BY <1>8, <3>2 DEF Codes, SetIds
      <3> QED
        BY <1>11, <3>1, <3>3 DEF SetInv
    <2> QED
      BY <2>1, <2>2
  <1>14. ASSUME NEW a \in All, NEW q \in All, a # q PROVE OwnSet(req[a], req[q])'
    BY <1>1, <1>9, <1>10, <1>14 DEF CodeInv, OwnSet
  <1> QED
    BY <1>12, <1>13, <1>14 DEF CodeInv

\* verifyRecoveryCode: the conditional update finds the code unused.
LEMMA CodesUsed ==
    ASSUME Inv, CodeInv, NEW c \in Codes, UseRecoveryCode(c)
    PROVE  CodeInv'
  <1>0. codes \in [Codes -> CodeState] /\ uses \in [Codes -> Nat]
    BY TypeFacts
  <1>1. /\ codes[c] = "unused" /\ codes' = [codes EXCEPT ![c] = "used"]
        /\ uses' = [uses EXCEPT ![c] = @ + 1] /\ UNCHANGED <<nSet, req>>
    BY DEF UseRecoveryCode
  <1>2. CodeRow(c) /\ uses[c] = 0 /\ ~(c[1] > nSet)
    BY <1>1 DEF CodeInv, CodeRow
  <1>3. \A d \in Codes : CodeRow(d)'
    <2> SUFFICES ASSUME NEW d \in Codes PROVE CodeRow(d)'
      OBVIOUS
    <2>1. CodeRow(d)
      BY DEF CodeInv
    <2>2. CASE d = c
      <3>1. uses'[d] = 1 /\ codes'[d] = "used"
        BY <1>0, <1>1, <1>2, <2>2
      <3> QED
        BY <1>1, <1>2, <2>2, <3>1 DEF CodeRow
    <2>3. CASE d # c
      <3>1. uses'[d] = uses[d] /\ codes'[d] = codes[d]
        BY <1>0, <1>1, <2>3
      <3> QED
        BY <1>1, <2>1, <3>1 DEF CodeRow
    <2> QED
      BY <2>2, <2>3
  <1>4. \A d \in Codes : codes[d] = "none" => codes'[d] = "none"
    BY <1>0, <1>1
  <1>5. Same("gen_create")
    BY <1>1, SameIdle
  <1> QED
    BY <1>3, <1>4, <1>5, SetsSame DEF CodeInv

\* No recovery code exists at the start.
LEMMA CodeInit == Init => CodeInv
  <1> SUFFICES ASSUME Init PROVE CodeInv
    OBVIOUS
  <1>1. \A r \in All : req[r].pc = "idle"
    BY DEF Init, IdleReq
  <1>2. \A c \in Codes : CodeRow(c)
    BY DEF Init, CodeRow
  <1> QED
    BY <1>1, <1>2 DEF CodeInv, SetInv, OwnSet

\* Every step keeps the account of each code: who owns its set, and its uses.
LEMMA CodeNext == Inv /\ CodeInv /\ [Next]_vars => CodeInv'
  <1> SUFFICES ASSUME Inv, CodeInv, [Next]_vars PROVE CodeInv'
    OBVIOUS
  <1>0. Reqs \subseteq All /\ AdminReqs \subseteq All
    BY DEF All
  <1>1. ASSUME NEW r \in Reqs, Arrive(r) PROVE CodeInv'
    BY <1>0, <1>1, ArriveMoves, CodesQuiet
  <1>2. ASSUME NEW r \in AdminReqs, NEW F, AdminDisable(r, F) PROVE CodeInv'
    BY <1>0, <1>2, AdminMoves, CodesQuiet
  <1>3. ASSUME NEW r \in All, Step(r) PROVE CodeInv'
    <2>1. UNCHANGED uses
      BY <1>3, StepMoves
    <2>2. \/ UNCHANGED <<codes, nSet>> /\ Same("gen_create")
          \/ UNCHANGED nSet /\ DeleteCodes /\ Same("gen_create")
          \/ GenDelete(r) \/ GenCreate(r)
      BY <1>3, StepMoves
    <2> QED
      BY <2>1, <2>2, CodesQuiet, CodesWiped, CodesNewSet, CodesInsert
  <1>4. ASSUME NEW c \in Codes, UseRecoveryCode(c) PROVE CodeInv'
    BY <1>4, CodesUsed
  <1>5. ASSUME NEW k \in Tokens, Expire(k) PROVE CodeInv'
    BY <1>5, SameIdle, CodesQuiet DEF Expire, history
  <1>6. CASE StartEnrolment
    BY <1>6, SameIdle, CodesQuiet DEF StartEnrolment, history
  <1>7. CASE Cleanup
    BY <1>7, SameIdle, CodesQuiet DEF Cleanup, history
  <1>8. CASE UNCHANGED vars
    BY <1>8, SameIdle, CodesQuiet DEF vars
  <1> QED
    BY <1>1, <1>2, <1>3, <1>4, <1>5, <1>6, <1>7, <1>8 DEF Next

(* A recovery code is accepted at most once, whatever sets are generated,   *)
(* half written by two activations at once, or deleted meanwhile            *)
(* (verifyRecoveryCode, generateRecoveryCodes).                             *)
THEOREM RecoverySingleUseHolds == Spec => []RecoverySingleUse
  <1>1. Init /\ [][Next]_vars => [](Inv /\ CodeInv)
    <2>1. Init => Inv /\ CodeInv
      BY InvInit, CodeInit
    <2>2. Inv /\ CodeInv /\ [Next]_vars => (Inv /\ CodeInv)'
      BY InvNext, CodeNext
    <2> QED
      BY <2>1, <2>2, PTL
  <1>2. CodeInv => RecoverySingleUse
    BY DEF CodeInv, CodeRow, RecoverySingleUse
  <1> QED
    BY <1>1, <1>2, PTL DEF Spec

-----------------------------------------------------------------------------
(* Paused sign-ins: deleting the enrolment row is the claim, so a token has *)
(* one claimant, and it has signed nobody in before.                        *)

TokenRow(k) ==
    /\ signins[k] <= 1
    /\ enrol[k].live \/ k > nTok => signins[k] = 0
    /\ signins[k] > 0 => k \in enrolled

ClaimInv(x) == x.pc = "signin" => ~enrol[x.tok].live /\ signins[x.tok] = 0

OwnToken(x, y) == x.pc = "signin" /\ y.pc = "signin" => x.tok # y.tok

SignInInv ==
    /\ \A k \in Tokens : TokenRow(k)
    /\ \A r \in All : ClaimInv(req[r])
    /\ \A r, q \in All : r # q => OwnToken(req[r], req[q])

\* Nobody claims and nobody signs in; new rows get numbers no row has had.
LEMMA SignInQuiet ==
    ASSUME Inv, SignInInv, Grows, nTok' \in Nat, UNCHANGED signins, Same("signin"),
           \A k \in Tokens : enrol'[k].live => enrol[k].live \/ k > nTok
    PROVE  SignInInv'
  <1>0. Tokens = 1..NTokens /\ NTokens \in Nat /\ nTok \in 0..NTokens
    BY TypeFacts
  <1>1. \A k \in Tokens : TokenRow(k)'
    <2> SUFFICES ASSUME NEW k \in Tokens PROVE TokenRow(k)'
      OBVIOUS
    <2>1. TokenRow(k)
      BY DEF SignInInv
    <2>2. k > nTok' => k > nTok
      BY <1>0 DEF Grows
    <2> QED
      BY <2>1, <2>2 DEF TokenRow, Grows
  <1>2. ASSUME NEW r \in All PROVE ClaimInv(req[r])'
    <2> SUFFICES ASSUME req'[r].pc = "signin"
                 PROVE  ~enrol'[req'[r].tok].live /\ signins'[req'[r].tok] = 0
      BY DEF ClaimInv
    <2>1. req'[r] = req[r] /\ ClaimInv(req[r]) /\ ReqInv(req[r])
      BY DEF Same, SignInInv, Inv
    <2>2. req[r].tok \in 1..nTok
      BY <2>1 DEF ReqInv
    <2>3. req[r].tok \in Tokens /\ ~(req[r].tok > nTok)
      BY <1>0, <2>2
    <2> QED
      BY <2>1, <2>3 DEF ClaimInv
  <1>3. ASSUME NEW r \in All, NEW q \in All, r # q PROVE OwnToken(req[r], req[q])'
    BY <1>3 DEF SignInInv, OwnToken, Same
  <1> QED
    BY <1>1, <1>2, <1>3 DEF SignInInv

\* consumeVerifiedMfaEnrollment
LEMMA SignInClaim ==
    ASSUME Inv, SignInInv, Grows, NEW r \in All, NEW k \in Tokens, UNCHANGED signins,
           nTok' \in Nat,
           enrol[k].live, enrol' = [enrol EXCEPT ![k].live = FALSE],
           req' = [req EXCEPT ![r] = Claimed(k)]
    PROVE  SignInInv'
  <1>0. /\ Tokens = 1..NTokens /\ NTokens \in Nat /\ nTok \in 0..NTokens
        /\ req \in [All -> ReqType] /\ enrol \in [Tokens -> EnrolType]
    BY TypeFacts
  <1>1. Claimed(k).pc = "signin" /\ Claimed(k).tok = k
    BY DEF Claimed, IdleReq
  <1>2. req'[r] = Claimed(k) /\ \A q \in All : q # r => req'[q] = req[q]
    BY <1>0
  <1>3. ~enrol'[k].live /\ \A j \in Tokens : enrol'[j].live => enrol[j].live
    BY <1>0 DEF EnrolType
  <1>4. \A j \in Tokens : TokenRow(j)'
    <2> SUFFICES ASSUME NEW j \in Tokens PROVE TokenRow(j)'
      OBVIOUS
    <2>1. TokenRow(j)
      BY DEF SignInInv
    <2>2. j > nTok' => j > nTok
      BY <1>0 DEF Grows
    <2> QED
      BY <1>3, <2>1, <2>2 DEF TokenRow, Grows
  <1>5. TokenRow(k) /\ signins[k] = 0
    BY DEF SignInInv, TokenRow
  <1>6. ASSUME NEW q \in All, q # r, req[q].pc = "signin"
        PROVE  req[q].tok \in Tokens /\ req[q].tok # k /\ ClaimInv(req[q])
    <2>1. ReqInv(req[q]) /\ ClaimInv(req[q])
      BY DEF Inv, SignInInv
    <2>2. req[q].tok \in 1..nTok /\ ~enrol[req[q].tok].live
      BY <1>6, <2>1 DEF ReqInv, ClaimInv
    <2> QED
      BY <1>0, <2>1, <2>2
  <1>7. ASSUME NEW q \in All PROVE ClaimInv(req[q])'
    BY <1>1, <1>2, <1>3, <1>5, <1>6 DEF ClaimInv
  <1>8. ASSUME NEW p \in All, NEW q \in All, p # q PROVE OwnToken(req[p], req[q])'
    BY <1>1, <1>2, <1>6, <1>8 DEF SignInInv, OwnToken
  <1> QED
    BY <1>4, <1>7, <1>8 DEF SignInInv

\* completeLogin for the claimant.
LEMMA SignInDone ==
    ASSUME Inv, SignInInv, NEW r \in All, ContinueSignIn(r)
    PROVE  SignInInv'
  <1> DEFINE k == req[r].tok
  <1>0. /\ Tokens = 1..NTokens /\ NTokens \in Nat /\ nTok \in 0..NTokens
        /\ req \in [All -> ReqType] /\ signins \in [Tokens -> Nat]
    BY TypeFacts
  <1>1. /\ req[r].pc = "signin" /\ UNCHANGED <<enrol, nTok, enrolled>>
        /\ req' = [req EXCEPT ![r] = IdleReq]
        /\ signins' = signins \/ signins' = [signins EXCEPT ![k] = @ + 1]
    BY DEF ContinueSignIn, Finish
  <1>2. ReqInv(req[r]) /\ ClaimInv(req[r])
    BY DEF Inv, SignInInv
  <1>3. k \in 1..nTok /\ k \in enrolled /\ ~enrol[k].live /\ signins[k] = 0
    BY <1>1, <1>2 DEF ReqInv, ClaimInv
  <1>4. k \in Tokens /\ ~(k > nTok)
    BY <1>0, <1>3
  <1>5. ASSUME NEW q \in All, q # r, req[q].pc = "signin" PROVE req[q].tok # k
    BY <1>1, <1>5 DEF SignInInv, OwnToken
  <1> HIDE DEF k
  <1>6. signins'[k] \in {0, 1} /\ \A j \in Tokens : j # k => signins'[j] = signins[j]
    BY <1>0, <1>1, <1>3, <1>4
  <1>7. IdleReq.pc # "signin" /\ req'[r] = IdleReq
        /\ \A q \in All : q # r => req'[q] = req[q]
    BY <1>0, <1>1 DEF IdleReq
  <1>8. \A j \in Tokens : TokenRow(j)'
    <2> SUFFICES ASSUME NEW j \in Tokens PROVE TokenRow(j)'
      OBVIOUS
    <2>1. TokenRow(j)
      BY DEF SignInInv
    <2> QED
      BY <1>1, <1>3, <1>4, <1>6, <2>1 DEF TokenRow
  <1>9. ASSUME NEW q \in All PROVE ClaimInv(req[q])'
    <2> SUFFICES ASSUME req'[q].pc = "signin"
                 PROVE  ~enrol'[req'[q].tok].live /\ signins'[req'[q].tok] = 0
      BY DEF ClaimInv
    <2>1. q # r /\ req'[q] = req[q]
      BY <1>7
    <2>2. ReqInv(req[q]) /\ ClaimInv(req[q])
      BY DEF Inv, SignInInv
    <2>3. req[q].tok \in 1..nTok /\ req[q].tok # k
      BY <1>5, <2>1, <2>2 DEF ReqInv
    <2>4. req[q].tok \in Tokens
      BY <1>0, <2>3
    <2> QED
      BY <1>1, <1>6, <2>1, <2>2, <2>3, <2>4 DEF ClaimInv
  <1>10. ASSUME NEW p \in All, NEW q \in All, p # q PROVE OwnToken(req[p], req[q])'
    BY <1>7, <1>10 DEF SignInInv, OwnToken
  <1> QED
    BY <1>8, <1>9, <1>10 DEF SignInInv

\* No token has signed anyone in at the start.
LEMMA SignInInit == Init => SignInInv
  <1> SUFFICES ASSUME Init PROVE SignInInv
    OBVIOUS
  <1>1. \A r \in All : req[r].pc = "idle"
    BY DEF Init, IdleReq
  <1>2. \A k \in Tokens : TokenRow(k)
    BY DEF Init, TokenRow
  <1> QED
    BY <1>1, <1>2 DEF SignInInv, ClaimInv, OwnToken

\* Every step keeps the account of each token: who claimed it, and its sign-ins.
LEMMA SignInNext == Inv /\ SignInInv /\ [Next]_vars => SignInInv'
  <1> SUFFICES ASSUME Inv, SignInInv, [Next]_vars PROVE SignInInv'
    OBVIOUS
  <1>0. Reqs \subseteq All /\ AdminReqs \subseteq All
    BY DEF All
  <1>n. StoreInv' => nTok' \in Nat
    BY EnrolmentAssumption DEF StoreInv
  <1>1. ASSUME NEW r \in Reqs, Arrive(r) PROVE SignInInv'
    <2>1. StoreInv' /\ Grows
      BY <1>0, <1>1, ArriveStep
    <2>2. UNCHANGED signins
      BY <1>0, <1>1, ArriveMoves
    <2>3. \/ Same("signin") /\ \A k \in Tokens : enrol'[k].live => enrol[k].live
          \/ \E k \in Tokens : /\ enrol[k].live /\ enrol[k].verified
                               /\ enrol' = [enrol EXCEPT ![k].live = FALSE]
                               /\ req' = [req EXCEPT ![r] = Claimed(k)]
      BY <1>0, <1>1, ArriveMoves
    <2> QED
      BY <1>0, <1>n, <2>1, <2>2, <2>3, SignInQuiet, SignInClaim
  <1>2. ASSUME NEW r \in AdminReqs, NEW F \in SUBSET Factors, AdminDisable(r, F) PROVE SignInInv'
    <2>1. StoreInv' /\ Grows
      BY <1>0, <1>2, AdminStep
    <2>2. UNCHANGED <<signins, enrol>> /\ Same("signin")
      BY <1>0, <1>2, AdminMoves
    <2> QED
      BY <1>n, <2>1, <2>2, SignInQuiet
  <1>3. ASSUME NEW r \in All, Step(r) PROVE SignInInv'
    <2>1. StoreInv' /\ Grows
      BY <1>3, StepStep
    <2>2. /\ Same("signin") /\ \A k \in Tokens : enrol'[k].live => enrol[k].live
          /\ signins' = signins \/ ContinueSignIn(r)
      BY <1>3, StepMoves
    <2> QED
      BY <1>n, <2>1, <2>2, SignInQuiet, SignInDone
  <1>4. ASSUME NEW c \in Codes, UseRecoveryCode(c) PROVE SignInInv'
    <2>1. StoreInv' /\ Grows
      BY <1>4, UseStep
    <2>2. UNCHANGED <<signins, enrol, req>>
      BY <1>4 DEF UseRecoveryCode
    <2> QED
      BY <1>n, <2>1, <2>2, SameIdle, SignInQuiet
  <1>5. ASSUME NEW k \in Tokens, Expire(k) PROVE SignInInv'
    <2>1. StoreInv' /\ Grows
      BY <1>5, ExpireStep
    <2>2. UNCHANGED <<signins, req>> /\ enrol' = [enrol EXCEPT ![k].expired = TRUE]
      BY <1>5 DEF Expire, history
    <2>3. enrol \in [Tokens -> EnrolType]
      BY TypeFacts
    <2>4. \A j \in Tokens : enrol'[j].live => enrol[j].live
      BY <2>2, <2>3 DEF EnrolType
    <2> QED
      BY <1>n, <2>1, <2>2, <2>4, SameIdle, SignInQuiet
  <1>6. CASE StartEnrolment
    <2>1. StoreInv' /\ Grows
      BY <1>6, EnrolStep
    <2>2. UNCHANGED <<signins, req>>
      BY <1>6 DEF StartEnrolment, history
    <2>3. enrol \in [Tokens -> EnrolType] /\ nTok \in Nat
      BY TypeFacts
    <2>4. \A j \in Tokens : j # nTok + 1 => enrol'[j] = enrol[j]
      BY <1>6, <2>3 DEF StartEnrolment
    <2>5. \A j \in Tokens : enrol'[j].live => enrol[j].live \/ j > nTok
      BY <2>3, <2>4
    <2> QED
      BY <1>n, <2>1, <2>2, <2>5, SameIdle, SignInQuiet
  <1>7. CASE Cleanup
    <2>1. UNCHANGED <<signins, req>>
      BY <1>7 DEF Cleanup, history
    <2> QED
      BY <1>7, <1>n, <2>1, CleanupStep, SameIdle, SignInQuiet
  <1>8. CASE UNCHANGED vars
    <2>1. StoreInv' /\ Grows
      BY <1>8, StoreSame DEF vars, creds, history
    <2>2. UNCHANGED <<signins, enrol, req>>
      BY <1>8 DEF vars
    <2> QED
      BY <1>n, <2>1, <2>2, SameIdle, SignInQuiet
  <1> QED
    BY <1>1, <1>2, <1>3, <1>4, <1>5, <1>6, <1>7, <1>8 DEF Next

\* So that account holds throughout.
LEMMA SignInHolds == Spec => []SignInInv
  <1>1. Init => Inv /\ SignInInv
    BY InvInit, SignInInit
  <1>2. Inv /\ SignInInv /\ [Next]_vars => (Inv /\ SignInInv)'
    BY InvNext, SignInNext
  <1> QED
    BY <1>1, <1>2, PTL DEF Spec

(* A sign-in paused for enrolment is completed at most once per token, for  *)
(* any number of continue requests racing (consumeVerifiedMfaEnrollment).   *)
THEOREM EnrolmentOnceHolds == Spec => []EnrolmentOnce
  <1>1. SignInInv => EnrolmentOnce
    BY DEF SignInInv, TokenRow, EnrolmentOnce
  <1> QED
    BY <1>1, SignInHolds, PTL

(* It is completed only through a token by which a factor was activated     *)
(* (markMfaEnrollmentVerified).                                             *)
THEOREM EnrolmentNeedsFactorHolds == Spec => []EnrolmentNeedsFactor
  <1>1. SignInInv => EnrolmentNeedsFactor
    BY DEF SignInInv, TokenRow, EnrolmentNeedsFactor
  <1> QED
    BY <1>1, SignInHolds, PTL
=============================================================================
