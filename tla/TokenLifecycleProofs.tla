------------------------ MODULE TokenLifecycleProofs ------------------------
(***************************************************************************)
(* Proofs about TokenLifecycle and LoginSessions for every set of          *)
(* requests, users and clients, every bound and every lifespan.  The two   *)
(* share no state; both limit the sessions of a user in the same way, and  *)
(* one argument about that, on plain sets, serves both.                    *)
(***************************************************************************)
EXTENDS TokenLifecycle, LoginSessions, FiniteSetTheorems, WellFoundedInduction, TLAPS

-----------------------------------------------------------------------------
(* Typing of the rows. *)

\* The empty rows and the idle request have their types.
LEMMA RowTypes ==
    /\ NoCodeRow \in CodeRow
    /\ NoSessRow \in SessRow
    /\ NoTokRow \in TokRow
    /\ IdleReq \in ReqRow
    /\ DeletedCode \in CodeRow
    /\ DeletedCode.state = "deleted"
    /\ NoCodeRow.state = "none" /\ NoSessRow.state = "none" /\ NoTokRow.state = "none"
  <1>1. AnyUser \in Accounts /\ AnyClient \in Clients
    BY ConstantsAssumption DEF AnyUser, AnyClient, Accounts
  <1> QED
    BY <1>1 DEF NoCodeRow, NoSessRow, NoTokRow, IdleReq, DeletedCode, CodeRow,
                SessRow, TokRow, ReqRow, RowState, PC, None

\* A deleted row keeps its type.
LEMMA DeletedRows ==
    ASSUME TypeOK
    PROVE  /\ \A t \in TokenIds : /\ DeletedTok(t) \in TokRow
                                  /\ DeletedTok(t).state = "deleted"
           /\ \A s \in SessionIds : /\ DeletedSess(s) \in SessRow
                                    /\ DeletedSess(s).state = "deleted"
  BY RowTypes DEF TypeOK, DeletedTok, DeletedSess, TokRow, SessRow, RowState,
                  NoTokRow, NoSessRow

(* The statements on the tables keep the tables well typed and never turn  *)
(* a stored row back into an unused one.                                    *)
LEMMA RevokeTokensTyped ==
    ASSUME TypeOK, NEW T, RevokeTokens(T)
    PROVE  /\ tok' \in [TokenIds -> TokRow]
           /\ \A t \in TokenIds : tok'[t].state = tok[t].state
  <1>1. \A t \in TokenIds : /\ tok[t] \in TokRow
                             /\ [tok[t] EXCEPT !.revoked = TRUE] \in TokRow
                             /\ [tok[t] EXCEPT !.revoked = TRUE].state = tok[t].state
    <2> TAKE t \in TokenIds
    <2>1. tok[t] \in TokRow
      BY DEF TypeOK
    <2> QED
      BY <2>1 DEF TokRow
  <1>2. /\ tok' = [t \in TokenIds |-> tok'[t]]
        /\ \A t \in TokenIds : tok'[t] \in {tok[t], [tok[t] EXCEPT !.revoked = TRUE]}
    BY DEF RevokeTokens
  <1> QED
    BY <1>1, <1>2

\* Deleting sessions, with the cascade, keeps both tables typed and allocated.
LEMMA DeleteSessionsTyped ==
    ASSUME TypeOK, NEW S, DeleteSessions(S)
    PROVE  /\ sess' \in [SessionIds -> SessRow]
           /\ tok' \in [TokenIds -> TokRow]
           /\ \A s \in SessionIds : sess'[s].state = "none" <=> sess[s].state = "none"
           /\ \A t \in TokenIds : tok'[t].state = "none" <=> tok[t].state = "none"
  BY DeletedRows DEF TypeOK, DeleteSessions, TokensOf

\* A request moves to another label, or ends.
LEMMA GotoTyped ==
    ASSUME TypeOK, NEW r \in Reqs, NEW label \in PC
    PROVE  /\ [req EXCEPT ![r].pc = label] \in [Reqs -> ReqRow]
           /\ [req EXCEPT ![r] = IdleReq] \in [Reqs -> ReqRow]
  <1>1. req \in [Reqs -> ReqRow] /\ req[r] \in ReqRow
    BY DEF TypeOK
  <1>2. [req[r] EXCEPT !.pc = label] \in ReqRow
    BY <1>1 DEF ReqRow
  <1> QED
    BY <1>1, <1>2, RowTypes

\* A request moves to another label with other victims.
LEMMA VictimsTyped ==
    ASSUME TypeOK, NEW r \in Reqs, NEW label \in PC, NEW V \in SUBSET SessionIds
    PROVE  [req EXCEPT ![r].pc = label, ![r].victims = V] \in [Reqs -> ReqRow]
  <1>1. req \in [Reqs -> ReqRow] /\ req[r] \in ReqRow
    BY DEF TypeOK
  <1>2. [req[r] EXCEPT !.pc = label, !.victims = V] \in ReqRow
    BY <1>1 DEF ReqRow
  <1>3. [req EXCEPT ![r].pc = label, ![r].victims = V]
          = [req EXCEPT ![r] = [req[r] EXCEPT !.pc = label, !.victims = V]]
    BY <1>1
  <1> QED
    BY <1>1, <1>2, <1>3

\* The tables are empty at first.
LEMMA TypeInit == Init => TypeOK
  BY RowTypes, ConstantsAssumption
  DEF Init, TypeOK, CodeIds, SessionIds, TokenIds, None

\* No step, of any request, timer or administrator, breaks typing.
LEMMA TypeNext == TypeOK /\ [Next]_vars => TypeOK'
  <1> SUFFICES ASSUME TypeOK, [Next]_vars PROVE TypeOK'
    OBVIOUS
  <1> USE RowTypes, ConstantsAssumption
  <1>1. ASSUME NEW u \in Users, NEW cl \in Clients, NEW off \in BOOLEAN, IssueCode(u, cl, off)
        PROVE  TypeOK'
    BY <1>1 DEF TypeOK, IssueCode, CodeRow, CodeIds, RowState, Accounts
  <1>2. ASSUME NEW r \in Reqs, Arrive(r) PROVE TypeOK'
    <2>1. ASSUME NEW c \in CodeIds, NEW cl \in Clients, NEW ok \in BOOLEAN,
                 CodeClaim(r, c, cl, ok)
          PROVE  TypeOK'
      <3>1. codes[c] \in CodeRow /\ [codes[c] EXCEPT !.used = TRUE] \in CodeRow
        BY DEF TypeOK, CodeRow
      <3>2. codes' \in [CodeIds -> CodeRow]
            /\ \A d \in CodeIds : codes'[d].state = codes[d].state
        BY <2>1, <3>1 DEF TypeOK, CodeClaim, CodeRow
      <3> DEFINE row == [IdleReq EXCEPT !.pc = "limit", !.code = c, !.user = codes[c].user,
                                         !.client = cl, !.offline = codes[c].offline]
      <3>3. req' \in [Reqs -> ReqRow]
        <4>1. row \in ReqRow
          BY <3>1 DEF CodeRow, ReqRow, PC, IdleReq
        <4>2. req' = req \/ req' = [req EXCEPT ![r] = row]
          BY <2>1 DEF CodeClaim
        <4> HIDE DEF row
        <4> QED
          BY <4>1, <4>2 DEF TypeOK
      <3> QED
        BY <2>1, <3>2, <3>3 DEF TypeOK, CodeClaim
    <2>2. ASSUME NEW u \in Users, NEW cl \in Clients, NEW off \in BOOLEAN,
                 CredentialGrant(r, u, cl, off)
          PROVE  TypeOK'
      <3> DEFINE row == [IdleReq EXCEPT !.pc = "limit", !.user = u, !.client = cl,
                                         !.offline = off]
      <3>1. row \in ReqRow
        BY DEF ReqRow, PC, IdleReq, Accounts
      <3>2. req' = [req EXCEPT ![r] = row]
        BY <2>2 DEF CredentialGrant
      <3> HIDE DEF row
      <3> QED
        BY <2>2, <3>1, <3>2 DEF TypeOK, CredentialGrant
    <2>3. ASSUME NEW u \in ServiceUsers, NEW cl \in Clients, NEW off \in BOOLEAN,
                 ServiceGrant(r, u, cl, off)
          PROVE  TypeOK'
      <3> DEFINE row == [IdleReq EXCEPT !.pc = "sa_create", !.user = u, !.client = cl,
                                         !.offline = off]
      <3>1. row \in ReqRow
        BY DEF ReqRow, PC, IdleReq, Accounts
      <3>2. req' = [req EXCEPT ![r] = row]
        BY <2>3 DEF ServiceGrant
      <3> HIDE DEF row
      <3> QED
        BY <2>3, <3>1, <3>2 DEF TypeOK, ServiceGrant
    <2>4. ASSUME NEW t \in TokenIds, NEW cl \in Clients, NEW off \in BOOLEAN,
                 RefreshRead(r, t, cl, off)
          PROVE  TypeOK'
      <3> DEFINE row == [IdleReq EXCEPT !.pc = "rotate", !.tok = t, !.sid = tok[t].sid,
                                         !.client = cl, !.offline = off]
      <3>1. row \in ReqRow
        <4>1. tok[t] \in TokRow
          BY DEF TypeOK
        <4> QED
          BY <4>1 DEF TokRow, ReqRow, PC, IdleReq
      <3>2. req' = [req EXCEPT ![r] = row]
        BY <2>4 DEF RefreshRead
      <3> HIDE DEF row
      <3> QED
        BY <2>4, <3>1, <3>2 DEF TypeOK, RefreshRead
    <2>5. ASSUME NEW t \in TokenIds, RefreshReuse(r, t) PROVE TypeOK'
      <3> DEFINE row == [IdleReq EXCEPT !.pc = "reuse", !.sid = tok[t].sid]
      <3>1. row \in ReqRow
        <4>1. tok[t] \in TokRow
          BY DEF TypeOK
        <4> QED
          BY <4>1 DEF TokRow, ReqRow, PC, IdleReq
      <3>2. req' = [req EXCEPT ![r] = row]
        BY <2>5 DEF RefreshReuse
      <3> HIDE DEF row
      <3> QED
        BY <2>5, <3>1, <3>2 DEF TypeOK, RefreshReuse
    <2>6. ASSUME NEW s \in SessionIds, LogoutRead(r, s) PROVE TypeOK'
      BY <2>6 DEF TypeOK, LogoutRead, ReqRow, PC, IdleReq
    <2>7. ASSUME NEW s \in SessionIds, AdminRevokeRead(r, s) PROVE TypeOK'
      BY <2>7 DEF TypeOK, AdminRevokeRead, ReqRow, PC, IdleReq
    <2>8. ASSUME NEW u \in Accounts, RevokeAllRead(r, u) PROVE TypeOK'
      BY <2>8 DEF TypeOK, RevokeAllRead, ReqRow, PC, IdleReq, LiveSessions
    <2> QED
      BY <1>2, <2>1, <2>2, <2>3, <2>4, <2>5, <2>6, <2>7, <2>8 DEF Arrive
  <1>3. ASSUME NEW r \in Reqs, GrantStep(r) PROVE TypeOK'
    <2>1. CASE LimitRead(r)
      <3> DEFINE V == Victims(Active(req[r].user))
      <3>1. V \in SUBSET SessionIds
        BY DEF Victims, Active, LiveSessions
      <3>2. "evict_revoke" \in PC /\ "create" \in PC
        BY DEF PC
      <3>3. \/ req' = [req EXCEPT ![r].pc = "evict_revoke", ![r].victims = V]
            \/ req' = [req EXCEPT ![r].pc = "create"]
        BY <2>1 DEF LimitRead, Goto
      <3> HIDE DEF V
      <3>4. /\ [req EXCEPT ![r].pc = "evict_revoke", ![r].victims = V] \in [Reqs -> ReqRow]
            /\ [req EXCEPT ![r].pc = "create"] \in [Reqs -> ReqRow]
        BY <3>1, <3>2, VictimsTyped, GotoTyped
      <3>5. req' \in [Reqs -> ReqRow]
        BY <3>3, <3>4
      <3> QED
        BY <2>1, <3>5 DEF TypeOK, LimitRead
    <2>2. CASE EvictRevoke(r)
      <3>1. req' \in [Reqs -> ReqRow]
        BY <2>2, GotoTyped DEF EvictRevoke, Goto, PC
      <3> QED
        BY <2>2, <3>1, RevokeTokensTyped DEF TypeOK, EvictRevoke
    <2>3. CASE EvictDelete(r)
      <3>1. req' \in [Reqs -> ReqRow]
        BY <2>3, VictimsTyped DEF EvictDelete, PC
      <3> QED
        BY <2>3, <3>1, DeleteSessionsTyped DEF TypeOK, EvictDelete
    <2>4. CASE CreateSession(r)
      <3> DEFINE row == [state |-> "live", user |-> req[r].user,
                         client |-> req[r].client, code |-> req[r].code,
                         expiresAt |-> now + RefreshLifespan]
                 lbl == IF req[r].pc = "create" THEN "issue" ELSE "sa_read"
      <3>1. req[r] \in ReqRow /\ nSess + 1 \in SessionIds /\ lbl \in PC
        <4>1. nSess \in 0..NSessions /\ nSess < NSessions /\ req[r] \in ReqRow
          BY <2>4 DEF TypeOK, CreateSession
        <4> QED
          BY <4>1 DEF SessionIds, PC
      <3>2. row \in SessRow /\ row.state # "none"
        BY <3>1 DEF TypeOK, SessRow, ReqRow, RowState
      <3>3. [req[r] EXCEPT !.sid = nSess + 1, !.code = None, !.pc = lbl] \in ReqRow
        BY <3>1 DEF ReqRow
      <3>4. req' = [req EXCEPT ![r] =
                      [req[r] EXCEPT !.sid = nSess + 1, !.code = None, !.pc = lbl]]
        BY <2>4 DEF CreateSession, TypeOK
      <3>5. req' \in [Reqs -> ReqRow]
        BY <3>3, <3>4 DEF TypeOK
      <3>6. sess' = [sess EXCEPT ![nSess + 1] = row] /\ nSess' = nSess + 1
        BY <2>4 DEF CreateSession
      <3> HIDE DEF row, lbl
      <3>7. sess' \in [SessionIds -> SessRow] /\ nSess' \in 0..NSessions
            /\ \A s \in SessionIds : sess'[s].state = "none" <=> s > nSess'
        BY <3>1, <3>2, <3>6 DEF TypeOK, SessionIds
      <3> QED
        BY <2>4, <3>5, <3>7 DEF TypeOK, CreateSession
    <2>5. CASE ServiceTrimRead(r)
      <3> DEFINE S   == LiveSessions(req[r].user)
                 old == {s \in S : Cardinality({x \in S : x >= s}) > ServiceCap}
      <3>1. old \in SUBSET SessionIds
        BY DEF LiveSessions
      <3>2. "sa_revoke" \in PC /\ "issue" \in PC
        BY DEF PC
      <3>3. \/ req' = [req EXCEPT ![r].pc = "sa_revoke", ![r].victims = old]
            \/ req' = [req EXCEPT ![r].pc = "issue"]
        BY <2>5 DEF ServiceTrimRead, Goto
      <3> HIDE DEF old
      <3>4. /\ [req EXCEPT ![r].pc = "sa_revoke", ![r].victims = old] \in [Reqs -> ReqRow]
            /\ [req EXCEPT ![r].pc = "issue"] \in [Reqs -> ReqRow]
        BY <3>1, <3>2, VictimsTyped, GotoTyped
      <3>5. req' \in [Reqs -> ReqRow]
        BY <3>3, <3>4
      <3> QED
        BY <2>5, <3>5 DEF TypeOK, ServiceTrimRead
    <2>6. CASE ServiceTrimRevoke(r)
      <3>1. req' \in [Reqs -> ReqRow]
        BY <2>6, GotoTyped DEF ServiceTrimRevoke, Goto, PC
      <3> QED
        BY <2>6, <3>1, RevokeTokensTyped DEF TypeOK, ServiceTrimRevoke
    <2>7. CASE ServiceTrimDelete(r)
      <3>1. req' \in [Reqs -> ReqRow]
        BY <2>7, VictimsTyped DEF ServiceTrimDelete, PC
      <3> QED
        BY <2>7, <3>1, DeleteSessionsTyped DEF TypeOK, ServiceTrimDelete
    <2>8. CASE IssueToken(r)
      <3> DEFINE row == [state |-> "live", revoked |-> FALSE, sid |-> req[r].sid,
                         offline |-> req[r].offline, client |-> req[r].client,
                         expiresAt |-> now + IF req[r].offline THEN OfflineLifespan
                                                               ELSE RefreshLifespan,
                         parent |-> req[r].tok]
      <3>1. req' \in [Reqs -> ReqRow] /\ req[r] \in ReqRow
        BY <2>8, GotoTyped DEF TypeOK, IssueToken, Finish, PC
      <3>2. row \in TokRow /\ row.state # "none"
        BY <3>1 DEF TypeOK, TokRow, ReqRow, RowState
      <3>3. CASE UNCHANGED <<tok, nTok>>
        BY <2>8, <3>1, <3>3 DEF TypeOK, IssueToken
      <3>4. CASE nTok < NTokens /\ nTok' = nTok + 1 /\ tok' = [tok EXCEPT ![nTok + 1] = row]
        <4> HIDE DEF row
        <4>1. nTok + 1 \in TokenIds /\ nTok' \in 0..NTokens
          BY <3>4 DEF TypeOK, TokenIds
        <4>2. tok' \in [TokenIds -> TokRow]
              /\ \A t \in TokenIds : tok'[t].state = "none" <=> t > nTok'
          BY <3>2, <3>4, <4>1 DEF TypeOK, TokenIds
        <4> QED
          BY <2>8, <3>1, <4>1, <4>2 DEF TypeOK, IssueToken
      <3> QED
        BY <2>8, <3>3, <3>4 DEF IssueToken
    <2>9. CASE Rotate(r)
      <3>1. req' \in [Reqs -> ReqRow]
        <4>1. req' = [req EXCEPT ![r].pc = "issue"] \/ req' = [req EXCEPT ![r] = IdleReq]
          BY <2>9 DEF Rotate, Goto, Finish
        <4>2. "issue" \in PC
          BY DEF PC
        <4>3. /\ [req EXCEPT ![r].pc = "issue"] \in [Reqs -> ReqRow]
              /\ [req EXCEPT ![r] = IdleReq] \in [Reqs -> ReqRow]
          BY <4>2, GotoTyped
        <4> QED
          BY <4>1, <4>3
      <3>2. /\ tok' \in [TokenIds -> TokRow]
            /\ \A t \in TokenIds : tok'[t].state = tok[t].state
        BY <2>9, RevokeTokensTyped DEF TypeOK, Rotate
      <3> QED
        BY <2>9, <3>1, <3>2 DEF TypeOK, Rotate
    <2>10. CASE ReuseRevoke(r)
      <3>1. req' \in [Reqs -> ReqRow]
        BY <2>10, GotoTyped DEF ReuseRevoke, Finish, PC
      <3> QED
        BY <2>10, <3>1, RevokeTokensTyped DEF TypeOK, ReuseRevoke
    <2> QED
      BY <1>3, <2>1, <2>2, <2>3, <2>4, <2>5, <2>6, <2>7, <2>8, <2>9, <2>10 DEF GrantStep
  <1>4. ASSUME NEW r \in Reqs, EndStep(r) PROVE TypeOK'
    <2>1. CASE EndRevoke(r)
      <3>1. req' \in [Reqs -> ReqRow]
        BY <2>1, GotoTyped DEF EndRevoke, Goto, PC
      <3> QED
        BY <2>1, <3>1, RevokeTokensTyped DEF TypeOK, EndRevoke
    <2>2. CASE EndDelete(r)
      BY <2>2, DeleteSessionsTyped DEF TypeOK, EndDelete, Finish, ReqRow
    <2>3. CASE AdminRevokeTokens(r)
      <3>1. req' \in [Reqs -> ReqRow]
        BY <2>3, GotoTyped DEF AdminRevokeTokens, Goto, PC
      <3> QED
        BY <2>3, <3>1, RevokeTokensTyped DEF TypeOK, AdminRevokeTokens
    <2>4. CASE AdminRevokeDelete(r)
      BY <2>4, DeleteSessionsTyped DEF TypeOK, AdminRevokeDelete, Finish, ReqRow
    <2>5. CASE RevokeAllTxn(r)
      BY <2>5, DeleteSessionsTyped DEF TypeOK, RevokeAllTxn, Finish, ReqRow
    <2> QED
      BY <1>4, <2>1, <2>2, <2>3, <2>4, <2>5 DEF EndStep
  <1>5. ASSUME NEW r \in Reqs, Abort(r) PROVE TypeOK'
    BY <1>5 DEF TypeOK, Abort, Finish
  <1>6. ASSUME NEW t \in TokenIds, RevokeToken(t) PROVE TypeOK'
    BY <1>6, RevokeTokensTyped DEF TypeOK, RevokeToken
  <1>7. CASE CleanupSessions
    BY <1>7, DeleteSessionsTyped DEF TypeOK, CleanupSessions
  <1>8. CASE CleanupTokens
    BY <1>8, DeletedRows DEF TypeOK, CleanupTokens
  <1>9. CASE CleanupCodes
    BY <1>9 DEF TypeOK, CleanupCodes
  <1>10. CASE CleanupExpiredCodes
    BY <1>10 DEF TypeOK, CleanupExpiredCodes
  <1>11. CASE Tick
    BY <1>11 DEF TypeOK, Tick
  <1>12. CASE UNCHANGED vars
    BY <1>12 DEF TypeOK, vars
  <1> QED
    BY <1>1, <1>2, <1>3, <1>4, <1>5, <1>6, <1>7, <1>8, <1>9, <1>10, <1>11, <1>12
    DEF Next, Cleanup

(* Every table and request variable keeps its type, and the ids handed out  *)
(* are exactly the ids with a row, whatever requests, logouts and cleanups  *)
(* interleave.                                                              *)
THEOREM TypeCorrect == Spec => []TypeOK
  BY TypeInit, TypeNext, PTL DEF Spec

-----------------------------------------------------------------------------
(* An authorization code yields at most one session.                        *)
(*                                                                          *)
(* CodeSingleUse is not inductive: it relates requests and sessions to each *)
(* other, not to the code's row.  The strengthening adds that a code        *)
(* somebody holds or has turned into a session is taken for good: used or   *)
(* deleted, and never again up for a claim.                                 *)

Taken(c) == codes[c].state = "deleted" \/ (codes[c].state = "live" /\ codes[c].used)

HeldTaken  == \A r \in Reqs : req[r].code # None => Taken(req[r].code)
SpentTaken == \A s \in SessionIds : sess[s].code # None => Taken(sess[s].code)
CodeInv == HeldTaken /\ HeldOnce /\ SpentTaken /\ SpentNotHeld /\ OneSession

(* What every step but the claim and the creation of the session does to   *)
(* codes: a taken code stays taken, and requests only let go of codes.      *)
CodeFrame ==
    /\ \A c \in CodeIds : Taken(c) => Taken(c)'
    /\ \A s \in SessionIds : sess'[s].code = sess[s].code
    /\ \A r \in Reqs : req'[r].code = req[r].code \/ req'[r].code = None

\* A step that touches neither codes nor the requests holding them keeps CodeInv.
LEMMA CodeFrameKeepsInv ==
    ASSUME TypeOK, TypeOK', CodeInv, CodeFrame
    PROVE  CodeInv'
  <1>1. /\ \A r \in Reqs : req[r].code \in CodeIds \cup {None}
        /\ \A s \in SessionIds : sess[s].code \in CodeIds \cup {None}
    BY DEF TypeOK, ReqRow, SessRow
  <1>2. HeldTaken' /\ HeldOnce'
    BY <1>1 DEF CodeInv, CodeFrame, HeldTaken, HeldOnce
  <1>3. SpentTaken' /\ OneSession'
    BY <1>1 DEF CodeInv, CodeFrame, SpentTaken, OneSession
  <1>4. SpentNotHeld'
    BY <1>1 DEF CodeInv, CodeFrame, SpentNotHeld
  <1> QED
    BY <1>2, <1>3, <1>4 DEF CodeInv

\* Deleting a session does not forget the code it came from.
LEMMA DeletedSessKeepsCode ==
    ASSUME TypeOK, NEW S, DeleteSessions(S)
    PROVE  \A s \in SessionIds : sess'[s].code = sess[s].code
  BY DEF TypeOK, DeleteSessions, DeletedSess, NoSessRow

\* No code is held or spent at first.
LEMMA CodeInit == Init => CodeInv
  BY DEF Init, CodeInv, HeldTaken, HeldOnce, SpentTaken, SpentNotHeld,
         OneSession, IdleReq, NoSessRow

\* The conditional UPDATE takes a code nobody has, for at most one request.
LEMMA CodeClaimKeepsInv ==
    ASSUME TypeOK, TypeOK', CodeInv, NEW r \in Reqs, NEW c \in CodeIds,
           NEW cl \in Clients, NEW ok \in BOOLEAN, CodeClaim(r, c, cl, ok)
    PROVE  CodeInv'
  <1>1. c # None
    BY ConstantsAssumption DEF CodeIds, None
  <1>2. ~Taken(c) /\ Taken(c)' /\ \A d \in CodeIds : Taken(d) => Taken(d)'
    BY DEF CodeClaim, Taken, TypeOK, CodeRow
  <1>3. \A q \in Reqs : q # r => req'[q].code = req[q].code
    BY DEF CodeClaim, TypeOK
  <1>4. req'[r].code = req[r].code \/ req'[r].code = c
    <2> DEFINE row == [IdleReq EXCEPT !.pc = "limit", !.code = c, !.user = codes[c].user,
                                       !.client = cl, !.offline = codes[c].offline]
    <2>1. row.code = c
      BY DEF IdleReq
    <2>2. req' = req \/ req' = [req EXCEPT ![r] = row]
      BY DEF CodeClaim
    <2> HIDE DEF row
    <2> QED
      BY <2>1, <2>2 DEF TypeOK
  <1>5. /\ \A q \in Reqs : req[q].code \in CodeIds \cup {None}
        /\ \A s \in SessionIds : sess[s].code \in CodeIds \cup {None}
        /\ sess' = sess
    BY DEF TypeOK, ReqRow, SessRow, CodeClaim
  <1>6. /\ \A q \in Reqs : req[q].code # c
        /\ \A s \in SessionIds : sess[s].code # c
    BY <1>1, <1>2 DEF CodeInv, HeldTaken, SpentTaken
  <1>7. HeldTaken'
    BY <1>2, <1>3, <1>4, <1>5 DEF CodeInv, HeldTaken
  <1>8. HeldOnce'
    BY <1>3, <1>4, <1>6 DEF CodeInv, HeldOnce
  <1>9. SpentTaken' /\ OneSession'
    BY <1>2, <1>5 DEF CodeInv, SpentTaken, OneSession
  <1>10. SpentNotHeld'
    BY <1>3, <1>4, <1>5, <1>6 DEF CodeInv, SpentNotHeld
  <1> QED
    BY <1>7, <1>8, <1>9, <1>10 DEF CodeInv

\* The session takes over the code from the one request that held it.
LEMMA CreateSessionKeepsInv ==
    ASSUME TypeOK, TypeOK', CodeInv, NEW r \in Reqs, CreateSession(r)
    PROVE  CodeInv'
  <1> DEFINE n == nSess + 1
  <1>1. /\ \A c \in CodeIds : Taken(c)' = Taken(c)
        /\ \A s \in SessionIds : s # n => sess'[s].code = sess[s].code
        /\ sess'[n].code = req[r].code
        /\ \A q \in Reqs : q # r => req'[q].code = req[q].code
        /\ req'[r].code = None
    BY DEF CreateSession, TypeOK, Taken, SessionIds, ReqRow
  <1>2. /\ \A q \in Reqs : req[q].code \in CodeIds \cup {None}
        /\ \A s \in SessionIds : sess[s].code \in CodeIds \cup {None}
    BY DEF TypeOK, ReqRow, SessRow
  <1> HIDE DEF n
  <1>3. HeldTaken' /\ HeldOnce'
    BY <1>1, <1>2 DEF CodeInv, HeldTaken, HeldOnce
  <1>4. SpentTaken'
    BY <1>1, <1>2 DEF CodeInv, SpentTaken, HeldTaken
  <1>5. SpentNotHeld'
    BY <1>1 DEF CodeInv, SpentNotHeld, HeldOnce
  <1>6. OneSession'
    BY <1>1 DEF CodeInv, OneSession, SpentNotHeld
  <1> QED
    BY <1>3, <1>4, <1>5, <1>6 DEF CodeInv

\* A step that leaves codes and sessions alone and at most ends the request.
LEMMA LocalCodeFrame ==
    ASSUME UNCHANGED <<codes, sess>>,
           \A r \in Reqs : req'[r].code = req[r].code \/ req'[r].code = None
    PROVE  CodeFrame
  BY DEF CodeFrame, Taken

\* The cascade leaves codes alone.
LEMMA DeleteCodeFrame ==
    ASSUME TypeOK, NEW S, DeleteSessions(S), UNCHANGED codes,
           \A r \in Reqs : req'[r].code = req[r].code \/ req'[r].code = None
    PROVE  CodeFrame
  BY DeletedSessKeepsCode DEF CodeFrame, Taken

\* Claiming, creating, deleting and cleaning up keep CodeInv.
LEMMA CodeNext == TypeOK /\ TypeOK' /\ CodeInv /\ [Next]_vars => CodeInv'
  <1> SUFFICES ASSUME TypeOK, TypeOK', CodeInv, [Next]_vars PROVE CodeInv'
    OBVIOUS
  <1>1. ASSUME NEW u \in Users, NEW cl \in Clients, NEW off \in BOOLEAN, IssueCode(u, cl, off)
        PROVE  CodeFrame
    <2>1. \A c \in CodeIds : c # nCode + 1 => codes'[c] = codes[c]
      BY <1>1 DEF IssueCode, TypeOK
    <2>2. \A c \in CodeIds : Taken(c) => c # nCode + 1
      BY DEF TypeOK, Taken, CodeIds
    <2> QED
      BY <1>1, <2>1, <2>2 DEF CodeFrame, Taken, IssueCode
  <1>2. ASSUME NEW r \in Reqs, Arrive(r) PROVE CodeInv'
    <2>1. ASSUME NEW c \in CodeIds, NEW cl \in Clients, NEW ok \in BOOLEAN,
                 CodeClaim(r, c, cl, ok)
          PROVE  CodeInv'
      BY <2>1, CodeClaimKeepsInv
    <2>2. ASSUME NEW u \in Users, NEW cl \in Clients, NEW off \in BOOLEAN,
                 CredentialGrant(r, u, cl, off)
          PROVE  CodeFrame
      BY <2>2, LocalCodeFrame DEF CredentialGrant, IdleReq, TypeOK
    <2>3. ASSUME NEW u \in ServiceUsers, NEW cl \in Clients, NEW off \in BOOLEAN,
                 ServiceGrant(r, u, cl, off)
          PROVE  CodeFrame
      BY <2>3, LocalCodeFrame DEF ServiceGrant, IdleReq, TypeOK
    <2>4. ASSUME NEW t \in TokenIds, NEW cl \in Clients, NEW off \in BOOLEAN,
                 RefreshRead(r, t, cl, off)
          PROVE  CodeFrame
      BY <2>4, LocalCodeFrame DEF RefreshRead, IdleReq, TypeOK
    <2>5. ASSUME NEW t \in TokenIds, RefreshReuse(r, t) PROVE CodeFrame
      BY <2>5, LocalCodeFrame DEF RefreshReuse, IdleReq, TypeOK
    <2>6. ASSUME NEW s \in SessionIds, LogoutRead(r, s) PROVE CodeFrame
      BY <2>6, LocalCodeFrame DEF LogoutRead, IdleReq, TypeOK
    <2>7. ASSUME NEW s \in SessionIds, AdminRevokeRead(r, s) PROVE CodeFrame
      BY <2>7, LocalCodeFrame DEF AdminRevokeRead, IdleReq, TypeOK
    <2>8. ASSUME NEW u \in Accounts, RevokeAllRead(r, u) PROVE CodeFrame
      BY <2>8, LocalCodeFrame DEF RevokeAllRead, IdleReq, TypeOK
    <2> QED
      BY <1>2, <2>1, <2>2, <2>3, <2>4, <2>5, <2>6, <2>7, <2>8, CodeFrameKeepsInv DEF Arrive
  <1>3. ASSUME NEW r \in Reqs, GrantStep(r) PROVE CodeInv'
    <2>1. CASE LimitRead(r)
      BY <2>1, LocalCodeFrame, CodeFrameKeepsInv DEF LimitRead, Goto, TypeOK, ReqRow
    <2>2. CASE EvictRevoke(r)
      BY <2>2, LocalCodeFrame, CodeFrameKeepsInv DEF EvictRevoke, Goto, TypeOK, ReqRow
    <2>3. CASE EvictDelete(r)
      <3>1. \A q \in Reqs : req'[q].code = req[q].code
        BY <2>3 DEF EvictDelete, TypeOK, ReqRow
      <3> QED
        BY <2>3, <3>1, DeleteCodeFrame, CodeFrameKeepsInv DEF EvictDelete
    <2>4. CASE CreateSession(r)
      BY <2>4, CreateSessionKeepsInv
    <2>5. CASE ServiceTrimRead(r)
      <3> DEFINE S   == LiveSessions(req[r].user)
                 old == {s \in S : Cardinality({x \in S : x >= s}) > ServiceCap}
      <3>1. \/ req' = [req EXCEPT ![r].pc = "sa_revoke", ![r].victims = old]
            \/ req' = [req EXCEPT ![r].pc = "issue"]
        BY <2>5 DEF ServiceTrimRead, Goto
      <3> HIDE DEF old
      <3>2. CASE req' = [req EXCEPT ![r].pc = "sa_revoke", ![r].victims = old]
        BY <2>5, <3>2, LocalCodeFrame, CodeFrameKeepsInv
        DEF ServiceTrimRead, TypeOK, ReqRow
      <3>3. CASE req' = [req EXCEPT ![r].pc = "issue"]
        BY <2>5, <3>3, LocalCodeFrame, CodeFrameKeepsInv
        DEF ServiceTrimRead, TypeOK, ReqRow
      <3> QED
        BY <3>1, <3>2, <3>3
    <2>6. CASE ServiceTrimRevoke(r)
      BY <2>6, LocalCodeFrame, CodeFrameKeepsInv DEF ServiceTrimRevoke, Goto, TypeOK, ReqRow
    <2>7. CASE ServiceTrimDelete(r)
      <3>1. \A q \in Reqs : req'[q].code = req[q].code
        BY <2>7 DEF ServiceTrimDelete, TypeOK, ReqRow
      <3> QED
        BY <2>7, <3>1, DeleteCodeFrame, CodeFrameKeepsInv DEF ServiceTrimDelete
    <2>8. CASE IssueToken(r)
      BY <2>8, LocalCodeFrame, CodeFrameKeepsInv DEF IssueToken, Finish, IdleReq, TypeOK
    <2>9. CASE Rotate(r)
      BY <2>9, LocalCodeFrame, CodeFrameKeepsInv DEF Rotate, Goto, Finish, IdleReq, TypeOK, ReqRow
    <2>10. CASE ReuseRevoke(r)
      BY <2>10, LocalCodeFrame, CodeFrameKeepsInv DEF ReuseRevoke, Finish, IdleReq, TypeOK
    <2> QED
      BY <1>3, <2>1, <2>2, <2>3, <2>4, <2>5, <2>6, <2>7, <2>8, <2>9, <2>10 DEF GrantStep
  <1>4. ASSUME NEW r \in Reqs, EndStep(r) PROVE CodeFrame
    <2>1. CASE EndRevoke(r)
      BY <2>1, LocalCodeFrame DEF EndRevoke, Goto, TypeOK, ReqRow
    <2>2. CASE EndDelete(r)
      BY <2>2, DeleteCodeFrame DEF EndDelete, Finish, IdleReq, TypeOK
    <2>3. CASE AdminRevokeTokens(r)
      BY <2>3, LocalCodeFrame DEF AdminRevokeTokens, Goto, TypeOK, ReqRow
    <2>4. CASE AdminRevokeDelete(r)
      BY <2>4, DeleteCodeFrame DEF AdminRevokeDelete, Finish, IdleReq, TypeOK
    <2>5. CASE RevokeAllTxn(r)
      BY <2>5, DeleteCodeFrame DEF RevokeAllTxn, Finish, IdleReq, TypeOK
    <2> QED
      BY <1>4, <2>1, <2>2, <2>3, <2>4, <2>5 DEF EndStep
  <1>5. ASSUME NEW r \in Reqs, Abort(r) PROVE CodeFrame
    BY <1>5, LocalCodeFrame DEF Abort, Finish, IdleReq, TypeOK
  <1>6. ASSUME NEW t \in TokenIds, RevokeToken(t) PROVE CodeFrame
    BY <1>6, LocalCodeFrame DEF RevokeToken
  <1>7. CASE CleanupSessions
    BY <1>7, DeleteCodeFrame, CodeFrameKeepsInv DEF CleanupSessions
  <1>8. CASE CleanupTokens
    BY <1>8, LocalCodeFrame, CodeFrameKeepsInv DEF CleanupTokens
  <1>9. CASE CleanupCodes
    BY <1>9, RowTypes, CodeFrameKeepsInv DEF CleanupCodes, CodeFrame, Taken
  <1>10. CASE CleanupExpiredCodes
    BY <1>10, RowTypes, CodeFrameKeepsInv DEF CleanupExpiredCodes, CodeFrame, Taken
  <1>11. CASE Tick
    BY <1>11, LocalCodeFrame, CodeFrameKeepsInv DEF Tick
  <1>12. CASE UNCHANGED vars
    BY <1>12, LocalCodeFrame, CodeFrameKeepsInv DEF vars
  <1> QED
    BY <1>1, <1>2, <1>3, <1>4, <1>5, <1>6, <1>7, <1>8, <1>9, <1>10, <1>11, <1>12,
       CodeFrameKeepsInv
    DEF Next, Cleanup

(* However many exchanges of a code run at once, and whatever logout and    *)
(* cleanup delete meanwhile, the code becomes at most one session: the      *)
(* single conditional UPDATE of handleAuthorizationCodeGrant suffices.      *)
THEOREM CodeUsedOnce == Spec => []CodeSingleUse
  <1>1. Init => TypeOK /\ CodeInv
    BY TypeInit, CodeInit
  <1>2. TypeOK /\ CodeInv /\ [Next]_vars => (TypeOK /\ CodeInv)'
    BY TypeNext, CodeNext
  <1>3. CodeInv => CodeSingleUse
    BY DEF CodeInv, CodeSingleUse
  <1> QED
    BY <1>1, <1>2, <1>3, PTL DEF Spec

-----------------------------------------------------------------------------
(* Tokens, their sessions, their clients and the tokens they replace.       *)
(*                                                                          *)
(* The three invariants speak of the tables only; what a request read some  *)
(* steps ago has to be related to the tables too.  A request about to issue *)
(* a token knows a session that exists or once existed, and belongs to the  *)
(* request's client for as long as it exists; a rotating request that has   *)
(* passed its update has left the old token spent.                          *)

Issuing == {"sa_read", "sa_revoke", "sa_delete", "issue", "rotate"}
SpentTok(t) == tok[t].state = "deleted" \/ (tok[t].state = "live" /\ tok[t].revoked)

UnusedHasNoParent == \A t \in TokenIds : tok[t].state = "none" => tok[t].parent = None
ParentsSpent  == \A t \in TokenIds : tok[t].parent # None => SpentTok(tok[t].parent)
LiveTokBound  == \A t \in TokenIds : tok[t].state = "live" =>
                     /\ tok[t].sid \in SessionIds
                     /\ sess[tok[t].sid].state = "live"
                     /\ sess[tok[t].sid].client = tok[t].client
ReqSession == \A r \in Reqs : req[r].pc \in Issuing =>
                  /\ req[r].sid \in SessionIds
                  /\ req[r].sid <= nSess
                  /\ sess[req[r].sid].state = "live" =>
                        sess[req[r].sid].client = req[r].client
ReqToken   == \A r \in Reqs :
                  /\ req[r].pc \notin {"rotate", "issue"} => req[r].tok = None
                  /\ req[r].pc = "rotate" => req[r].tok \in TokenIds
                  /\ req[r].pc = "issue" /\ req[r].tok # None => SpentTok(req[r].tok)
TableInv == UnusedHasNoParent /\ ParentsSpent /\ LiveTokBound
ReqInv   == ReqSession /\ ReqToken
TokInv   == TableInv /\ ReqInv

(* What a step that adds no row does to the tables: rows only disappear or  *)
(* become spent, and a session never disappears without its tokens.         *)
TableFrame ==
    /\ nSess' = nSess
    /\ \A s \in SessionIds : sess'[s].state = "live" =>
          sess[s].state = "live" /\ sess'[s].client = sess[s].client
    /\ \A t \in TokenIds :
          /\ tok'[t].parent = tok[t].parent
          /\ tok'[t].state = "none" => tok[t].state = "none"
          /\ SpentTok(t) => SpentTok(t)'
          /\ tok'[t].state = "live" =>
                /\ tok[t].state = "live"
                /\ tok'[t].sid = tok[t].sid /\ tok'[t].client = tok[t].client
                /\ sess[tok[t].sid].state = "live" =>
                      /\ sess'[tok[t].sid].state = "live"
                      /\ sess'[tok[t].sid].client = sess[tok[t].sid].client

(* What a step does to a request unless it takes up a session or a token:   *)
(* nothing, leave the issuing part, or move along the service-account trim. *)
ReqFrame ==
    \A r \in Reqs :
       \/ req'[r] = req[r]
       \/ req'[r].pc \notin Issuing /\ req'[r].tok = None
       \/ /\ req[r].pc \in {"sa_read", "sa_revoke", "sa_delete"}
          /\ req'[r].pc \in {"sa_revoke", "sa_delete", "issue"}
          /\ req'[r].sid = req[r].sid /\ req'[r].client = req[r].client
          /\ req'[r].tok = req[r].tok

\* A step that only revokes or deletes rows keeps what holds of the tables.
LEMMA TableFrameKeeps ==
    ASSUME TypeOK, TypeOK', TableInv, TableFrame
    PROVE  TableInv'
  <1>1. \A t \in TokenIds : tok[t].parent \in TokenIds \cup {None}
    BY DEF TypeOK, TokRow
  <1>2. UnusedHasNoParent' /\ ParentsSpent'
    BY <1>1 DEF TableInv, TableFrame, UnusedHasNoParent, ParentsSpent
  <1>3. LiveTokBound'
    BY DEF TableInv, TableFrame, LiveTokBound
  <1> QED
    BY <1>2, <1>3 DEF TableInv

\* ... and what the requests know of their session and token.
LEMMA ReqFrameKeeps ==
    ASSUME TypeOK, TypeOK', ReqInv, TableFrame, ReqFrame
    PROVE  ReqInv'
  <1>1. ReqSession'
    BY DEF ReqInv, TableFrame, ReqFrame, ReqSession, Issuing
  <1>2. ReqToken'
    <2> SUFFICES ASSUME NEW r \in Reqs
                 PROVE  /\ req'[r].pc \notin {"rotate", "issue"} => req'[r].tok = None
                        /\ req'[r].pc = "rotate" => req'[r].tok \in TokenIds
                        /\ (req[r].pc = "issue" /\ req[r].tok # None => SpentTok(req[r].tok))'
      BY DEF ReqToken
    <2>1. req[r].tok \in TokenIds \cup {None}
      BY DEF TypeOK, ReqRow
    <2>2. CASE req'[r] = req[r]
      BY <2>1, <2>2 DEF ReqInv, ReqToken, TableFrame, SpentTok
    <2>3. CASE req'[r].pc \notin Issuing /\ req'[r].tok = None
      BY <2>3 DEF Issuing
    <2>4. CASE /\ req[r].pc \in {"sa_read", "sa_revoke", "sa_delete"}
               /\ req'[r].pc \in {"sa_revoke", "sa_delete", "issue"}
               /\ req'[r].tok = req[r].tok
      BY <2>4 DEF ReqInv, ReqToken
    <2> QED
      BY <2>2, <2>3, <2>4 DEF ReqFrame
  <1> QED
    BY <1>1, <1>2 DEF ReqInv

\* Both frames together keep TokInv.
LEMMA FrameKeeps ==
    ASSUME TypeOK, TypeOK', TokInv, TableFrame, ReqFrame
    PROVE  TokInv'
  BY TableFrameKeeps, ReqFrameKeeps DEF TokInv

\* Revoking tokens is such a step.
LEMMA RevokeFrame ==
    ASSUME TypeOK, NEW T, RevokeTokens(T), UNCHANGED <<sess, nSess>>
    PROVE  TableFrame
  BY DEF TypeOK, RevokeTokens, TableFrame, SpentTok, TokRow

\* So is leaving the tables alone.
LEMMA UnchangedFrame ==
    ASSUME UNCHANGED <<sess, tok, nSess>>
    PROVE  TableFrame
  BY DEF TableFrame, SpentTok

\* So is deleting sessions with their tokens.
LEMMA DeleteFrame ==
    ASSUME TypeOK, NEW S, DeleteSessions(S), UNCHANGED nSess, LiveTokBound
    PROVE  TableFrame
  <1>1. \A s \in SessionIds : sess'[s] = sess[s] \/ sess'[s].state = "deleted"
    BY DeletedRows DEF DeleteSessions, TypeOK
  <1>2. ASSUME NEW t \in TokenIds PROVE tok'[t].parent = tok[t].parent
    BY DEF DeleteSessions, DeletedTok, NoTokRow, TypeOK
  <1>3. \A t \in TokenIds : tok'[t] = tok[t] \/ tok'[t].state = "deleted"
    BY DeletedRows DEF DeleteSessions, TypeOK
  <1>4. ASSUME NEW t \in TokenIds, tok'[t].state = "live"
        PROVE  tok'[t] = tok[t] /\ sess'[tok[t].sid] = sess[tok[t].sid]
    <2>1. t \notin TokensOf(S) /\ tok'[t] = tok[t]
      BY <1>4, DeletedRows DEF DeleteSessions, TypeOK
    <2>2. tok[t].sid \notin S /\ tok[t].sid \in SessionIds
      BY <1>4, <2>1 DEF TokensOf, LiveTokBound
    <2> QED
      BY <2>1, <2>2 DEF DeleteSessions
  <1> QED
    BY <1>1, <1>2, <1>3, <1>4 DEF TableFrame, SpentTok

\* The new session belongs to the request; the rows of other sessions stay.
LEMMA CreateSessionTok ==
    ASSUME TypeOK, TypeOK', TokInv, NEW r \in Reqs, CreateSession(r)
    PROVE  TokInv'
  <1> DEFINE n == nSess + 1
  <1>1. /\ n \in SessionIds /\ nSess \in Nat /\ nSess' = n
        /\ tok' = tok
        /\ sess[n].state = "none"
        /\ sess'[n].client = req[r].client
        /\ \A s \in SessionIds : s # n => sess'[s] = sess[s]
    BY DEF CreateSession, TypeOK, SessionIds
  <1>2. /\ \A q \in Reqs : q # r => req'[q] = req[q]
        /\ req'[r].sid = n /\ req'[r].tok = req[r].tok
        /\ req'[r].client = req[r].client
        /\ req'[r].pc \in {"issue", "sa_read"}
        /\ req[r].pc \in {"create", "sa_create"}
    BY DEF CreateSession, TypeOK, ReqRow
  <1> HIDE DEF n
  <1>3. UnusedHasNoParent' /\ ParentsSpent'
    BY <1>1 DEF TokInv, TableInv, UnusedHasNoParent, ParentsSpent, SpentTok
  <1>4. LiveTokBound'
    BY <1>1 DEF TokInv, TableInv, LiveTokBound
  <1>5. ReqSession'
    <2>1. n = nSess + 1
      BY DEF n
    <2> QED
      BY <1>1, <1>2, <2>1 DEF TokInv, ReqInv, ReqSession, SessionIds
  <1>6. ReqToken'
    BY <1>1, <1>2 DEF TokInv, ReqInv, ReqToken, SpentTok
  <1> QED
    BY <1>3, <1>4, <1>5, <1>6 DEF TokInv, TableInv, ReqInv

\* The foreign key and the earlier update make the new token well connected.
LEMMA IssueTokenTok ==
    ASSUME TypeOK, TypeOK', TokInv, NEW r \in Reqs, IssueToken(r)
    PROVE  TokInv'
  <1>1. /\ \A q \in Reqs : q # r => req'[q] = req[q]
        /\ req'[r].pc = "idle" /\ req'[r].tok = None
        /\ sess' = sess /\ nSess' = nSess
    BY DEF IssueToken, Finish, IdleReq, TypeOK
  <1>2. ReqFrame
    BY <1>1 DEF ReqFrame, Issuing
  <1>3. CASE UNCHANGED <<tok, nTok>>
    BY <1>1, <1>2, <1>3, UnchangedFrame, FrameKeeps
  <1>4. CASE ~UNCHANGED <<tok, nTok>>
    <2> DEFINE n == nTok + 1
    <2>1. /\ sess[req[r].sid].state = "live"
          /\ n \in TokenIds
          /\ tok[n].state = "none"
          /\ \A t \in TokenIds : t # n => tok'[t] = tok[t]
          /\ tok'[n].state = "live" /\ tok'[n].sid = req[r].sid
          /\ tok'[n].client = req[r].client /\ tok'[n].parent = req[r].tok
          /\ req[r].pc = "issue"
      BY <1>4 DEF IssueToken, TypeOK, TokenIds
    <2> HIDE DEF n
    <2>2. \A t \in TokenIds : SpentTok(t) => t # n /\ SpentTok(t)'
      BY <2>1 DEF SpentTok
    <2>3. /\ \A t \in TokenIds : tok[t].parent \in TokenIds \cup {None}
          /\ \A q \in Reqs : req[q].tok \in TokenIds \cup {None}
      BY DEF TypeOK, TokRow, ReqRow
    <2>4. UnusedHasNoParent'
      BY <2>1 DEF TokInv, TableInv, UnusedHasNoParent
    <2>5. ParentsSpent'
      <3> SUFFICES ASSUME NEW t \in TokenIds, tok'[t].parent # None
                   PROVE  (SpentTok(tok[t].parent))'
        BY DEF ParentsSpent
      <3>1. tok'[t].parent \in TokenIds /\ SpentTok(tok'[t].parent)
        BY <2>1, <2>3 DEF TokInv, TableInv, ReqInv, ParentsSpent, ReqToken
      <3> QED
        BY <3>1, <2>2 DEF SpentTok
    <2>6. LiveTokBound'
      <3>1. req[r].sid \in SessionIds /\ sess[req[r].sid].client = req[r].client
        BY <2>1 DEF TokInv, ReqInv, ReqSession, Issuing
      <3> QED
        BY <1>1, <2>1, <3>1 DEF TokInv, TableInv, LiveTokBound
    <2>7. ReqSession'
      BY <1>1 DEF TokInv, ReqInv, ReqSession, Issuing
    <2>8. ReqToken'
      BY <1>1, <2>2, <2>3 DEF TokInv, ReqInv, ReqToken, SpentTok
    <2> QED
      BY <2>4, <2>5, <2>6, <2>7, <2>8 DEF TokInv, TableInv, ReqInv
  <1> QED
    BY <1>3, <1>4

\* The token read is bound to a stored session of the same client.
LEMMA RefreshReadTok ==
    ASSUME TypeOK, TypeOK', TokInv, NEW r \in Reqs, NEW t \in TokenIds,
           NEW cl \in Clients, NEW off \in BOOLEAN, RefreshRead(r, t, cl, off)
    PROVE  TokInv'
  <1>1. /\ \A q \in Reqs : q # r => req'[q] = req[q]
        /\ req'[r].pc = "rotate" /\ req'[r].tok = t /\ req'[r].sid = tok[t].sid
        /\ req'[r].client = cl /\ tok[t].client = cl /\ tok[t].state = "live"
    BY DEF RefreshRead, Usable, IdleReq, TypeOK
  <1>2. sess' = sess /\ tok' = tok /\ nSess' = nSess /\ TableFrame
    BY UnchangedFrame DEF RefreshRead
  <1>3. /\ tok[t].sid \in SessionIds /\ tok[t].sid <= nSess
        /\ sess[tok[t].sid].client = cl
    BY <1>1 DEF TokInv, TableInv, LiveTokBound, TypeOK, SessionIds
  <1>4. ReqSession'
    BY <1>1, <1>2, <1>3 DEF TokInv, ReqInv, ReqSession
  <1>5. ReqToken'
    BY <1>1, <1>2 DEF TokInv, ReqInv, ReqToken, SpentTok
  <1> QED
    BY <1>2, <1>4, <1>5, TableFrameKeeps DEF TokInv, ReqInv

\* The update leaves the old token spent before the new one can be stored.
LEMMA RotateTok ==
    ASSUME TypeOK, TypeOK', TokInv, NEW r \in Reqs, Rotate(r)
    PROVE  TokInv'
  <1>1. CASE tok[req[r].tok].state = "live"
    <2>1. /\ RevokeTokens({req[r].tok}) /\ sess' = sess /\ nSess' = nSess
          /\ req[r].pc = "rotate"
          /\ req' = [req EXCEPT ![r].pc = "issue"]
      BY <1>1 DEF Rotate, Goto
    <2>2. TableFrame
      BY <2>1, RevokeFrame
    <2>3. /\ \A q \in Reqs : q # r => req'[q] = req[q]
          /\ req'[r].pc = "issue" /\ req'[r].tok = req[r].tok
          /\ req'[r].sid = req[r].sid /\ req'[r].client = req[r].client
      BY <2>1 DEF TypeOK, ReqRow
    <2>4. req[r].tok \in TokenIds
      BY <2>1 DEF TokInv, ReqInv, ReqToken
    <2>5. (SpentTok(req[r].tok))'
      BY <1>1, <2>1, <2>3, <2>4 DEF RevokeTokens, SpentTok, TypeOK, TokRow
    <2>6. ReqSession'
      BY <2>1, <2>2, <2>3 DEF TokInv, ReqInv, ReqSession, Issuing, TableFrame
    <2>7. \A q \in Reqs : req[q].tok \in TokenIds \cup {None}
      BY DEF TypeOK, ReqRow
    <2>8. ReqToken'
      BY <2>2, <2>3, <2>5, <2>7 DEF TokInv, ReqInv, ReqToken, TableFrame, SpentTok
    <2> QED
      BY <2>2, <2>6, <2>8, TableFrameKeeps DEF TokInv, ReqInv
  <1>2. CASE tok[req[r].tok].state # "live"
    <2>1. TableFrame
      BY <1>2, UnchangedFrame DEF Rotate
    <2>2. ReqFrame
      BY <1>2 DEF Rotate, Finish, ReqFrame, IdleReq, Issuing, TypeOK
    <2> QED
      BY <2>1, <2>2, FrameKeeps
  <1> QED
    BY <1>1, <1>2

\* There is no token at first.
LEMMA TokInit == Init => TokInv
  BY ConstantsAssumption
  DEF Init, TokInv, TableInv, ReqInv, UnusedHasNoParent, ParentsSpent, LiveTokBound,
      ReqSession, ReqToken, NoTokRow, IdleReq, Issuing

\* A request that arrives and takes up neither a session to issue for nor a token.
LEMMA ArriveFrame ==
    ASSUME TypeOK, NEW r \in Reqs, NEW row, row.pc \notin Issuing, row.tok = None,
           req' = [req EXCEPT ![r] = row], UNCHANGED <<sess, tok, nSess>>
    PROVE  TableFrame /\ ReqFrame
  BY UnchangedFrame DEF ReqFrame, TypeOK

\* A request that moves on, inside or outside the issuing part.
LEMMA GotoFrame ==
    ASSUME TypeOK, ReqToken, NEW r \in Reqs, NEW label, NEW V,
           \/ req[r].pc \notin Issuing /\ label \notin Issuing
           \/ /\ req[r].pc \in {"sa_read", "sa_revoke", "sa_delete"}
              /\ label \in {"sa_revoke", "sa_delete", "issue"},
           \/ req' = [req EXCEPT ![r].pc = label]
           \/ req' = [req EXCEPT ![r].pc = label, ![r].victims = V]
    PROVE  ReqFrame
  <1>1. /\ \A q \in Reqs : q # r => req'[q] = req[q]
        /\ req'[r].pc = label /\ req'[r].sid = req[r].sid
        /\ req'[r].client = req[r].client /\ req'[r].tok = req[r].tok
    BY DEF TypeOK, ReqRow
  <1>2. req[r].pc \notin Issuing => req[r].tok = None
    BY DEF ReqToken, Issuing
  <1> QED
    BY <1>1, <1>2 DEF ReqFrame

\* A request that ends knows nothing any more.
LEMMA FinishFrame ==
    ASSUME TypeOK, NEW r \in Reqs, Finish(r)
    PROVE  ReqFrame
  BY DEF Finish, ReqFrame, IdleReq, Issuing, TypeOK

\* Issuing, rotating, revoking and deleting tokens keep TokInv.
LEMMA TokNext == TypeOK /\ TypeOK' /\ TokInv /\ [Next]_vars => TokInv'
  <1> SUFFICES ASSUME TypeOK, TypeOK', TokInv, [Next]_vars PROVE TokInv'
    OBVIOUS
  <1>a. ReqToken /\ LiveTokBound
    BY DEF TokInv, TableInv, ReqInv
  <1>b. req' = req => ReqFrame
    BY DEF ReqFrame
  <1>1. ASSUME NEW u \in Users, NEW cl \in Clients, NEW off \in BOOLEAN, IssueCode(u, cl, off)
        PROVE  TokInv'
    BY <1>1, <1>b, UnchangedFrame, FrameKeeps DEF IssueCode
  <1>2. ASSUME NEW r \in Reqs, Arrive(r) PROVE TokInv'
    <2>1. ASSUME NEW c \in CodeIds, NEW cl \in Clients, NEW ok \in BOOLEAN,
                 CodeClaim(r, c, cl, ok)
          PROVE  TokInv'
      <3> DEFINE row == [IdleReq EXCEPT !.pc = "limit", !.code = c, !.user = codes[c].user,
                                         !.client = cl, !.offline = codes[c].offline]
      <3>1. row.pc = "limit" /\ row.tok = None
        BY DEF IdleReq
      <3>2. req' = req \/ req' = [req EXCEPT ![r] = row]
        BY <2>1 DEF CodeClaim
      <3>3. TableFrame /\ UNCHANGED <<sess, tok, nSess>>
        BY <2>1, UnchangedFrame DEF CodeClaim
      <3> HIDE DEF row
      <3>4. ReqFrame
        BY <1>b, <3>1, <3>2, <3>3, ArriveFrame DEF Issuing
      <3> QED
        BY <3>3, <3>4, FrameKeeps
    <2>2. ASSUME NEW u \in Users, NEW cl \in Clients, NEW off \in BOOLEAN,
                 CredentialGrant(r, u, cl, off)
          PROVE  TokInv'
      <3> DEFINE row == [IdleReq EXCEPT !.pc = "limit", !.user = u, !.client = cl,
                                         !.offline = off]
      <3>1. row.pc \notin Issuing /\ row.tok = None
        BY DEF IdleReq, Issuing
      <3> QED
        BY <2>2, <3>1, ArriveFrame, FrameKeeps DEF CredentialGrant
    <2>3. ASSUME NEW u \in ServiceUsers, NEW cl \in Clients, NEW off \in BOOLEAN,
                 ServiceGrant(r, u, cl, off)
          PROVE  TokInv'
      <3> DEFINE row == [IdleReq EXCEPT !.pc = "sa_create", !.user = u, !.client = cl,
                                         !.offline = off]
      <3>1. row.pc \notin Issuing /\ row.tok = None
        BY DEF IdleReq, Issuing
      <3> QED
        BY <2>3, <3>1, ArriveFrame, FrameKeeps DEF ServiceGrant
    <2>4. ASSUME NEW t \in TokenIds, NEW cl \in Clients, NEW off \in BOOLEAN,
                 RefreshRead(r, t, cl, off)
          PROVE  TokInv'
      BY <2>4, RefreshReadTok
    <2>5. ASSUME NEW t \in TokenIds, RefreshReuse(r, t) PROVE TokInv'
      <3> DEFINE row == [IdleReq EXCEPT !.pc = "reuse", !.sid = tok[t].sid]
      <3>1. row.pc \notin Issuing /\ row.tok = None
        BY DEF IdleReq, Issuing
      <3> QED
        BY <2>5, <3>1, ArriveFrame, FrameKeeps DEF RefreshReuse
    <2>6. ASSUME NEW s \in SessionIds, LogoutRead(r, s) PROVE TokInv'
      <3> DEFINE row == [IdleReq EXCEPT !.pc = "end_revoke", !.sid = s]
      <3>1. row.pc \notin Issuing /\ row.tok = None
        BY DEF IdleReq, Issuing
      <3> QED
        BY <2>6, <3>1, ArriveFrame, FrameKeeps DEF LogoutRead
    <2>7. ASSUME NEW s \in SessionIds, AdminRevokeRead(r, s) PROVE TokInv'
      <3> DEFINE row == [IdleReq EXCEPT !.pc = "adm_revoke", !.sid = s]
      <3>1. row.pc \notin Issuing /\ row.tok = None
        BY DEF IdleReq, Issuing
      <3> QED
        BY <2>7, <3>1, ArriveFrame, FrameKeeps DEF AdminRevokeRead
    <2>8. ASSUME NEW u \in Accounts, RevokeAllRead(r, u) PROVE TokInv'
      <3> DEFINE row == [IdleReq EXCEPT !.pc = "all_txn", !.user = u,
                                         !.victims = LiveSessions(u)]
      <3>1. row.pc \notin Issuing /\ row.tok = None
        BY DEF IdleReq, Issuing
      <3> QED
        BY <2>8, <3>1, ArriveFrame, FrameKeeps DEF RevokeAllRead
    <2> QED
      BY <1>2, <2>1, <2>2, <2>3, <2>4, <2>5, <2>6, <2>7, <2>8 DEF Arrive
  <1>3. ASSUME NEW r \in Reqs, GrantStep(r) PROVE TokInv'
    <2>1. CASE LimitRead(r)
      <3> DEFINE V == Victims(Active(req[r].user))
      <3>1. /\ req[r].pc = "limit" /\ UNCHANGED <<sess, tok, nSess>>
            /\ \/ req' = [req EXCEPT ![r].pc = "evict_revoke", ![r].victims = V]
               \/ req' = [req EXCEPT ![r].pc = "create"]
        BY <2>1 DEF LimitRead, Goto
      <3> HIDE DEF V
      <3>2. {"limit", "evict_revoke", "create"} \cap Issuing = {}
        BY DEF Issuing
      <3>3. ReqFrame
        BY <1>a, <3>1, <3>2, GotoFrame
      <3> QED
        BY <3>1, <3>3, UnchangedFrame, FrameKeeps
    <2>2. CASE EvictRevoke(r)
      <3>1. ReqFrame
        BY <1>a, <2>2, GotoFrame DEF EvictRevoke, Goto, Issuing
      <3> QED
        BY <2>2, <3>1, RevokeFrame, FrameKeeps DEF EvictRevoke
    <2>3. CASE EvictDelete(r)
      <3>1. ReqFrame
        BY <1>a, <2>3, GotoFrame DEF EvictDelete, Issuing
      <3> QED
        BY <1>a, <2>3, <3>1, DeleteFrame, FrameKeeps DEF EvictDelete
    <2>4. CASE CreateSession(r)
      BY <2>4, CreateSessionTok
    <2>5. CASE ServiceTrimRead(r)
      <3> DEFINE S   == LiveSessions(req[r].user)
                 old == {s \in S : Cardinality({x \in S : x >= s}) > ServiceCap}
      <3>1. /\ req[r].pc = "sa_read" /\ UNCHANGED <<sess, tok, nSess>>
            /\ \/ req' = [req EXCEPT ![r].pc = "sa_revoke", ![r].victims = old]
               \/ req' = [req EXCEPT ![r].pc = "issue"]
        BY <2>5 DEF ServiceTrimRead, Goto
      <3> HIDE DEF old
      <3>2. ReqFrame
        BY <1>a, <3>1, GotoFrame
      <3> QED
        BY <3>1, <3>2, UnchangedFrame, FrameKeeps
    <2>6. CASE ServiceTrimRevoke(r)
      <3>1. ReqFrame
        BY <1>a, <2>6, GotoFrame DEF ServiceTrimRevoke, Goto
      <3> QED
        BY <2>6, <3>1, RevokeFrame, FrameKeeps DEF ServiceTrimRevoke
    <2>7. CASE ServiceTrimDelete(r)
      <3>1. ReqFrame
        BY <1>a, <2>7, GotoFrame DEF ServiceTrimDelete
      <3> QED
        BY <1>a, <2>7, <3>1, DeleteFrame, FrameKeeps DEF ServiceTrimDelete
    <2>8. CASE IssueToken(r)
      BY <2>8, IssueTokenTok
    <2>9. CASE Rotate(r)
      BY <2>9, RotateTok
    <2>10. CASE ReuseRevoke(r)
      BY <2>10, FinishFrame, RevokeFrame, FrameKeeps DEF ReuseRevoke
    <2> QED
      BY <1>3, <2>1, <2>2, <2>3, <2>4, <2>5, <2>6, <2>7, <2>8, <2>9, <2>10 DEF GrantStep
  <1>4. ASSUME NEW r \in Reqs, EndStep(r) PROVE TokInv'
    <2>1. CASE EndRevoke(r)
      <3>1. ReqFrame
        BY <1>a, <2>1, GotoFrame DEF EndRevoke, Goto, Issuing
      <3> QED
        BY <2>1, <3>1, RevokeFrame, FrameKeeps DEF EndRevoke
    <2>2. CASE EndDelete(r)
      BY <1>a, <2>2, FinishFrame, DeleteFrame, FrameKeeps DEF EndDelete
    <2>3. CASE AdminRevokeTokens(r)
      <3>1. ReqFrame
        BY <1>a, <2>3, GotoFrame DEF AdminRevokeTokens, Goto, Issuing
      <3> QED
        BY <2>3, <3>1, RevokeFrame, FrameKeeps DEF AdminRevokeTokens
    <2>4. CASE AdminRevokeDelete(r)
      BY <1>a, <2>4, FinishFrame, DeleteFrame, FrameKeeps DEF AdminRevokeDelete
    <2>5. CASE RevokeAllTxn(r)
      BY <1>a, <2>5, FinishFrame, DeleteFrame, FrameKeeps DEF RevokeAllTxn
    <2> QED
      BY <1>4, <2>1, <2>2, <2>3, <2>4, <2>5 DEF EndStep
  <1>5. ASSUME NEW r \in Reqs, Abort(r) PROVE TokInv'
    BY <1>5, FinishFrame, UnchangedFrame, FrameKeeps DEF Abort
  <1>6. ASSUME NEW t \in TokenIds, RevokeToken(t) PROVE TokInv'
    BY <1>6, <1>b, RevokeFrame, FrameKeeps DEF RevokeToken
  <1>7. CASE CleanupSessions
    BY <1>a, <1>b, <1>7, DeleteFrame, FrameKeeps DEF CleanupSessions
  <1>8. CASE CleanupTokens
    <2>1. \A t \in TokenIds : /\ tok'[t] = tok[t] \/ tok'[t] = DeletedTok(t)
                              /\ DeletedTok(t).state = "deleted"
      BY <1>8, DeletedRows DEF CleanupTokens, TypeOK
    <2>2. \A t \in TokenIds : DeletedTok(t).parent = tok[t].parent
      BY DEF DeletedTok, NoTokRow
    <2>3. TableFrame
      BY <1>8, <2>1, <2>2 DEF TableFrame, CleanupTokens, SpentTok
    <2> QED
      BY <1>b, <1>8, <2>3, FrameKeeps DEF CleanupTokens
  <1>9. CASE CleanupCodes
    BY <1>b, <1>9, UnchangedFrame, FrameKeeps DEF CleanupCodes
  <1>10. CASE CleanupExpiredCodes
    BY <1>b, <1>10, UnchangedFrame, FrameKeeps DEF CleanupExpiredCodes
  <1>11. CASE Tick
    BY <1>b, <1>11, UnchangedFrame, FrameKeeps DEF Tick
  <1>12. CASE UNCHANGED vars
    BY <1>b, <1>12, UnchangedFrame, FrameKeeps DEF vars
  <1> QED
    BY <1>1, <1>2, <1>3, <1>4, <1>5, <1>6, <1>7, <1>8, <1>9, <1>10, <1>11, <1>12
    DEF Next, Cleanup

\* TypeOK and TokInv together are inductive.
LEMMA TokInvariant == Spec => [](TypeOK /\ TokInv)
  <1>1. Init => TypeOK /\ TokInv
    BY TypeInit, TokInit
  <1>2. TypeOK /\ TokInv /\ [Next]_vars => (TypeOK /\ TokInv)'
    BY TypeNext, TokNext
  <1> QED
    BY <1>1, <1>2, PTL DEF Spec

(* A stored refresh token always belongs to a stored session: the cascade   *)
(* of session deletes and the foreign key of refreshToken.create leave no   *)
(* orphan, whichever logout, eviction or cleanup runs beside a grant.       *)
THEOREM NoOrphanToken == Spec => []TokenNeedsSession
  <1>1. TypeOK /\ TokInv => TokenNeedsSession
    BY ConstantsAssumption
    DEF TokInv, TableInv, LiveTokBound, TokenNeedsSession, SessionIds, None
  <1> QED
    BY <1>1, TokInvariant, PTL

(* Once a successor of a refresh token is stored the token itself is        *)
(* revoked or deleted, also when two rotations of it race.                  *)
THEOREM RotatedTokenSpent == Spec => []ParentSpent
  <1>1. TypeOK /\ TokInv => ParentSpent
    BY DEF TokInv, TableInv, ParentsSpent, SpentTok, ParentSpent
  <1> QED
    BY <1>1, TokInvariant, PTL

(* Every stored token carries the client its session was created for:       *)
(* handleRefreshTokenGrant's clientId comparison, made before the rotation, *)
(* still holds when the new token is stored.                                *)
THEOREM TokensStayWithClient == Spec => []ClientBinding
  <1>1. TypeOK /\ TokInv => ClientBinding
    BY DEF TokInv, TableInv, LiveTokBound, ClientBinding
  <1> QED
    BY <1>1, TokInvariant, PTL

-----------------------------------------------------------------------------
(* Limits that are read before they are enforced.                           *)
(*                                                                          *)
(* A request that has read the sessions of a user and not yet created its   *)
(* own is pending.  A bound on the sessions alone is not inductive: when a  *)
(* pending request creates, nothing says what its stale read still          *)
(* guarantees.  The argument orders the pending requests by their reads.    *)
(* At its read a request leaves at most max - 1 sessions standing; until    *)
(* the next creation of a later reader, only those that had read before it  *)
(* can add one, each of them once.  D[q] are the pending requests whose     *)
(* read was not later than q's; a creation by a later reader x renews q's   *)
(* bound because D[q] is contained in D[x] without x.                       *)

(* The oldest of S that have to go for one more to stay within max.         *)
OldestOf(S, max) == {s \in S : Cardinality({x \in S : x <= s}) <= Cardinality(S) - max + 1}

(* The bound M for active sessions A, pending requests P and their victims V.*)
ReadOrder(M, A, P, V, D) ==
    \A q \in P :
        /\ q \in D[q] /\ D[q] \subseteq P
        /\ Cardinality(A \ V[q]) + Cardinality(D[q]) <= M
        /\ \A x \in P : x \in D[q] \/ D[q] \subseteq D[x] \ {x}

WithinBound(R, M, A, P, V) ==
    /\ Cardinality(A) <= M
    /\ \E D \in [R -> SUBSET R] : ReadOrder(M, A, P, V, D)

\* Cardinality is monotone.
LEMMA Smaller ==
    ASSUME NEW S, IsFiniteSet(S), NEW T, T \subseteq S
    PROVE  /\ IsFiniteSet(T)
           /\ Cardinality(T) \in Nat /\ Cardinality(S) \in Nat
           /\ Cardinality(T) <= Cardinality(S)
  BY FS_Subset, FS_CardinalityType

\* Every non-empty set of session ids has an oldest one.
LEMMA OldestExists ==
    ASSUME NEW T, T \subseteq Nat, T # {}
    PROVE  \E m \in T : \A y \in T : m <= y
  <1> DEFINE R == {ss \in Nat \X Nat : ss[1] < ss[2]}
  <1>1. IsWellFoundedOn(R, Nat)
    BY NatLessThanWellFounded, Zenon DEF OpToRel
  <1>2. \A y, m \in T : y < m => <<y, m>> \in R
    OBVIOUS
  <1> HIDE DEF R
  <1>3. PICK m \in T : \A y \in T : ~(<<y, m>> \in R)
    BY <1>1, WFMin
  <1>4. \A y \in T : ~(y < m)
    BY <1>2, <1>3
  <1> QED
    BY <1>4

(* Evicting length - max + 1 sessions leaves room for the new one: at most  *)
(* max - 1 stay.                                                            *)
LEMMA OldestMakeRoom ==
    ASSUME NEW S, S \subseteq Nat, IsFiniteSet(S), NEW max \in Nat, max > 0
    PROVE  Cardinality(S \ OldestOf(S, max)) <= max - 1
  <1> DEFINE T     == S \ OldestOf(S, max)
             Upto(s) == {x \in S : x <= s}
             From(s) == {x \in S : x > s}
  <1>1. /\ IsFiniteSet(S) /\ Cardinality(S) \in Nat /\ S \subseteq Nat
    BY FS_CardinalityType
  <1>2. CASE T = {}
    BY <1>1, <1>2, FS_EmptySet
  <1>3. CASE T # {}
    <2>1. PICK m \in T : \A y \in T : m <= y
      BY <1>1, <1>3, OldestExists
    <2>0. m \in S /\ m \in Nat /\ \A x \in S : x \in Nat
      BY <1>1, <2>1
    <2>2. /\ IsFiniteSet(Upto(m)) /\ IsFiniteSet(From(m))
          /\ Cardinality(Upto(m)) \in Nat /\ Cardinality(From(m)) \in Nat
      BY <1>1, Smaller
    <2>3. S \ Upto(m) = From(m) /\ S \cap Upto(m) = Upto(m)
      <3>1. \A x \in S : x > m <=> ~(x <= m)
        BY <2>0
      <3> QED
        BY <3>1, Zenon
    <2>4. Cardinality(From(m)) = Cardinality(S) - Cardinality(S \cap Upto(m))
      BY <1>1, <2>2, <2>3, FS_Difference
    <2>5. Cardinality(From(m)) = Cardinality(S) - Cardinality(Upto(m))
      BY <2>3, <2>4
    <2>6. ~(Cardinality(Upto(m)) <= Cardinality(S) - max + 1)
      BY <2>1 DEF OldestOf
    <2>7. T \subseteq From(m) \cup {m}
      <3>1. ASSUME NEW y \in T PROVE y \in From(m) \cup {m}
        <4>1. y \in S /\ y \in Nat /\ m <= y
          BY <2>0, <2>1, <3>1
        <4> QED
          BY <2>0, <4>1
      <3> QED
        BY <3>1
    <2>8. /\ IsFiniteSet(From(m) \cup {m})
          /\ Cardinality(From(m) \cup {m}) <= Cardinality(From(m)) + 1
      <3> DEFINE F == From(m)
      <3>1. IsFiniteSet(F) /\ Cardinality(F) \in Nat
        BY <2>2
      <3> HIDE DEF F
      <3>2. /\ IsFiniteSet(F \cup {m})
            /\ Cardinality(F \cup {m}) = IF m \in F THEN Cardinality(F) ELSE Cardinality(F) + 1
        BY <3>1, FS_AddElement
      <3>3. IsFiniteSet(F \cup {m}) /\ Cardinality(F \cup {m}) <= Cardinality(F) + 1
        BY <3>1, <3>2
      <3> QED
        BY <3>3 DEF F
    <2>9. Cardinality(T) <= Cardinality(From(m) \cup {m}) /\ Cardinality(T) \in Nat
          /\ Cardinality(From(m) \cup {m}) \in Nat
      BY <2>7, <2>8, Smaller
    <2> QED
      BY <1>1, <2>2, <2>5, <2>6, <2>8, <2>9
  <1> QED
    BY <1>2, <1>3

(* Fewer sessions, fewer pending requests: the bound stays.                 *)
LEMMA BoundShrinks ==
    ASSUME NEW R, IsFiniteSet(R), NEW M \in Int,
           NEW A, NEW B, NEW P, NEW Q, NEW V, NEW W,
           IsFiniteSet(A), B \subseteq A, P \subseteq R, Q \subseteq P,
           \A q \in Q : B \ W[q] \subseteq A \ V[q],
           WithinBound(R, M, A, P, V)
    PROVE  WithinBound(R, M, B, Q, W)
  <1>1. PICK D \in [R -> SUBSET R] : ReadOrder(M, A, P, V, D)
    BY DEF WithinBound
  <1> DEFINE E == [q \in R |-> D[q] \cap Q]
  <1>2. Cardinality(B) <= M
    <2>1. Cardinality(B) \in Nat /\ Cardinality(A) \in Nat /\ Cardinality(B) <= Cardinality(A)
      BY Smaller
    <2> QED
      BY <2>1 DEF WithinBound
  <1>3. ASSUME NEW q \in Q
        PROVE  /\ q \in E[q] /\ E[q] \subseteq Q
               /\ Cardinality(B \ W[q]) + Cardinality(E[q]) <= M
               /\ \A x \in Q : x \in E[q] \/ E[q] \subseteq E[x] \ {x}
    <2>1. /\ q \in D[q] /\ D[q] \subseteq R
          /\ Cardinality(A \ V[q]) + Cardinality(D[q]) <= M
          /\ \A x \in Q : x \in D[q] \/ D[q] \subseteq D[x] \ {x}
      BY <1>1, <1>3 DEF ReadOrder
    <2>2. IsFiniteSet(A \ V[q]) /\ IsFiniteSet(D[q])
      BY <2>1, Smaller
    <2>3. /\ Cardinality(B \ W[q]) \in Nat /\ Cardinality(A \ V[q]) \in Nat
          /\ Cardinality(B \ W[q]) <= Cardinality(A \ V[q])
      BY <2>2, Smaller
    <2>4. E[q] = D[q] \cap Q
      BY <1>3
    <2>5. /\ Cardinality(E[q]) \in Nat /\ Cardinality(D[q]) \in Nat
          /\ Cardinality(E[q]) <= Cardinality(D[q])
      BY <2>2, <2>4, Smaller
    <2>6. \A x \in Q : x \in E[q] \/ E[q] \subseteq E[x] \ {x}
      BY <2>1, <2>4
    <2> QED
      BY <1>3, <2>1, <2>3, <2>4, <2>5, <2>6
  <1>4. E \in [R -> SUBSET R]
    OBVIOUS
  <1>5. ReadOrder(M, B, Q, W, E)
    BY <1>3 DEF ReadOrder
  <1> QED
    BY <1>2, <1>4, <1>5 DEF WithinBound

(* A read: the request becomes pending after all others, and at most        *)
(* max - 1 sessions are not among its victims.                              *)
LEMMA BoundRead ==
    ASSUME NEW R, IsFiniteSet(R), NEW M \in Int,
           NEW A, NEW P, NEW V, NEW W, NEW r \in R,
           IsFiniteSet(A), P \subseteq R, r \notin P,
           \A q \in P : W[q] = V[q],
           Cardinality(A \ W[r]) + Cardinality(R) <= M,
           WithinBound(R, M, A, P, V)
    PROVE  WithinBound(R, M, A, P \cup {r}, W)
  <1>1. PICK D \in [R -> SUBSET R] : ReadOrder(M, A, P, V, D)
    BY DEF WithinBound
  <1> DEFINE Q == P \cup {r}
             E == [D EXCEPT ![r] = Q]
  <1>2. E \in [R -> SUBSET R] /\ E[r] = Q /\ \A q \in P : E[q] = D[q]
    OBVIOUS
  <1>3. Cardinality(A \ W[r]) + Cardinality(Q) <= M
    <2>1. /\ Cardinality(Q) <= Cardinality(R) /\ Cardinality(Q) \in Nat
          /\ Cardinality(R) \in Nat
      BY Smaller
    <2>2. Cardinality(A \ W[r]) \in Nat
      BY Smaller
    <2> QED
      BY <2>1, <2>2
  <1>4. ASSUME NEW q \in Q
        PROVE  /\ q \in E[q] /\ E[q] \subseteq Q
               /\ Cardinality(A \ W[q]) + Cardinality(E[q]) <= M
               /\ \A x \in Q : x \in E[q] \/ E[q] \subseteq E[x] \ {x}
    <2>1. CASE q = r
      BY <1>2, <1>3, <2>1
    <2>2. CASE q \in P
      <3>1. /\ q \in D[q] /\ D[q] \subseteq P
            /\ Cardinality(A \ V[q]) + Cardinality(D[q]) <= M
            /\ \A x \in P : x \in D[q] \/ D[q] \subseteq D[x] \ {x}
        BY <1>1, <2>2 DEF ReadOrder
      <3>2. E[q] = D[q] /\ W[q] = V[q]
        BY <1>2, <2>2
      <3>3. ASSUME NEW x \in Q PROVE x \in E[q] \/ E[q] \subseteq E[x] \ {x}
        <4>1. CASE x = r
          BY <1>2, <3>1, <3>2, <4>1
        <4>2. CASE x \in P
          BY <1>2, <3>1, <3>2, <4>2
        <4> QED
          BY <4>1, <4>2
      <3> QED
        BY <3>1, <3>2, <3>3
    <2> QED
      BY <2>1, <2>2
  <1>5. ReadOrder(M, A, Q, W, E)
    BY <1>4 DEF ReadOrder
  <1> QED
    BY <1>2, <1>5 DEF WithinBound

(* A pending request whose victims are gone creates its session.            *)
LEMMA BoundCreate ==
    ASSUME NEW R, IsFiniteSet(R), NEW M \in Int,
           NEW A, NEW P, NEW V, NEW r \in P, NEW n,
           IsFiniteSet(A), P \subseteq R, V[r] = {},
           WithinBound(R, M, A, P, V)
    PROVE  WithinBound(R, M, A \cup {n}, P \ {r}, V)
  <1>1. PICK D \in [R -> SUBSET R] : ReadOrder(M, A, P, V, D)
    BY DEF WithinBound
  <1> DEFINE B == A \cup {n}
             Q == P \ {r}
             E == [q \in R |-> D[q] \ {r}]
  <1>2. ASSUME NEW S, S \subseteq A
        PROVE  /\ IsFiniteSet(S) /\ Cardinality(S) \in Nat
               /\ IsFiniteSet(S \cup {n}) /\ Cardinality(S \cup {n}) \in Nat
               /\ Cardinality(S \cup {n}) <= Cardinality(S) + 1
    <2>1. IsFiniteSet(S) /\ Cardinality(S) \in Nat
      BY <1>2, Smaller
    <2>2. /\ IsFiniteSet(S \cup {n})
          /\ Cardinality(S \cup {n}) = IF n \in S THEN Cardinality(S) ELSE Cardinality(S) + 1
      BY <2>1, FS_AddElement
    <2> QED
      BY <2>1, <2>2
  <1>3. ASSUME NEW S, S \subseteq R
        PROVE  /\ IsFiniteSet(S) /\ Cardinality(S) \in Nat
               /\ Cardinality(S \ {r}) \in Nat
               /\ Cardinality(S \ {r}) <= Cardinality(S)
               /\ r \in S => Cardinality(S \ {r}) = Cardinality(S) - 1
    <2>1. IsFiniteSet(S) /\ Cardinality(S) \in Nat
      BY <1>3, Smaller
    <2>2. Cardinality(S \ {r}) \in Nat /\ Cardinality(S \ {r}) <= Cardinality(S)
      BY <2>1, Smaller
    <2>3. r \in S => Cardinality(S \ {r}) = Cardinality(S) - 1
      BY <2>1, FS_RemoveElement
    <2> QED
      BY <2>1, <2>2, <2>3
  <1>4. /\ r \in D[r] /\ D[r] \subseteq R
        /\ Cardinality(A) + Cardinality(D[r]) <= M
    <2>1. /\ r \in D[r] /\ D[r] \subseteq P
          /\ Cardinality(A \ V[r]) + Cardinality(D[r]) <= M
      BY <1>1 DEF ReadOrder
    <2>2. A \ V[r] = A
      OBVIOUS
    <2> QED
      BY <2>1, <2>2
  <1>5. Cardinality(D[r] \ {r}) = Cardinality(D[r]) - 1 /\ Cardinality(D[r] \ {r}) \in Nat
        /\ Cardinality(D[r]) \in Nat
    BY <1>3, <1>4
  <1>6. /\ Cardinality(A) \in Nat /\ Cardinality(B) \in Nat
        /\ Cardinality(B) <= Cardinality(A) + 1
    BY <1>2
  <1>7. Cardinality(B) + Cardinality(D[r] \ {r}) <= M
    BY <1>4, <1>5, <1>6
  <1>8. ASSUME NEW q \in Q
        PROVE  /\ q \in E[q] /\ E[q] \subseteq Q
               /\ Cardinality(B \ V[q]) + Cardinality(E[q]) <= M
               /\ \A x \in Q : x \in E[q] \/ E[q] \subseteq E[x] \ {x}
    <2>1. /\ q \in D[q] /\ D[q] \subseteq P /\ D[q] \subseteq R
          /\ Cardinality(A \ V[q]) + Cardinality(D[q]) <= M
          /\ \A x \in P : x \in D[q] \/ D[q] \subseteq D[x] \ {x}
      BY <1>1, <1>8 DEF ReadOrder
    <2>2. E[q] = D[q] \ {r} /\ \A x \in Q : E[x] = D[x] \ {r}
      BY <1>8
    <2>3. \A x \in Q : x \in E[q] \/ E[q] \subseteq E[x] \ {x}
      BY <2>1, <2>2
    <2>4. Cardinality(B \ V[q]) + Cardinality(D[q] \ {r}) <= M
      <3>1. CASE r \in D[q]
        <4>1. B \ V[q] \subseteq (A \ V[q]) \cup {n}
          OBVIOUS
        <4>2. /\ IsFiniteSet((A \ V[q]) \cup {n})
              /\ Cardinality((A \ V[q]) \cup {n}) <= Cardinality(A \ V[q]) + 1
              /\ Cardinality(A \ V[q]) \in Nat
          <5>1. A \ V[q] \subseteq A
            OBVIOUS
          <5> QED
            BY <1>2, <5>1
        <4>3. /\ Cardinality(B \ V[q]) <= Cardinality((A \ V[q]) \cup {n})
              /\ Cardinality(B \ V[q]) \in Nat
              /\ Cardinality((A \ V[q]) \cup {n}) \in Nat
          BY <4>1, <4>2, Smaller
        <4>4. Cardinality(D[q] \ {r}) = Cardinality(D[q]) - 1 /\ Cardinality(D[q]) \in Nat
          BY <1>3, <2>1, <3>1
        <4> QED
          BY <2>1, <4>2, <4>3, <4>4
      <3>2. CASE r \notin D[q]
        <4>1. D[q] \subseteq D[r] \ {r} /\ D[q] \ {r} \subseteq D[r] \ {r}
          BY <2>1, <3>2
        <4>2. IsFiniteSet(D[r] \ {r})
          BY <1>3, <1>4, Smaller
        <4>3. /\ Cardinality(D[q] \ {r}) <= Cardinality(D[r] \ {r})
              /\ Cardinality(D[q] \ {r}) \in Nat
          BY <4>1, <4>2, Smaller
        <4>4. /\ Cardinality(B \ V[q]) <= Cardinality(B)
              /\ Cardinality(B \ V[q]) \in Nat
          BY <1>2, Smaller
        <4> QED
          BY <1>5, <1>6, <1>7, <4>3, <4>4
      <3> QED
        BY <3>1, <3>2
    <2> QED
      BY <1>8, <2>1, <2>2, <2>3, <2>4
  <1>9. E \in [R -> SUBSET R]
    OBVIOUS
  <1>10. ReadOrder(M, B, Q, V, E)
    BY <1>8 DEF ReadOrder
  <1>11. Cardinality(B) <= M
    BY <1>5, <1>6, <1>7
  <1> QED
    BY <1>9, <1>10, <1>11 DEF WithinBound

-----------------------------------------------------------------------------
(* The session limit: OvershootBounded rests on the bound above.            *)

Pending     == {"evict_revoke", "evict_delete", "create"}
Evicting    == {"evict_revoke", "evict_delete", "sa_revoke", "sa_delete"}
EmptyHanded == {"limit", "create", "sa_create", "sa_read"}
ServicePC   == {"sa_create", "sa_read", "sa_revoke", "sa_delete"}

PendingOf(u) == {q \in Reqs : req[q].user = u /\ req[q].pc \in Pending}
VictimsOf    == [q \in Reqs |-> req[q].victims]
MostSessions == MaxSessionsPerUser + Cardinality(Reqs) - 1

WithinLimit(A, P, V) == WithinBound(Reqs, MostSessions, A, P, V)

\* What a request knows of its victims.
LimitReq(r) ==
    /\ req[r].pc \in EmptyHanded => req[r].victims = {}
    /\ req[r].pc \in ServicePC => req[r].user \in ServiceUsers
    /\ req[r].pc \in Evicting =>
         \A v \in req[r].victims :
             /\ v <= nSess
             /\ \A s \in Active(req[r].user) : s < v => s \in req[r].victims

LimitInv ==
    /\ \A r \in Reqs : LimitReq(r)
    /\ MaxSessionsPerUser > 0 =>
         \A u \in Users : WithinLimit(Active(u), PendingOf(u), VictimsOf)

\* The sets counted are finite, and the largest count is a natural number.
LEMMA LimitTypes ==
    /\ IsFiniteSet(SessionIds) /\ SessionIds \subseteq Nat
    /\ IsFiniteSet(Reqs) /\ Cardinality(Reqs) \in Nat
    /\ MostSessions \in Int
  <1>1. IsFiniteSet(SessionIds) /\ SessionIds \subseteq Nat
    BY ConstantsAssumption, FS_Interval DEF SessionIds
  <1>2. IsFiniteSet(Reqs) /\ Cardinality(Reqs) \in Nat
    BY ConstantsAssumption, FS_CardinalityType
  <1> QED
    BY <1>1, <1>2, ConstantsAssumption DEF MostSessions

(* Evicting length - max + 1 sessions leaves room for the new one.          *)
LEMMA VictimsMakeRoom ==
    ASSUME NEW S, S \subseteq SessionIds, MaxSessionsPerUser > 0
    PROVE  Cardinality(S \ Victims(S)) <= MaxSessionsPerUser - 1
  <1>1. S \subseteq Nat /\ IsFiniteSet(S) /\ MaxSessionsPerUser \in Nat
    BY LimitTypes, Smaller, ConstantsAssumption
  <1>2. Victims(S) = OldestOf(S, MaxSessionsPerUser)
    BY DEF Victims, OldestOf
  <1> QED
    BY <1>1, <1>2, OldestMakeRoom

(* Fewer sessions, fewer pending requests: the bound stays.                 *)
LEMMA WithinLimitShrinks ==
    ASSUME NEW A, NEW B, NEW P, NEW Q, NEW V, NEW W,
           A \subseteq SessionIds, B \subseteq A, P \subseteq Reqs, Q \subseteq P,
           \A q \in Q : B \ W[q] \subseteq A \ V[q],
           WithinLimit(A, P, V)
    PROVE  WithinLimit(B, Q, W)
  <1>1. IsFiniteSet(A)
    BY LimitTypes, Smaller
  <1>2. WithinBound(Reqs, MostSessions, A, P, V)
    BY DEF WithinLimit
  <1>3. IsFiniteSet(Reqs) /\ MostSessions \in Int
    BY LimitTypes
  <1>4. WithinBound(Reqs, MostSessions, B, Q, W)
    BY <1>1, <1>2, <1>3, BoundShrinks, Zenon
  <1> QED
    BY <1>4 DEF WithinLimit

(* A read: the request becomes pending after all others, and at most        *)
(* max - 1 sessions are not among its victims.                              *)
LEMMA WithinLimitRead ==
    ASSUME NEW A, NEW P, NEW V, NEW W, NEW r \in Reqs,
           A \subseteq SessionIds, P \subseteq Reqs, r \notin P,
           \A q \in P : W[q] = V[q],
           Cardinality(A \ W[r]) <= MaxSessionsPerUser - 1,
           WithinLimit(A, P, V)
    PROVE  WithinLimit(A, P \cup {r}, W)
  <1>1. IsFiniteSet(A)
    BY LimitTypes, Smaller
  <1>2. Cardinality(A \ W[r]) + Cardinality(Reqs) <= MostSessions
    <2>1. Cardinality(A \ W[r]) \in Nat
      BY <1>1, Smaller
    <2> QED
      BY <2>1, LimitTypes, ConstantsAssumption DEF MostSessions
  <1> QED
    BY <1>1, <1>2, LimitTypes, BoundRead DEF WithinLimit

(* A pending request whose victims are gone creates its session.            *)
LEMMA WithinLimitCreate ==
    ASSUME NEW A, NEW P, NEW V, NEW r \in P, NEW n \in SessionIds,
           A \subseteq SessionIds, P \subseteq Reqs, V[r] = {},
           WithinLimit(A, P, V)
    PROVE  WithinLimit(A \cup {n}, P \ {r}, V)
  <1>1. IsFiniteSet(A)
    BY LimitTypes, Smaller
  <1> QED
    BY <1>1, LimitTypes, BoundCreate DEF WithinLimit

(* What a step does to the sessions unless it creates one, ...              *)
SessFrame ==
    /\ nSess' = nSess /\ now <= now'
    /\ \A s \in SessionIds : sess'[s].state = "live" => sess'[s] = sess[s]

(* ... and to a request unless it reads sessions to evict: nothing, take up *)
(* or end something else, go on evicting, or be done with it.               *)
LimitReqStep(r) ==
    \/ req'[r] = req[r]
    \/ /\ req'[r].pc \notin Pending \cup Evicting
       /\ req'[r].pc \in EmptyHanded => req'[r].victims = {}
       /\ req'[r].pc \in ServicePC => req'[r].user \in ServiceUsers
    \/ /\ req'[r].user = req[r].user /\ req'[r].victims = req[r].victims
       /\ <<req[r].pc, req'[r].pc>> \in {<<"evict_revoke", "evict_delete">>,
                                         <<"sa_revoke", "sa_delete">>}
    \/ /\ req'[r].user = req[r].user /\ req'[r].victims = {}
       /\ req[r].pc = "evict_delete" /\ req'[r].pc = "create"
       /\ \A s \in req[r].victims : sess'[s].state # "live"

\* Without a new session the active ones only become fewer.
LEMMA ActiveShrinks ==
    ASSUME TypeOK, TypeOK', SessFrame, NEW u
    PROVE  Active(u)' \subseteq Active(u)
  <1>1. \A s \in SessionIds : sess[s] \in SessRow
    BY DEF TypeOK
  <1> QED
    BY <1>1 DEF TypeOK, SessFrame, Active, LiveSessions, SessRow

\* What a request knows of its victims survives such a step.
LEMMA LimitReqKept ==
    ASSUME TypeOK, TypeOK', SessFrame, NEW r \in Reqs, LimitReq(r), LimitReqStep(r)
    PROVE  LimitReq(r)'
  <1>1. \A u : Active(u)' \subseteq Active(u)
    BY ActiveShrinks
  <1>2. CASE req'[r] = req[r]
    BY <1>1, <1>2 DEF LimitReq, SessFrame
  <1>3. CASE /\ req'[r].pc \notin Pending \cup Evicting
             /\ req'[r].pc \in EmptyHanded => req'[r].victims = {}
             /\ req'[r].pc \in ServicePC => req'[r].user \in ServiceUsers
    BY <1>3 DEF LimitReq
  <1>4. CASE /\ req'[r].user = req[r].user /\ req'[r].victims = req[r].victims
             /\ <<req[r].pc, req'[r].pc>> \in {<<"evict_revoke", "evict_delete">>,
                                               <<"sa_revoke", "sa_delete">>}
    <2>1. /\ req[r].pc \in Evicting /\ req'[r].pc \in Evicting
          /\ req'[r].pc \notin EmptyHanded
          /\ req'[r].pc \in ServicePC => req[r].pc \in ServicePC
      BY <1>4 DEF Evicting, EmptyHanded, ServicePC
    <2> QED
      BY <1>1, <1>4, <2>1 DEF LimitReq, SessFrame
  <1>5. CASE req'[r].pc = "create" /\ req'[r].victims = {}
    BY <1>5 DEF LimitReq, ServicePC, Evicting
  <1> QED
    BY <1>2, <1>3, <1>4, <1>5 DEF LimitReqStep

\* So does the bound.
LEMMA WithinLimitKept ==
    ASSUME TypeOK, TypeOK', SessFrame, \A r \in Reqs : LimitReqStep(r),
           NEW u \in Users, WithinLimit(Active(u), PendingOf(u), VictimsOf)
    PROVE  WithinLimit(Active(u), PendingOf(u), VictimsOf)'
  <1>1. Active(u)' \subseteq Active(u)
    BY ActiveShrinks
  <1>2. ASSUME NEW q \in PendingOf(u)'
        PROVE  /\ q \in PendingOf(u)
               /\ Active(u)' \ req'[q].victims \subseteq Active(u) \ req[q].victims
    <2>1. q \in Reqs /\ req'[q].user = u /\ req'[q].pc \in Pending
      BY <1>2 DEF PendingOf
    <2>2. CASE req'[q] = req[q]
      BY <1>1, <2>1, <2>2 DEF PendingOf
    <2>3. CASE req'[q].pc \notin Pending \cup Evicting
      BY <2>1, <2>3
    <2>4. CASE /\ req'[q].user = req[q].user /\ req'[q].victims = req[q].victims
               /\ <<req[q].pc, req'[q].pc>> \in {<<"evict_revoke", "evict_delete">>,
                                                 <<"sa_revoke", "sa_delete">>}
      <3>1. req[q].pc \in Pending
        BY <2>1, <2>4 DEF Pending
      <3> QED
        BY <1>1, <2>1, <2>4, <3>1 DEF PendingOf
    <2>5. CASE /\ req'[q].user = req[q].user /\ req'[q].victims = {}
               /\ req[q].pc = "evict_delete" /\ req'[q].pc = "create"
               /\ \A s \in req[q].victims : sess'[s].state # "live"
      <3>1. req[q].pc \in Pending
        BY <2>5 DEF Pending
      <3>2. Active(u)' \cap req[q].victims = {}
        BY <2>5 DEF Active, LiveSessions
      <3> QED
        BY <1>1, <2>1, <2>5, <3>1, <3>2 DEF PendingOf
    <2> QED
      BY <2>1, <2>2, <2>3, <2>4, <2>5 DEF LimitReqStep
  <1> DEFINE A == Active(u)    P == PendingOf(u)    V == VictimsOf
             B == Active(u)'   Q == PendingOf(u)'   W == VictimsOf'
  <1>3. A \subseteq SessionIds /\ P \subseteq Reqs /\ Q \subseteq P /\ B \subseteq A
    BY <1>1, <1>2 DEF Active, LiveSessions, PendingOf
  <1>4. \A q \in Q : V[q] = req[q].victims /\ W[q] = req'[q].victims
    BY <1>3 DEF VictimsOf
  <1>5. \A q \in Q : B \ W[q] \subseteq A \ V[q]
    BY <1>2, <1>4
  <1>6. WithinLimit(A, P, V)
    OBVIOUS
  <1> HIDE DEF A, P, V, B, Q, W
  <1>7. WithinLimit(B, Q, W)
    BY <1>3, <1>5, <1>6, WithinLimitShrinks
  <1>8. WithinLimit(B, Q, W) = WithinLimit(Active(u), PendingOf(u), VictimsOf)'
    BY DEF B, Q, W, WithinLimit, WithinBound, ReadOrder, MostSessions
  <1> QED
    BY <1>7, <1>8

\* A step that neither reads sessions to evict nor creates one keeps LimitInv.
LEMMA LimitFrameKeeps ==
    ASSUME TypeOK, TypeOK', LimitInv, SessFrame, \A r \in Reqs : LimitReqStep(r)
    PROVE  LimitInv'
  <1>1. \A r \in Reqs : LimitReq(r)'
    BY LimitReqKept DEF LimitInv
  <1>2. ASSUME MaxSessionsPerUser > 0, NEW u \in Users
        PROVE  WithinLimit(Active(u), PendingOf(u), VictimsOf)'
    BY <1>2, WithinLimitKept DEF LimitInv
  <1> QED
    BY <1>1, <1>2 DEF LimitInv

\* The oldest sessions are a prefix of the sessions in creation order.
LEMMA OldestArePrefix ==
    ASSUME NEW S, S \subseteq SessionIds, NEW v \in S, NEW s \in S, s < v
    PROVE  /\ v \in Victims(S) => s \in Victims(S)
           /\ \A k \in Nat : Cardinality({x \in S : x >= v}) > k
                               => Cardinality({x \in S : x >= s}) > k
  <1>1. /\ IsFiniteSet(S) /\ Cardinality(S) \in Nat /\ S \subseteq Nat
        /\ MaxSessionsPerUser \in Nat
    BY LimitTypes, Smaller, ConstantsAssumption
  <1>2. /\ {x \in S : x <= s} \subseteq {x \in S : x <= v}
        /\ {x \in S : x >= v} \subseteq {x \in S : x >= s}
    <2>1. \A x \in S : (x <= s => x <= v) /\ (x >= v => x >= s)
      <3> TAKE x \in S
      <3>1. x \in Nat /\ v \in Nat /\ s \in Nat
        BY <1>1
      <3> QED
        BY <3>1
    <2> QED
      BY <2>1, Zenon
  <1>3. /\ IsFiniteSet({x \in S : x <= v})
        /\ IsFiniteSet({x \in S : x >= s})
    BY <1>1, Smaller
  <1>4. /\ Cardinality({x \in S : x <= s}) <= Cardinality({x \in S : x <= v})
        /\ Cardinality({x \in S : x <= s}) \in Nat
        /\ Cardinality({x \in S : x <= v}) \in Nat
    BY <1>2, <1>3, Smaller
  <1>5. /\ Cardinality({x \in S : x >= v}) <= Cardinality({x \in S : x >= s})
        /\ Cardinality({x \in S : x >= v}) \in Nat
        /\ Cardinality({x \in S : x >= s}) \in Nat
    BY <1>2, <1>3, Smaller
  <1>6. v \in Victims(S) => s \in Victims(S)
    <2> DEFINE cs == Cardinality({x \in S : x <= s})
               cv == Cardinality({x \in S : x <= v})
               k  == Cardinality(S) - MaxSessionsPerUser + 1
    <2>1. cs <= cv /\ cs \in Nat /\ cv \in Nat /\ k \in Int
      BY <1>1, <1>4
    <2>2. v \in Victims(S) => cv <= k
      BY DEF Victims
    <2>3. cs <= k => s \in Victims(S)
      BY DEF Victims
    <2> HIDE DEF cs, cv, k
    <2> QED
      BY <2>1, <2>2, <2>3
  <1>7. \A k \in Nat : Cardinality({x \in S : x >= v}) > k
                         => Cardinality({x \in S : x >= s}) > k
    BY <1>5
  <1> QED
    BY <1>6, <1>7

\* Stored sessions have been handed out.
LEMMA ActiveHandedOut ==
    ASSUME TypeOK, NEW u
    PROVE  /\ Active(u) \subseteq LiveSessions(u) /\ LiveSessions(u) \subseteq SessionIds
           /\ \A s \in LiveSessions(u) : s \in Nat /\ s <= nSess
  <1>1. SessionIds \subseteq Nat /\ nSess \in Nat
    BY LimitTypes DEF TypeOK
  <1> QED
    BY <1>1 DEF TypeOK, Active, LiveSessions

\* Requests other than the one that moves, with the sessions unchanged.
LEMMA OthersKeepVictims ==
    ASSUME UNCHANGED <<sess, now, nSess>>, NEW q \in Reqs, req'[q] = req[q], LimitReq(q)
    PROVE  LimitReq(q)'
  BY DEF LimitReq, Active, LiveSessions

\* enforceSessionLimit's read.
LEMMA LimitReadKeeps ==
    ASSUME TypeOK, TypeOK', LimitInv, NEW r \in Reqs, LimitRead(r)
    PROVE  LimitInv'
  <1> DEFINE S == Active(req[r].user)
             V == IF MaxSessionsPerUser > 0 /\ Cardinality(S) >= MaxSessionsPerUser
                    THEN Victims(S) ELSE {}
  <1>1. req[r].pc = "limit" /\ req[r].victims = {}
        /\ req \in [Reqs -> ReqRow]
        /\ req[r] \in ReqRow
    BY DEF LimitRead, LimitInv, LimitReq, EmptyHanded, TypeOK
  <1>2. /\ \A q \in Reqs : q # r => req'[q] = req[q]
        /\ req'[r].user = req[r].user /\ req'[r].victims = V
        /\ req'[r].pc \in {"evict_revoke", "create"}
        /\ req'[r].pc = "create" => V = {}
        /\ UNCHANGED <<sess, now, nSess>>
    <2>1. CASE MaxSessionsPerUser > 0 /\ Cardinality(S) >= MaxSessionsPerUser
      <3>1. req' = [req EXCEPT ![r].pc = "evict_revoke", ![r].victims = Victims(S)]
            /\ UNCHANGED <<sess, now, nSess>>
        BY <2>1 DEF LimitRead
      <3>2. V = Victims(S)
        BY <2>1
      <3> HIDE DEF S, V
      <3> QED
        BY <1>1, <3>1, <3>2 DEF ReqRow
    <2>2. CASE ~(MaxSessionsPerUser > 0 /\ Cardinality(S) >= MaxSessionsPerUser)
      <3>1. req' = [req EXCEPT ![r].pc = "create"] /\ UNCHANGED <<sess, now, nSess>>
        BY <2>2 DEF LimitRead, Goto
      <3>2. V = {}
        BY <2>2
      <3> HIDE DEF S, V
      <3> QED
        BY <1>1, <3>1, <3>2 DEF ReqRow
    <2> QED
      BY <2>1, <2>2
  <1>3. \A u : Active(u)' = Active(u)
    BY <1>2 DEF Active, LiveSessions
  <1>4. /\ S \subseteq SessionIds /\ V \subseteq S
        /\ \A v \in V : v <= nSess /\ \A s \in S : s < v => s \in V
    <2>1. S \subseteq SessionIds /\ \A s \in S : s <= nSess
      BY ActiveHandedOut
    <2> QED
      BY <2>1, OldestArePrefix DEF Victims
  <1>5. LimitReq(r)'
    <2>1. /\ req'[r].pc \in EmptyHanded => req'[r].victims = {}
          /\ req'[r].pc \notin ServicePC
      BY <1>2 DEF EmptyHanded, ServicePC
    <2>2. Active(req[r].user)' = S /\ req'[r].victims = V /\ nSess' = nSess
      BY <1>2 DEF Active, LiveSessions
    <2> HIDE DEF S, V
    <2> QED
      BY <1>4, <2>1, <2>2 DEF LimitReq
  <1>6. \A q \in Reqs : LimitReq(q)'
    BY <1>2, <1>5, OthersKeepVictims DEF LimitInv
  <1>7. ASSUME MaxSessionsPerUser > 0, NEW u \in Users
        PROVE  WithinLimit(Active(u), PendingOf(u), VictimsOf)'
    <2> DEFINE A == Active(u)    P == PendingOf(u)    VV == VictimsOf
               B == Active(u)'   Q == PendingOf(u)'   W == VictimsOf'
    <2>1. A \subseteq SessionIds /\ P \subseteq Reqs /\ r \notin P /\ B = A
      BY <1>1, <1>3 DEF Active, LiveSessions, PendingOf, Pending
    <2>2. \A q \in Reqs : q # r => W[q] = VV[q]
      BY <1>2 DEF VictimsOf
    <2>3. W[r] = V
      BY <1>2 DEF VictimsOf
    <2>4. WithinLimit(A, P, VV)
      BY <1>7 DEF LimitInv
    <2>5. WithinLimit(A, Q, W)
      <3>1. CASE req[r].user = u
        <4>1. Q = P \cup {r}
          BY <1>2, <2>1, <3>1 DEF PendingOf, Pending
        <4>2. Cardinality(A \ W[r]) <= MaxSessionsPerUser - 1
          <5>1. CASE Cardinality(S) >= MaxSessionsPerUser
            <6>1. W[r] = Victims(S) /\ A = S
              BY <1>7, <2>3, <3>1, <5>1
            <6> HIDE DEF A, S, W
            <6> QED
              BY <1>4, <1>7, <6>1, VictimsMakeRoom
          <5>2. CASE ~(Cardinality(S) >= MaxSessionsPerUser)
            <6>1. W[r] = {} /\ A = S
              BY <2>3, <3>1, <5>2
            <6>2. Cardinality(S) \in Nat
              BY <1>4, LimitTypes, Smaller
            <6> HIDE DEF A, S, W
            <6>3. A \ W[r] = S
              BY <6>1
            <6>4. Cardinality(A \ W[r]) = Cardinality(S)
              BY <6>3
            <6>5. MaxSessionsPerUser \in Nat
              BY ConstantsAssumption
            <6> QED
              BY <5>2, <6>2, <6>4, <6>5
          <5> QED
            BY <5>1, <5>2
        <4> HIDE DEF A, P, VV, Q, W
        <4> QED
          BY <2>1, <2>2, <2>4, <4>1, <4>2, WithinLimitRead
      <3>2. CASE req[r].user # u
        <4>1. Q = P
          BY <1>2, <2>1, <3>2 DEF PendingOf
        <4>2. \A q \in Q : A \ W[q] \subseteq A \ VV[q]
          BY <2>1, <2>2, <4>1
        <4> HIDE DEF A, P, VV, Q, W
        <4> QED
          BY <2>1, <2>4, <4>1, <4>2, WithinLimitShrinks
      <3> QED
        BY <3>1, <3>2
    <2>6. WithinLimit(A, Q, W) = WithinLimit(Active(u), PendingOf(u), VictimsOf)'
      BY <2>1 DEF WithinLimit, WithinBound, ReadOrder, MostSessions
    <2> QED
      BY <2>5, <2>6
  <1> QED
    BY <1>6, <1>7 DEF LimitInv

\* The service-account grant's read of its older sessions.
LEMMA TrimReadKeeps ==
    ASSUME TypeOK, TypeOK', LimitInv, NEW r \in Reqs, ServiceTrimRead(r)
    PROVE  LimitInv'
  <1> DEFINE S   == LiveSessions(req[r].user)
             old == {s \in S : Cardinality({x \in S : x >= s}) > ServiceCap}
  <1>1. /\ req[r].pc = "sa_read" /\ req[r].user \in ServiceUsers
        /\ req \in [Reqs -> ReqRow] /\ req[r] \in ReqRow
    BY DEF ServiceTrimRead, LimitInv, LimitReq, ServicePC, TypeOK
  <1>2. /\ \A q \in Reqs : q # r => req'[q] = req[q]
        /\ req'[r].user = req[r].user
        /\ \/ req'[r].pc = "sa_revoke" /\ req'[r].victims = old
           \/ req'[r].pc = "issue"
        /\ UNCHANGED <<sess, now, nSess>>
    <2>1. /\ \/ req' = [req EXCEPT ![r].pc = "sa_revoke", ![r].victims = old]
             \/ req' = [req EXCEPT ![r].pc = "issue"]
          /\ UNCHANGED <<sess, now, nSess>>
      BY DEF ServiceTrimRead, Goto
    <2> HIDE DEF old
    <2> QED
      BY <1>1, <2>1 DEF ReqRow
  <1>3. \A u : Active(u)' = Active(u)
    BY <1>2 DEF Active, LiveSessions
  <1>4. /\ Active(req[r].user) \subseteq S
        /\ \A v \in old : v <= nSess /\ \A s \in S : s < v => s \in old
    <2>1. /\ S \subseteq SessionIds /\ (\A s \in S : s <= nSess) /\ ServiceCap \in Nat
          /\ Active(req[r].user) \subseteq S
      BY ActiveHandedOut, ConstantsAssumption
    <2> HIDE DEF S
    <2> QED
      BY <2>1, OldestArePrefix
  <1>5. LimitReq(r)'
    <2>1. req'[r].pc \notin EmptyHanded
      BY <1>2 DEF EmptyHanded
    <2>2. Active(req[r].user)' = Active(req[r].user) /\ nSess' = nSess
      BY <1>2 DEF Active, LiveSessions
    <2>3. req'[r].pc \in Evicting => req'[r].victims = old
      BY <1>2 DEF Evicting
    <2> HIDE DEF S, old
    <2> QED
      BY <1>1, <1>2, <1>4, <2>1, <2>2, <2>3 DEF LimitReq
  <1>6. \A q \in Reqs : LimitReq(q)'
    BY <1>2, <1>5, OthersKeepVictims DEF LimitInv
  <1>7. ASSUME MaxSessionsPerUser > 0, NEW u \in Users
        PROVE  WithinLimit(Active(u), PendingOf(u), VictimsOf)'
    <2> DEFINE A == Active(u)    P == PendingOf(u)    VV == VictimsOf
               B == Active(u)'   Q == PendingOf(u)'   W == VictimsOf'
    <2>1. A \subseteq SessionIds /\ P \subseteq Reqs /\ B = A
      BY <1>3 DEF Active, LiveSessions, PendingOf
    <2>2. Q \subseteq P /\ \A q \in Q : W[q] = VV[q]
      BY <1>2 DEF PendingOf, Pending, VictimsOf
    <2>3. WithinLimit(A, P, VV)
      BY <1>7 DEF LimitInv
    <2>4. WithinLimit(A, Q, W)
      <3> HIDE DEF A, P, VV, Q, W
      <3> QED
        BY <2>1, <2>2, <2>3, WithinLimitShrinks
    <2>5. WithinLimit(A, Q, W) = WithinLimit(Active(u), PendingOf(u), VictimsOf)'
      BY <2>1 DEF WithinLimit, WithinBound, ReadOrder, MostSessions
    <2> QED
      BY <2>4, <2>5
  <1> QED
    BY <1>6, <1>7 DEF LimitInv

\* session.create: the new session is the newest of all.
LEMMA CreateKeeps ==
    ASSUME TypeOK, TypeOK', LimitInv, NEW r \in Reqs, CreateSession(r)
    PROVE  LimitInv'
  <1> DEFINE n == nSess + 1
  <1>1. /\ req[r].pc \in {"create", "sa_create"} /\ req[r].victims = {}
        /\ req[r].pc = "sa_create" => req[r].user \in ServiceUsers
        /\ req \in [Reqs -> ReqRow] /\ req[r] \in ReqRow
        /\ n \in SessionIds /\ nSess \in Nat
    BY ConstantsAssumption
    DEF CreateSession, LimitInv, LimitReq, ServicePC, EmptyHanded, TypeOK, SessionIds
  <1>2. /\ \A q \in Reqs : q # r => req'[q] = req[q]
        /\ req'[r].user = req[r].user /\ req'[r].victims = {}
        /\ req'[r].pc = IF req[r].pc = "create" THEN "issue" ELSE "sa_read"
    BY <1>1 DEF CreateSession, ReqRow
  <1>3. /\ now' = now /\ nSess' = n
        /\ \A s \in SessionIds : s # n => sess'[s] = sess[s]
        /\ sess'[n].user = req[r].user
    BY <1>1 DEF CreateSession, TypeOK
  <1> HIDE DEF n
  <1>4. \A u : /\ Active(u)' \subseteq Active(u) \cup {n}
               /\ u # req[r].user => Active(u)' \subseteq Active(u)
    BY <1>3 DEF Active, LiveSessions
  <1>5. ASSUME NEW q \in Reqs PROVE LimitReq(q)'
    <2>1. CASE q = r
      BY <1>1, <1>2, <2>1 DEF LimitReq, ServicePC, EmptyHanded, Evicting
    <2>2. CASE q # r
      <3>1. req'[q] = req[q] /\ LimitReq(q) /\ req[q].victims \subseteq SessionIds
        BY <1>2, <2>2 DEF LimitInv, TypeOK, ReqRow
      <3>2. nSess' = nSess + 1 /\ SessionIds \subseteq Nat
        BY <1>3, LimitTypes DEF n
      <3>3. \A s \in Active(req[q].user)' : s \in Active(req[q].user) \/ s = nSess + 1
        BY <1>3, <3>1 DEF n, Active, LiveSessions
      <3>4. ASSUME req[q].pc \in Evicting, NEW v \in req[q].victims
            PROVE  /\ v <= nSess'
                   /\ \A s \in Active(req[q].user)' : s < v => s \in req[q].victims
        <4>1. /\ v <= nSess /\ v \in Nat
              /\ \A s \in Active(req[q].user) : s < v => s \in req[q].victims
          BY <3>1, <3>2, <3>4 DEF LimitReq
        <4> QED
          BY <1>1, <3>2, <3>3, <4>1
      <3> QED
        BY <3>1, <3>4 DEF LimitReq
    <2> QED
      BY <2>1, <2>2
  <1>6. ASSUME MaxSessionsPerUser > 0, NEW u \in Users
        PROVE  WithinLimit(Active(u), PendingOf(u), VictimsOf)'
    <2> DEFINE A == Active(u)    P == PendingOf(u)    VV == VictimsOf
               B == Active(u)'   Q == PendingOf(u)'   W == VictimsOf'
    <2>1. A \subseteq SessionIds /\ P \subseteq Reqs
      BY DEF Active, LiveSessions, PendingOf
    <2>2. Q = P \ {r} /\ \A q \in Q : W[q] = VV[q]
      BY <1>1, <1>2 DEF PendingOf, Pending, VictimsOf
    <2>3. WithinLimit(A, P, VV)
      BY <1>6 DEF LimitInv
    <2>4. WithinLimit(B, Q, W)
      <3>1. CASE req[r].user = u
        <4>1. r \in P /\ VV[r] = {}
          BY <1>1, <3>1, ConstantsAssumption DEF PendingOf, Pending, VictimsOf
        <4>2. B \subseteq A \cup {n} /\ A \cup {n} \subseteq SessionIds
          BY <1>1, <1>4, <2>1
        <4> HIDE DEF A, P, VV, B, Q, W
        <4>3. WithinLimit(A \cup {n}, P \ {r}, VV)
          BY <1>1, <2>1, <2>3, <4>1, WithinLimitCreate
        <4>4. \A q \in Q : B \ W[q] \subseteq (A \cup {n}) \ VV[q]
          BY <2>2, <4>2
        <4>5. P \ {r} \subseteq Reqs /\ Q \subseteq P \ {r}
          BY <2>1, <2>2
        <4> QED
          BY <4>2, <4>3, <4>4, <4>5, WithinLimitShrinks
      <3>2. CASE req[r].user # u
        <4>1. B \subseteq A
          BY <1>4, <3>2
        <4> HIDE DEF A, P, VV, B, Q, W
        <4>2. (\A q \in Q : B \ W[q] \subseteq A \ VV[q]) /\ Q \subseteq P
          BY <2>2, <4>1
        <4> QED
          BY <2>1, <2>3, <4>1, <4>2, WithinLimitShrinks
      <3> QED
        BY <3>1, <3>2
    <2>5. WithinLimit(B, Q, W) = WithinLimit(Active(u), PendingOf(u), VictimsOf)'
      BY DEF WithinLimit, WithinBound, ReadOrder, MostSessions
    <2> QED
      BY <2>4, <2>5
  <1> QED
    BY <1>5, <1>6 DEF LimitInv

\* Deleting sessions, revoking tokens and the passing of time are frames.
LEMMA DeleteIsSessFrame ==
    ASSUME TypeOK, NEW S, DeleteSessions(S), UNCHANGED <<now, nSess>>
    PROVE  SessFrame /\ \A s \in SessionIds : s \in S => sess'[s].state # "live"
  <1>1. now <= now'
    BY DEF TypeOK
  <1>2. \A s \in SessionIds : DeletedSess(s).state = "deleted"
    BY DeletedRows
  <1> QED
    BY <1>1, <1>2 DEF DeleteSessions, SessFrame

\* A step that leaves the sessions alone adds none and changes no live one.
LEMMA UnchangedIsSessFrame ==
    ASSUME TypeOK, UNCHANGED <<sess, now, nSess>>
    PROVE  SessFrame
  BY DEF TypeOK, SessFrame

\* One request moves, the others stay.
LEMMA OneMoves ==
    ASSUME TypeOK, NEW r \in Reqs, NEW row, req' = [req EXCEPT ![r] = row]
    PROVE  req'[r] = row /\ \A q \in Reqs \ {r} : LimitReqStep(q)
  BY DEF TypeOK, LimitReqStep

\* A request that takes up or ends something other than a grant's eviction.
LEMMA FreshRow ==
    ASSUME TypeOK, NEW r \in Reqs, NEW row, req' = [req EXCEPT ![r] = row],
           row.pc \notin Pending \cup Evicting,
           row.pc \in EmptyHanded => row.victims = {},
           row.pc \in ServicePC => row.user \in ServiceUsers
    PROVE  \A q \in Reqs : LimitReqStep(q)
  <1>1. req'[r] = row /\ \A q \in Reqs \ {r} : LimitReqStep(q)
    BY OneMoves
  <1>2. LimitReqStep(r)
    BY <1>1 DEF LimitReqStep
  <1> QED
    BY <1>1, <1>2

\* An idle slot has no part in the session limit.
LEMMA IdleRow ==
    /\ IdleReq.pc \notin Pending \cup Evicting
    /\ IdleReq.pc \notin EmptyHanded /\ IdleReq.pc \notin ServicePC
  BY DEF IdleReq, Pending, Evicting, EmptyHanded, ServicePC

\* Nor has a request that ends.
LEMMA LimitFinishFrame ==
    ASSUME TypeOK, NEW r \in Reqs, Finish(r)
    PROVE  \A q \in Reqs : LimitReqStep(q)
  BY FreshRow, IdleRow DEF Finish

\* A request moves to a label where it is not concerned with the limit.
LEMMA LimitGotoFrame ==
    ASSUME TypeOK, NEW r \in Reqs, NEW label, Goto(r, label),
           label \in {"issue", "end_delete", "adm_delete"}
    PROVE  \A q \in Reqs : LimitReqStep(q)
  <1>1. req \in [Reqs -> ReqRow] /\ req[r] \in ReqRow
    BY DEF TypeOK
  <1>2. req' = [req EXCEPT ![r] = [req[r] EXCEPT !.pc = label]]
        /\ [req[r] EXCEPT !.pc = label].pc = label
    BY <1>1 DEF Goto, ReqRow
  <1>3. label \notin Pending \cup Evicting /\ label \notin EmptyHanded /\ label \notin ServicePC
    BY DEF Pending, Evicting, EmptyHanded, ServicePC
  <1> QED
    BY <1>2, <1>3, FreshRow

\* A request that starts.
LEMMA LimitArriveFrame ==
    ASSUME TypeOK, NEW r \in Reqs, Arrive(r)
    PROVE  (\A q \in Reqs : LimitReqStep(q)) /\ SessFrame
  <1> USE DEF Pending, Evicting, EmptyHanded, ServicePC
  <1>0. UNCHANGED <<sess, now, nSess>>
    BY DEF Arrive, CodeClaim, CredentialGrant, ServiceGrant, RefreshRead, RefreshReuse,
           LogoutRead, AdminRevokeRead, RevokeAllRead
  <1>1. SessFrame
    BY <1>0, UnchangedIsSessFrame
  <1>2. ASSUME UNCHANGED req PROVE \A q \in Reqs : LimitReqStep(q)
    BY <1>2 DEF LimitReqStep
  <1>3. ASSUME NEW row, req' = [req EXCEPT ![r] = row],
               \/ row.pc = "limit" /\ row.victims = {}
               \/ row.pc = "sa_create" /\ row.victims = {} /\ row.user \in ServiceUsers
               \/ row.pc \in {"rotate", "reuse", "end_revoke", "adm_revoke", "all_txn"}
        PROVE  \A q \in Reqs : LimitReqStep(q)
    BY <1>3, FreshRow
  <1>4. ASSUME NEW c \in CodeIds, NEW cl \in Clients, NEW ok \in BOOLEAN,
               CodeClaim(r, c, cl, ok)
        PROVE  \A q \in Reqs : LimitReqStep(q)
    <2> DEFINE row == [IdleReq EXCEPT !.pc = "limit", !.code = c, !.user = codes[c].user,
                                       !.client = cl, !.offline = codes[c].offline]
    <2>1. row.pc = "limit" /\ row.victims = {}
      BY DEF IdleReq
    <2>2. req' = [req EXCEPT ![r] = row] \/ UNCHANGED req
      BY <1>4 DEF CodeClaim
    <2> HIDE DEF row
    <2> QED
      BY <1>2, <1>3, <2>1, <2>2
  <1>5. ASSUME NEW u \in Users, NEW cl \in Clients, NEW off \in BOOLEAN,
               CredentialGrant(r, u, cl, off)
        PROVE  \A q \in Reqs : LimitReqStep(q)
    <2> DEFINE row == [IdleReq EXCEPT !.pc = "limit", !.user = u, !.client = cl,
                                       !.offline = off]
    <2>1. row.pc = "limit" /\ row.victims = {} /\ req' = [req EXCEPT ![r] = row]
      BY <1>5 DEF IdleReq, CredentialGrant
    <2> HIDE DEF row
    <2> QED
      BY <1>3, <2>1
  <1>6. ASSUME NEW u \in ServiceUsers, NEW cl \in Clients, NEW off \in BOOLEAN,
               ServiceGrant(r, u, cl, off)
        PROVE  \A q \in Reqs : LimitReqStep(q)
    <2> DEFINE row == [IdleReq EXCEPT !.pc = "sa_create", !.user = u, !.client = cl,
                                       !.offline = off]
    <2>1. /\ row.pc = "sa_create" /\ row.victims = {} /\ row.user = u
          /\ req' = [req EXCEPT ![r] = row]
      BY <1>6 DEF IdleReq, ServiceGrant
    <2> HIDE DEF row
    <2> QED
      BY <1>3, <1>6, <2>1
  <1>7. ASSUME NEW t \in TokenIds, NEW cl \in Clients, NEW off \in BOOLEAN,
               RefreshRead(r, t, cl, off)
        PROVE  \A q \in Reqs : LimitReqStep(q)
    <2> DEFINE row == [IdleReq EXCEPT !.pc = "rotate", !.tok = t, !.sid = tok[t].sid,
                                       !.client = cl, !.offline = off]
    <2>1. row.pc = "rotate" /\ req' = [req EXCEPT ![r] = row]
      BY <1>7 DEF IdleReq, RefreshRead
    <2> HIDE DEF row
    <2> QED
      BY <1>3, <2>1
  <1>8. ASSUME NEW t \in TokenIds, RefreshReuse(r, t)
        PROVE  \A q \in Reqs : LimitReqStep(q)
    <2> DEFINE row == [IdleReq EXCEPT !.pc = "reuse", !.sid = tok[t].sid]
    <2>1. row.pc = "reuse" /\ req' = [req EXCEPT ![r] = row]
      BY <1>8 DEF IdleReq, RefreshReuse
    <2> HIDE DEF row
    <2> QED
      BY <1>3, <2>1
  <1>9. ASSUME NEW s \in SessionIds, LogoutRead(r, s) \/ AdminRevokeRead(r, s)
        PROVE  \A q \in Reqs : LimitReqStep(q)
    <2> DEFINE row(label) == [IdleReq EXCEPT !.pc = label, !.sid = s]
    <2>1. \A label : row(label).pc = label
      BY DEF IdleReq
    <2>2. req' = [req EXCEPT ![r] = row("end_revoke")]
          \/ req' = [req EXCEPT ![r] = row("adm_revoke")]
      BY <1>9 DEF LogoutRead, AdminRevokeRead
    <2> HIDE DEF row
    <2> QED
      BY <1>3, <2>1, <2>2
  <1>10. ASSUME NEW u \in Accounts, RevokeAllRead(r, u)
         PROVE  \A q \in Reqs : LimitReqStep(q)
    <2> DEFINE row == [IdleReq EXCEPT !.pc = "all_txn", !.user = u,
                                       !.victims = LiveSessions(u)]
    <2>1. row.pc = "all_txn" /\ req' = [req EXCEPT ![r] = row]
      BY <1>10 DEF IdleReq, RevokeAllRead
    <2> HIDE DEF row
    <2> QED
      BY <1>3, <2>1
  <1> HIDE DEF Pending, Evicting, EmptyHanded, ServicePC
  <1>11. \A q \in Reqs : LimitReqStep(q)
    BY <1>4, <1>5, <1>6, <1>7, <1>8, <1>9, <1>10 DEF Arrive
  <1> QED
    BY <1>1, <1>11

\* The grant and its eviction, between the read and the creation or after it.
LEMMA EvictFrame ==
    ASSUME TypeOK, NEW r \in Reqs,
           \/ EvictRevoke(r) \/ EvictDelete(r) \/ ServiceTrimRevoke(r)
           \/ ServiceTrimDelete(r) \/ IssueToken(r) \/ Rotate(r) \/ ReuseRevoke(r)
    PROVE  (\A q \in Reqs : LimitReqStep(q)) /\ SessFrame
  <1>1. req \in [Reqs -> ReqRow] /\ req[r] \in ReqRow /\ req[r].victims \subseteq SessionIds
    BY DEF TypeOK, ReqRow
  <1>2. ASSUME NEW label, Goto(r, label),
               <<req[r].pc, label>> \in {<<"evict_revoke", "evict_delete">>,
                                         <<"sa_revoke", "sa_delete">>}
        PROVE  \A q \in Reqs : LimitReqStep(q)
    <2> DEFINE row == [req[r] EXCEPT !.pc = label]
    <2>1. /\ req' = [req EXCEPT ![r] = row]
          /\ row.pc = label /\ row.user = req[r].user /\ row.victims = req[r].victims
      BY <1>1, <1>2 DEF Goto, ReqRow
    <2> HIDE DEF row
    <2>2. req'[r] = row /\ \A q \in Reqs \ {r} : LimitReqStep(q)
      BY <2>1, OneMoves
    <2>3. LimitReqStep(r)
      BY <1>2, <2>1, <2>2 DEF LimitReqStep
    <2> QED
      BY <2>2, <2>3
  <1>3. CASE EvictRevoke(r) \/ ServiceTrimRevoke(r)
    <2>1. SessFrame
      BY <1>3, UnchangedIsSessFrame DEF EvictRevoke, ServiceTrimRevoke
    <2>2. \/ req[r].pc = "evict_revoke" /\ Goto(r, "evict_delete")
          \/ req[r].pc = "sa_revoke" /\ Goto(r, "sa_delete")
      BY <1>3 DEF EvictRevoke, ServiceTrimRevoke
    <2> QED
      BY <1>2, <2>1, <2>2
  <1>4. CASE EvictDelete(r)
    <2> DEFINE row == [req[r] EXCEPT !.pc = "create", !.victims = {}]
    <2>1. /\ req' = [req EXCEPT ![r] = row]
          /\ row.pc = "create" /\ row.user = req[r].user /\ row.victims = {}
          /\ req[r].pc = "evict_delete"
      BY <1>1, <1>4 DEF EvictDelete, ReqRow
    <2>2. SessFrame /\ \A s \in req[r].victims : sess'[s].state # "live"
      BY <1>1, <1>4, DeleteIsSessFrame DEF EvictDelete
    <2> HIDE DEF row
    <2>3. req'[r] = row /\ \A q \in Reqs \ {r} : LimitReqStep(q)
      BY <2>1, OneMoves
    <2>4. LimitReqStep(r)
      BY <2>1, <2>2, <2>3 DEF LimitReqStep
    <2> QED
      BY <2>2, <2>3, <2>4
  <1>5. CASE ServiceTrimDelete(r)
    <2> DEFINE row == [req[r] EXCEPT !.pc = "issue", !.victims = {}]
    <2>1. req' = [req EXCEPT ![r] = row] /\ row.pc = "issue"
      BY <1>1, <1>5 DEF ServiceTrimDelete, ReqRow
    <2>2. SessFrame
      BY <1>5, DeleteIsSessFrame DEF ServiceTrimDelete
    <2> HIDE DEF row
    <2> QED
      BY <2>1, <2>2, FreshRow DEF Pending, Evicting, EmptyHanded, ServicePC
  <1>6. CASE IssueToken(r) \/ ReuseRevoke(r)
    BY <1>6, LimitFinishFrame, UnchangedIsSessFrame DEF IssueToken, ReuseRevoke
  <1>7. CASE Rotate(r)
    <2>1. Goto(r, "issue") \/ Finish(r)
      BY <1>7 DEF Rotate
    <2>2. SessFrame
      BY <1>7, UnchangedIsSessFrame DEF Rotate
    <2> QED
      BY <2>1, <2>2, LimitFinishFrame, LimitGotoFrame
  <1> QED
    BY <1>3, <1>4, <1>5, <1>6, <1>7

\* Logout and the admin session API.
LEMMA EndFrame ==
    ASSUME TypeOK, NEW r \in Reqs, EndStep(r)
    PROVE  (\A q \in Reqs : LimitReqStep(q)) /\ SessFrame
  <1>1. CASE EndRevoke(r) \/ AdminRevokeTokens(r)
    <2>1. Goto(r, "end_delete") \/ Goto(r, "adm_delete")
      BY <1>1 DEF EndRevoke, AdminRevokeTokens
    <2>2. SessFrame
      BY <1>1, UnchangedIsSessFrame DEF EndRevoke, AdminRevokeTokens
    <2> QED
      BY <2>1, <2>2, LimitGotoFrame
  <1>2. CASE EndDelete(r) \/ AdminRevokeDelete(r) \/ RevokeAllTxn(r)
    <2>1. Finish(r)
      BY <1>2 DEF EndDelete, AdminRevokeDelete, RevokeAllTxn
    <2>2. SessFrame
      BY <1>2, DeleteIsSessFrame DEF EndDelete, AdminRevokeDelete, RevokeAllTxn
    <2> QED
      BY <2>1, <2>2, LimitFinishFrame
  <1> QED
    BY <1>1, <1>2 DEF EndStep

\* Nobody has sessions at first.
LEMMA LimitInit == Init => LimitInv
  <1> SUFFICES ASSUME Init PROVE LimitInv
    OBVIOUS
  <1>1. \A r \in Reqs : req[r].pc = "idle"
    BY DEF Init, IdleReq
  <1>2. \A r \in Reqs : LimitReq(r)
    BY <1>1 DEF LimitReq, EmptyHanded, ServicePC, Evicting
  <1>3. ASSUME MaxSessionsPerUser > 0, NEW u \in Users
        PROVE  WithinLimit(Active(u), PendingOf(u), VictimsOf)
    <2>1. Active(u) = {} /\ PendingOf(u) = {}
      BY <1>1 DEF Init, NoSessRow, Active, LiveSessions, PendingOf, Pending
    <2>2. Cardinality({}) = 0 /\ 0 <= MostSessions
      BY <1>3, LimitTypes, FS_EmptySet, ConstantsAssumption DEF MostSessions
    <2>3. [q \in Reqs |-> {}] \in [Reqs -> SUBSET Reqs]
      OBVIOUS
    <2> QED
      BY <2>1, <2>2, <2>3 DEF WithinLimit, WithinBound, ReadOrder
  <1> QED
    BY <1>2, <1>3 DEF LimitInv

\* No step breaks the bound or the order of eviction.
LEMMA LimitNext == TypeOK /\ LimitInv /\ [Next]_vars => LimitInv'
  <1> SUFFICES ASSUME TypeOK, LimitInv, [Next]_vars PROVE LimitInv'
    OBVIOUS
  <1>0. TypeOK'
    BY TypeNext
  <1>a. ASSUME UNCHANGED req PROVE \A q \in Reqs : LimitReqStep(q)
    BY <1>a DEF LimitReqStep
  <1>1. ASSUME NEW r \in Reqs, Arrive(r) PROVE LimitInv'
    BY <1>0, <1>1, LimitArriveFrame, LimitFrameKeeps
  <1>2. ASSUME NEW r \in Reqs, GrantStep(r) PROVE LimitInv'
    <2>1. CASE LimitRead(r)
      BY <1>0, <2>1, LimitReadKeeps
    <2>2. CASE ServiceTrimRead(r)
      BY <1>0, <2>2, TrimReadKeeps
    <2>3. CASE CreateSession(r)
      BY <1>0, <2>3, CreateKeeps
    <2>4. CASE \/ EvictRevoke(r) \/ EvictDelete(r) \/ ServiceTrimRevoke(r)
               \/ ServiceTrimDelete(r) \/ IssueToken(r) \/ Rotate(r) \/ ReuseRevoke(r)
      BY <1>0, <2>4, EvictFrame, LimitFrameKeeps
    <2> QED
      BY <1>2, <2>1, <2>2, <2>3, <2>4 DEF GrantStep
  <1>3. ASSUME NEW r \in Reqs, EndStep(r) PROVE LimitInv'
    BY <1>0, <1>3, EndFrame, LimitFrameKeeps
  <1>4. ASSUME NEW r \in Reqs, Abort(r) PROVE LimitInv'
    BY <1>0, <1>4, LimitFinishFrame, UnchangedIsSessFrame, LimitFrameKeeps DEF Abort
  <1>5. CASE CleanupSessions
    <2>1. SessFrame /\ UNCHANGED req
      BY <1>5, DeleteIsSessFrame DEF CleanupSessions
    <2> QED
      BY <1>0, <1>a, <2>1, LimitFrameKeeps
  <1>6. CASE Tick
    <2>1. SessFrame /\ UNCHANGED req
      BY <1>6 DEF Tick, SessFrame, TypeOK
    <2> QED
      BY <1>0, <1>a, <2>1, LimitFrameKeeps
  <1>7. CASE UNCHANGED <<sess, now, nSess, req>>
    BY <1>0, <1>7, <1>a, UnchangedIsSessFrame, LimitFrameKeeps
  <1>8. \/ \E r \in Reqs : Arrive(r) \/ GrantStep(r) \/ EndStep(r) \/ Abort(r)
        \/ CleanupSessions \/ Tick \/ UNCHANGED <<sess, now, nSess, req>>
    BY DEF Next, vars, IssueCode, RevokeToken, Cleanup, CleanupTokens, CleanupCodes,
           CleanupExpiredCodes
  <1> QED
    BY <1>1, <1>2, <1>3, <1>4, <1>5, <1>6, <1>7, <1>8

\* TypeOK and LimitInv together are inductive.
LEMMA LimitInvariant == Spec => [](TypeOK /\ LimitInv)
  <1>1. Init => TypeOK /\ LimitInv
    BY TypeInit, LimitInit
  <1>2. TypeOK /\ LimitInv /\ [Next]_vars => (TypeOK /\ LimitInv)'
    BY TypeNext, LimitNext
  <1> QED
    BY <1>1, <1>2, PTL DEF Spec

(* However many grants of a user run at once, each with a read of the       *)
(* sessions that is stale when it creates its own (enforceSessionLimit),    *)
(* and whichever of them are cut off, the user's active sessions exceed     *)
(* maxSessionsPerUser by less than the number of requests.                  *)
THEOREM OvershootIsBounded == Spec => []OvershootBounded
  <1>1. TypeOK /\ LimitInv => OvershootBounded
    BY DEF LimitInv, WithinLimit, WithinBound, MostSessions, OvershootBounded
  <1> QED
    BY <1>1, LimitInvariant, PTL

(* Whatever happens between a request's read and its deletes, no active     *)
(* session older than one of its victims is spared.                         *)
THEOREM OldestEvictedFirst == Spec => []EvictsOldestFirst
  <1>1. TypeOK /\ LimitInv => EvictsOldestFirst
    BY DEF LimitInv, LimitReq, Evicting, EvictsOldestFirst
  <1> QED
    BY <1>1, LimitInvariant, PTL

-----------------------------------------------------------------------------
(* Login sessions: typing. *)

LsPcs   == {"idle", "drop", "find", "evict", "create", "issue", "issued", "validate", "mfa",
            "lookup", "acr", "admin", "granted", "factor", "record"}
LsKinds == {"none", "login", "silent", "stepup", "admin"}
SsoType == [status : {"none", "live", "gone"}, acr : 0..3, expiresAt : Nat]
StepUpType == [sid : 0..NSso, level : 0..3, until : Nat]
LrType  == [pc : LsPcs, kind : LsKinds, sid : 0..NSso, level : 0..3, need : 0..3,
            mfa : BOOLEAN, victims : SUBSET SsoIds, own : BOOLEAN, since : Nat,
            dead : BOOLEAN, on : BOOLEAN]

LsTypeOK ==
    /\ lsNow \in Nat /\ nSso \in 0..NSso
    /\ sso \in [SsoIds -> SsoType]
    /\ steps \subseteq StepUpType /\ earned \subseteq StepUpType
    /\ userOn \in BOOLEAN /\ mfaRequired \in BOOLEAN
    /\ lr \in [LsReqs -> LrType]

\* A request that rests is typed.
LEMMA IdleLsTyped == IdleLs \in LrType /\ IdleLs.pc = "idle" /\ IdleLs.kind = "none"
                     /\ IdleLs.victims = {}
  BY LoginSessionsAssumption DEF IdleLs, LrType, LsPcs, LsKinds

\* Deleting rows keeps their types, their levels and their expiry.
LEMMA WithoutFacts ==
    ASSUME LsTypeOK, NEW S
    PROVE  /\ Without(S) \in [SsoIds -> SsoType]
           /\ \A s \in SsoIds :
                /\ Without(S)[s].acr = sso[s].acr /\ Without(S)[s].expiresAt = sso[s].expiresAt
                /\ Without(S)[s].status = IF s \in S /\ sso[s].status = "live" THEN "gone"
                                          ELSE sso[s].status
  <1>1. ASSUME NEW s \in SsoIds
        PROVE  /\ Without(S)[s] \in SsoType
               /\ Without(S)[s].acr = sso[s].acr /\ Without(S)[s].expiresAt = sso[s].expiresAt
               /\ Without(S)[s].status = IF s \in S /\ sso[s].status = "live" THEN "gone"
                                         ELSE sso[s].status
    <2>1. sso[s] \in SsoType
      BY DEF LsTypeOK
    <2>2. Without(S)[s] = IF s \in S /\ sso[s].status = "live"
                            THEN [sso[s] EXCEPT !.status = "gone"] ELSE sso[s]
      BY DEF Without
    <2> QED
      BY <2>1, <2>2 DEF SsoType
  <1>2. Without(S) \in [SsoIds -> SsoType]
    BY <1>1 DEF Without
  <1> QED
    BY <1>1, <1>2

\* A request that moves on, with other local variables or without.
LEMMA LsMoves ==
    ASSUME LsTypeOK, NEW r \in LsReqs
    PROVE  /\ lr[r] \in LrType
           /\ \A l \in LsPcs : LsGoto(r, l) =>
                /\ lr' \in [LsReqs -> LrType]
                /\ lr'[r] = [lr[r] EXCEPT !.pc = l]
                /\ \A q \in LsReqs : q # r => lr'[q] = lr[q]
           /\ LsFinish(r) =>
                /\ lr' \in [LsReqs -> LrType]
                /\ lr'[r] = IdleLs
                /\ \A q \in LsReqs : q # r => lr'[q] = lr[q]
  BY IdleLsTyped DEF LsTypeOK, LrType, LsGoto, LsFinish

\* Local variables are assigned values of their types.
LEMMA LrUpdates ==
    ASSUME NEW x \in LrType, NEW l \in LsPcs, NEW s \in 0..NSso, NEW n \in 0..3,
           NEW m \in 0..3, NEW k \in LsKinds
    PROVE  /\ [x EXCEPT !.pc = l, !.level = n] \in LrType
           /\ [x EXCEPT !.pc = l, !.sid = s] \in LrType
           /\ [x EXCEPT !.pc = l, !.kind = k, !.sid = s, !.level = n, !.need = m] \in LrType
  BY DEF LrType

\* The level of a session is the highest of what it has.
LEMMA SsoLevelFacts ==
    ASSUME NEW s
    PROVE  SsoLevel(s) \in LsLevels /\ Holds(s, SsoLevel(s))
  <1> DEFINE Top(l) == Holds(s, l) /\ \A k \in LsLevels : Holds(s, k) => k <= l
  <1>1. Holds(s, 1) /\ LsLevels = {1, 2, 3}
    BY DEF Holds, LsLevels
  <1>2. \E l \in LsLevels : Top(l)
    <2>1. CASE Holds(s, 3)
      BY <1>1, <2>1
    <2>2. CASE ~Holds(s, 3) /\ Holds(s, 2)
      BY <1>1, <2>2
    <2>3. CASE ~Holds(s, 3) /\ ~Holds(s, 2)
      BY <1>1, <2>3
    <2> QED
      BY <2>1, <2>2, <2>3
  <1>3. SsoLevel(s) = CHOOSE l \in LsLevels : Top(l)
    BY DEF SsoLevel
  <1> HIDE DEF Top
  <1>4. SsoLevel(s) \in LsLevels /\ Top(SsoLevel(s))
    BY <1>2, <1>3
  <1> QED
    BY <1>4 DEF Top

\* Typing is kept by the requests.
LEMMA LsTypeStep == ASSUME LsTypeOK, NEW r \in LsReqs, LsStep(r) PROVE LsTypeOK'
  <1>0. /\ lr \in [LsReqs -> LrType] /\ lr[r] \in LrType /\ sso \in [SsoIds -> SsoType]
        /\ NSso \in Nat /\ nSso \in 0..NSso /\ lsNow \in Nat /\ Life \in Nat /\ Cache \in Nat
    BY LsMoves, LoginSessionsAssumption DEF LsTypeOK
  <1>1. ASSUME NEW level \in LsLevels, NEW need \in 0..3, NEW cookie \in 0..nSso,
               LsSignIn(r, level, need, cookie)
        PROVE  LsTypeOK'
    <2> DEFINE x == [IdleLs EXCEPT
                !.pc = IF cookie # 0 THEN "drop" ELSE IF MaxSso > 0 THEN "find" ELSE "create",
                !.kind = "login", !.sid = cookie, !.level = level, !.need = need]
    <2>1. x \in LrType
      <3>1. ASSUME NEW l \in LsPcs
            PROVE  [IdleLs EXCEPT !.pc = l, !.kind = "login", !.sid = cookie, !.level = level,
                                  !.need = need] \in LrType
        <4>1. cookie \in 0..NSso /\ level \in 0..3 /\ "login" \in LsKinds
          BY <1>0 DEF LsKinds, LsLevels
        <4> QED
          BY <4>1, IdleLsTyped, LrUpdates
      <3> QED
        BY <3>1 DEF LsPcs
    <2>2. lr' = [lr EXCEPT ![r] = x]
      BY <1>1 DEF LsSignIn
    <2> HIDE DEF x
    <2>3. lr' \in [LsReqs -> LrType]
      BY <1>0, <2>1, <2>2
    <2> QED
      BY <1>1, <2>3 DEF LsSignIn, LsTypeOK
  <1>2. ASSUME LsDrop(r) PROVE LsTypeOK'
    BY <1>2, WithoutFacts, LsMoves DEF LsDrop, LsTypeOK, LsPcs
  <1>3. ASSUME LsFind(r) PROVE LsTypeOK'
    <2>1. Oldest(SsoActive) \in SUBSET SsoIds
      BY DEF Oldest, SsoActive
    <2>2. lr' \in [LsReqs -> LrType]
      BY <1>0, <1>3, <2>1 DEF LsFind, LrType, LsPcs
    <2> QED
      BY <1>3, <2>2 DEF LsFind, LsTypeOK
  <1>4. ASSUME LsEvict(r) PROVE LsTypeOK'
    <2>1. lr' \in [LsReqs -> LrType]
      BY <1>0, <1>4 DEF LsEvict, LrType, LsPcs
    <2> QED
      BY <1>4, <2>1, WithoutFacts DEF LsEvict, LsTypeOK
  <1>5. ASSUME LsCreate(r) PROVE LsTypeOK'
    <2>1. nSso' = nSso + 1 /\ nSso' \in 1..NSso
      BY <1>0, <1>5 DEF LsCreate
    <2>2. [status |-> "live", acr |-> lr[r].level, expiresAt |-> lsNow + Life] \in SsoType
      BY <1>0 DEF SsoType, LrType
    <2>3. sso' \in [SsoIds -> SsoType]
      BY <1>0, <1>5, <2>1, <2>2 DEF LsCreate, SsoIds
    <2>4. lr' \in [LsReqs -> LrType]
      <3> DEFINE x == [lr[r] EXCEPT !.pc = "issue", !.sid = nSso']
      <3>1. x \in LrType
        <4>1. nSso' \in 0..NSso /\ "issue" \in LsPcs /\ "none" \in LsKinds /\ 0 \in 0..3
          BY <1>0, <2>1 DEF LsPcs, LsKinds
        <4> QED
          BY <1>0, <4>1, LrUpdates
      <3>2. lr' = [lr EXCEPT ![r] = x]
        BY <1>0, <1>5 DEF LsCreate
      <3> QED
        BY <1>0, <3>1, <3>2
    <2> QED
      BY <1>5, <2>1, <2>3, <2>4 DEF LsCreate, LsTypeOK
  <1>6. ASSUME LsIssue(r) PROVE LsTypeOK'
    BY <1>6, LsMoves DEF LsIssue, LsTypeOK, LsPcs
  <1>7. ASSUME NEW kind \in {"silent", "stepup", "admin"}, NEW s \in 1..nSso, NEW need \in 0..3,
               LsBegin(r, kind, s, need)
        PROVE  LsTypeOK'
    <2> DEFINE x == [IdleLs EXCEPT
                !.pc = "validate", !.kind = kind, !.sid = s, !.need = need, !.mfa = mfaRequired,
                !.since = lsNow, !.dead = Outdated(s), !.on = userOn]
    <2>1. Outdated(s) \in BOOLEAN
      BY DEF Outdated
    <2>2. x \in LrType
      <3>1. s \in 0..NSso /\ "validate" \in LsPcs /\ kind \in LsKinds /\ lsNow \in Nat
            /\ mfaRequired \in BOOLEAN /\ userOn \in BOOLEAN /\ 0 \in 0..3
        BY <1>0 DEF LsPcs, LsKinds, LsTypeOK
      <3>2. ASSUME NEW d \in BOOLEAN
            PROVE  [IdleLs EXCEPT !.pc = "validate", !.kind = kind, !.sid = s, !.need = need,
                                  !.mfa = mfaRequired, !.since = lsNow, !.dead = d,
                                  !.on = userOn] \in LrType
        BY <3>1, IdleLsTyped DEF LrType
      <3> QED
        BY <2>1, <3>2
    <2>3. lr' = [lr EXCEPT ![r] = x]
      BY <1>7 DEF LsBegin
    <2> HIDE DEF x
    <2>4. lr' \in [LsReqs -> LrType]
      BY <1>0, <2>2, <2>3
    <2> QED
      BY <1>7, <2>4 DEF LsBegin, LsTypeOK
  <1>8. ASSUME LsValidate(r) \/ LsStepUps(r) \/ LsAdmin(r) PROVE LsTypeOK'
    BY <1>8, LsMoves DEF LsValidate, LsStepUps, LsAdmin, LsTypeOK, LsPcs
  <1>9. ASSUME LsLookup(r) PROVE LsTypeOK'
    <2>1. \/ \E l \in LsPcs : LsGoto(r, l)
          \/ LsFinish(r)
          \/ lr' = [lr EXCEPT ![r].pc = "issue", ![r].level = 1]
      BY <1>9 DEF LsLookup, LsPcs
    <2>2. lr' \in [LsReqs -> LrType]
      <3>1. CASE lr' = [lr EXCEPT ![r].pc = "issue", ![r].level = 1]
        <4>1. [lr[r] EXCEPT !.pc = "issue", !.level = 1] \in LrType
          <5>1. 1 \in 0..3 /\ "issue" \in LsPcs /\ "none" \in LsKinds /\ 0 \in 0..NSso
            BY <1>0 DEF LsPcs, LsKinds
          <5> QED
            BY <1>0, <5>1, LrUpdates
        <4>2. lr' = [lr EXCEPT ![r] = [lr[r] EXCEPT !.pc = "issue", !.level = 1]]
          BY <1>0, <3>1
        <4> QED
          BY <1>0, <4>1, <4>2
      <3> QED
        BY <2>1, <3>1, LsMoves
    <2> QED
      BY <1>9, <2>2 DEF LsLookup, LsTypeOK
  <1>10. ASSUME LsAcr(r) PROVE LsTypeOK'
    <2>1. CASE SsoLevel(lr[r].sid) >= lr[r].need
      <3>1. SsoLevel(lr[r].sid) \in LsLevels
        BY SsoLevelFacts
      <3>2. lr' \in [LsReqs -> LrType]
        BY <1>0, <1>10, <2>1, <3>1 DEF LsAcr, LrType, LsPcs, LsLevels
      <3> QED
        BY <1>10, <3>2 DEF LsAcr, LsTypeOK
    <2>2. CASE ~(SsoLevel(lr[r].sid) >= lr[r].need)
      BY <1>10, <2>2, LsMoves DEF LsAcr, LsTypeOK
    <2> QED
      BY <2>1, <2>2
  <1>11. ASSUME NEW own \in BOOLEAN, LsFactor(r, own) PROVE LsTypeOK'
    <2>1. CASE own
      <3>1. lr' \in [LsReqs -> LrType]
        BY <1>0, <1>11, <2>1 DEF LsFactor, LrType, LsPcs
      <3> QED
        BY <1>11, <3>1 DEF LsFactor, LsTypeOK
    <2>2. CASE ~own
      BY <1>11, <2>2, LsMoves DEF LsFactor, LsTypeOK
    <2> QED
      BY <2>1, <2>2
  <1>12. ASSUME LsRecord(r) PROVE LsTypeOK'
    <2>1. [sid |-> lr[r].sid, level |-> lr[r].need, until |-> lsNow + Cache] \in StepUpType
      BY <1>0 DEF StepUpType, LrType
    <2>2. steps' \subseteq StepUpType /\ earned' \subseteq StepUpType
      BY <1>12, <2>1 DEF LsRecord, LsTypeOK
    <2>3. lr' \in [LsReqs -> LrType]
      BY <1>12, LsMoves DEF LsRecord
    <2> QED
      BY <1>12, <2>2, <2>3 DEF LsRecord, LsTypeOK
  <1>13. ASSUME LsAbort(r) PROVE LsTypeOK'
    BY <1>13, LsMoves DEF LsAbort, LsTypeOK
  <1> QED
    BY <1>1, <1>2, <1>3, <1>4, <1>5, <1>6, <1>7, <1>8, <1>9, <1>10, <1>11, <1>12, <1>13
       DEF LsStep, LsLevels

\* The initial state is typed, and so is every state.
LEMMA LsTypeInit == ASSUME LsInit PROVE LsTypeOK
  <1>1. NoSso \in SsoType /\ nSso \in 0..NSso /\ lsNow \in Nat
    BY LoginSessionsAssumption DEF NoSso, SsoType, LsInit
  <1> QED
    BY <1>1, IdleLsTyped DEF LsInit, LsTypeOK

\* Whatever happens keeps the types.
LEMMA LsTypeNext == ASSUME LsTypeOK, [LsNext]_lsVars PROVE LsTypeOK'
  <1>1. ASSUME NEW r \in LsReqs, LsStep(r) PROVE LsTypeOK'
    BY <1>1, LsTypeStep
  <1>2. ASSUME NEW S, LsRevoke(S) PROVE LsTypeOK'
    BY <1>2, WithoutFacts DEF LsRevoke, LsTypeOK
  <1>3. ASSUME LsSweep PROVE LsTypeOK'
    BY <1>3, WithoutFacts DEF LsSweep, LsTypeOK
  <1>4. ASSUME LsSweepSteps PROVE LsTypeOK'
    BY <1>4 DEF LsSweepSteps, LsTypeOK
  <1>5. ASSUME LsSetUser PROVE LsTypeOK'
    <2>1. ASSUME NEW r \in LsReqs PROVE lr'[r] \in LrType
      <3>1. lr[r] \in LrType
        BY DEF LsTypeOK
      <3> QED
        BY <1>5, <3>1 DEF LsSetUser, LrType
    <2>2. lr' \in [LsReqs -> LrType]
      BY <1>5, <2>1 DEF LsSetUser
    <2> QED
      BY <1>5, <2>2 DEF LsSetUser, LsTypeOK
  <1>6. ASSUME LsSetMfa PROVE LsTypeOK'
    BY <1>6 DEF LsSetMfa, LsTypeOK
  <1>7. ASSUME LsTick PROVE LsTypeOK'
    BY <1>7 DEF LsTick, LsTypeOK
  <1>8. ASSUME UNCHANGED lsVars PROVE LsTypeOK'
    BY <1>8 DEF lsVars, LsTypeOK
  <1> QED
    BY <1>1, <1>2, <1>3, <1>4, <1>5, <1>6, <1>7, <1>8 DEF LsNext

-----------------------------------------------------------------------------
(* What a session's cookie obtains.  A request carries what it has been     *)
(* shown so far: once validated, that the session was not over when it came *)
(* and the user was enabled since; past the test for a second factor, that  *)
(* there is one; with a level, where the level comes from.  A record in the *)
(* table is always one the session's own user proved.                       *)

CookieUse  == {"silent", "stepup", "admin"}
SignInPcs  == {"drop", "find", "evict", "create"}
CookiePcs  == {"validate", "mfa", "lookup", "acr", "admin", "granted", "factor", "record"}

LsReqInv(r) ==
    /\ lr[r].pc \in SignInPcs => lr[r].kind = "login"
    /\ lr[r].pc \in CookiePcs => lr[r].kind \in CookieUse
    /\ lr[r].pc = "acr" => lr[r].kind = "silent"
    /\ lr[r].pc = "record" => lr[r].own
    /\ lr[r].kind \in CookieUse =>
         /\ lr[r].sid \in 1..nSso /\ lr[r].since <= lsNow
         /\ lr[r].dead => Outdated(lr[r].sid)
         /\ lr[r].pc = "validate" /\ userOn => lr[r].on
         /\ lr[r].pc # "validate" => ~lr[r].dead /\ lr[r].on
         /\ lr[r].pc \notin {"validate", "mfa"} /\ lr[r].mfa /\ sso[lr[r].sid].acr < LsMfa =>
              Proved(r, LsMfa)
    /\ lr[r].kind = "silent" /\ lr[r].pc \in {"issue", "issued"} =>
         /\ lr[r].level > 1 /\ lr[r].level > sso[lr[r].sid].acr => Proved(r, lr[r].level)
         /\ lr[r].level < lr[r].need => sso[lr[r].sid].status = "gone"
    /\ lr[r].pc = "granted" => Proved(r, LsMfa)

SsoRows == \A s \in SsoIds : sso[s].status = "none" <=> s > nSso

LsCookieInv ==
    /\ SsoRows
    /\ steps \subseteq earned
    /\ \A r \in LsReqs : LsReqInv(r)

\* What no step undoes.
LsGrows ==
    /\ nSso <= nSso' /\ lsNow <= lsNow' /\ earned \subseteq earned'
    /\ \A s \in 1..nSso :
         /\ sso'[s].acr = sso[s].acr /\ sso'[s].expiresAt = sso[s].expiresAt
         /\ sso[s].status = "gone" => sso'[s].status = "gone"

\* The request is not the one that takes the step.
LsUntouched(r) ==
    /\ lr'[r].pc = lr[r].pc /\ lr'[r].kind = lr[r].kind /\ lr'[r].sid = lr[r].sid
    /\ lr'[r].level = lr[r].level /\ lr'[r].need = lr[r].need /\ lr'[r].mfa = lr[r].mfa
    /\ lr'[r].own = lr[r].own /\ lr'[r].since = lr[r].since /\ lr'[r].dead = lr[r].dead
    /\ lr[r].on => lr'[r].on
    /\ lr[r].pc = "validate" /\ userOn' => lr'[r].on

\* A request keeps what it knows while others act.
LEMMA LsReqKept ==
    ASSUME LsTypeOK, LsTypeOK', LsGrows, NEW r \in LsReqs, LsReqInv(r), LsUntouched(r)
    PROVE  LsReqInv(r)'
  <1>1. \A l : Proved(r, l) => Proved(r, l)'
    BY DEF Proved, LsGrows, LsUntouched
  <1>2. /\ lr[r] \in LrType /\ nSso \in Nat /\ nSso' \in Nat /\ lsNow \in Nat /\ lsNow' \in Nat
        /\ NSso \in Nat /\ nSso <= NSso
    BY LoginSessionsAssumption DEF LsTypeOK
  <1>3. CASE lr[r].kind \in CookieUse
    <2>1. lr[r].sid \in 1..nSso /\ lr[r].since <= lsNow /\ lr[r].since \in Nat
      BY <1>2, <1>3 DEF LsReqInv, LrType
    <2>2. lr[r].sid \in 1..nSso' /\ lr[r].since <= lsNow' /\ lr[r].sid \in SsoIds
      BY <1>2, <2>1 DEF LsGrows, SsoIds
    <2>3. sso[lr[r].sid] \in SsoType
      BY <2>2 DEF LsTypeOK
    <2>4. Outdated(lr[r].sid) => Outdated(lr[r].sid)'
      BY <1>2, <2>1, <2>3 DEF Outdated, LsGrows, LsUntouched, SsoType
    <2>5. /\ sso'[lr[r].sid].acr = sso[lr[r].sid].acr
          /\ sso[lr[r].sid].status = "gone" => sso'[lr[r].sid].status = "gone"
      BY <2>1 DEF LsGrows
    <2> QED
      BY <1>1, <1>3, <2>2, <2>4, <2>5 DEF LsReqInv, LsUntouched
  <1>4. CASE lr[r].kind \notin CookieUse
    BY <1>1, <1>4 DEF LsReqInv, LsUntouched, CookieUse, CookiePcs
  <1> QED
    BY <1>3, <1>4

\* Rows are made in the order of their numbers and never come back.
LEMMA LsGrowsNext ==
    ASSUME LsTypeOK, SsoRows, [LsNext]_lsVars
    PROVE  LsGrows /\ SsoRows'
  <1>0. /\ nSso \in Nat /\ lsNow \in Nat /\ NSso \in Nat /\ nSso <= NSso
        /\ sso \in [SsoIds -> SsoType] /\ 1..nSso \subseteq SsoIds
    BY LoginSessionsAssumption DEF LsTypeOK, SsoIds
  <1>1. ASSUME NEW S, sso' = Without(S), lsNow' = lsNow, nSso' = nSso, earned' = earned
        PROVE  LsGrows /\ SsoRows'
    <2>1. \A s \in SsoIds :
                /\ sso'[s].acr = sso[s].acr /\ sso'[s].expiresAt = sso[s].expiresAt
                /\ sso'[s].status = IF s \in S /\ sso[s].status = "live" THEN "gone"
                                          ELSE sso[s].status
      BY <1>1, WithoutFacts
    <2> QED
      BY <1>0, <1>1, <2>1 DEF LsGrows, SsoRows
  <1>2. ASSUME NEW r \in LsReqs, LsCreate(r) PROVE LsGrows /\ SsoRows'
    <2>1. nSso' = nSso + 1 /\ nSso' \in SsoIds /\ lsNow' = lsNow /\ earned' = earned
      BY <1>0, <1>2 DEF LsCreate, SsoIds
    <2>2. /\ sso'[nSso'].status = "live"
          /\ \A s \in SsoIds : s # nSso' => sso'[s] = sso[s]
      BY <1>0, <1>2, <2>1 DEF LsCreate
    <2>3. LsGrows
      <3>1. \A s \in 1..nSso : s # nSso' /\ s \in SsoIds
        BY <1>0, <2>1
      <3> QED
        BY <1>0, <2>1, <2>2, <3>1 DEF LsGrows
    <2>4. ASSUME NEW s \in SsoIds PROVE sso'[s].status = "none" <=> s > nSso'
      <3>1. CASE s = nSso'
        BY <1>0, <2>1, <2>2, <3>1
      <3>2. CASE s # nSso'
        <4>1. s > nSso' <=> s > nSso
          BY <1>0, <2>1, <3>2 DEF SsoIds
        <4> QED
          BY <2>2, <3>2, <4>1 DEF SsoRows
      <3> QED
        BY <3>1, <3>2
    <2> QED
      BY <2>3, <2>4 DEF SsoRows
  <1>3. ASSUME sso' = sso, nSso' = nSso, earned \subseteq earned',
               lsNow' = lsNow \/ lsNow' = lsNow + 1
        PROVE  LsGrows /\ SsoRows'
    BY <1>0, <1>3 DEF LsGrows, SsoRows
  <1>4. ASSUME NEW r \in LsReqs, LsStep(r) PROVE LsGrows /\ SsoRows'
    <2>1. CASE LsDrop(r) \/ LsEvict(r)
      BY <1>1, <2>1 DEF LsDrop, LsEvict
    <2>2. CASE LsCreate(r)
      BY <1>2, <2>2
    <2>3. CASE ~(LsDrop(r) \/ LsEvict(r) \/ LsCreate(r))
      <3>1. sso' = sso /\ nSso' = nSso /\ earned \subseteq earned' /\ lsNow' = lsNow
        BY <1>4, <2>3 DEF LsStep, LsSignIn, LsFind, LsIssue, LsBegin, LsValidate, LsStepUps,
                          LsLookup, LsAcr, LsAdmin, LsFactor, LsRecord, LsAbort
      <3> QED
        BY <1>3, <3>1
    <2> QED
      BY <2>1, <2>2, <2>3
  <1>5. ASSUME NEW S, LsRevoke(S) PROVE LsGrows /\ SsoRows'
    BY <1>1, <1>5 DEF LsRevoke
  <1>6. ASSUME LsSweep PROVE LsGrows /\ SsoRows'
    BY <1>1, <1>6 DEF LsSweep
  <1>7. ASSUME LsSweepSteps \/ LsSetUser \/ LsSetMfa \/ LsTick \/ UNCHANGED lsVars
        PROVE  LsGrows /\ SsoRows'
    BY <1>3, <1>7 DEF LsSweepSteps, LsSetUser, LsSetMfa, LsTick, lsVars
  <1> QED
    BY <1>4, <1>5, <1>6, <1>7 DEF LsNext

\* A record found in the table proves the level to the request that asks.
LEMMA StepUpProves ==
    ASSUME LsTypeOK, steps \subseteq earned, NEW r \in LsReqs, NEW l,
           lr[r].since <= lsNow, StepUp(lr[r].sid, l)
    PROVE  Proved(r, l)
  <1>1. PICK p \in steps : p.sid = lr[r].sid /\ p.level >= l /\ p.until > lsNow
    BY DEF StepUp
  <1>2. p \in StepUpType /\ p \in earned /\ lr[r] \in LrType /\ lsNow \in Nat
    BY <1>1 DEF LsTypeOK
  <1>3. p.until > lr[r].since
    BY <1>1, <1>2 DEF StepUpType, LrType
  <1> QED
    BY <1>1, <1>2, <1>3 DEF Proved

\* The request that acts changes its place and its level at most.
LsSameUse(r) ==
    /\ lr'[r].kind = lr[r].kind /\ lr'[r].sid = lr[r].sid /\ lr'[r].need = lr[r].need
    /\ lr'[r].mfa = lr[r].mfa /\ lr'[r].since = lr[r].since /\ lr'[r].dead = lr[r].dead
    /\ lr'[r].on = lr[r].on
    /\ UNCHANGED <<lsNow, sso, nSso, earned, userOn>>

\* Reading on, a request knows what it read.
LEMMA LsUseStep ==
    ASSUME LsTypeOK, LsCookieInv, NEW r \in LsReqs,
           \/ LsValidate(r) \/ LsStepUps(r) \/ LsLookup(r) \/ LsAcr(r) \/ LsAdmin(r)
           \/ LsIssue(r) \/ \E own \in BOOLEAN : LsFactor(r, own)
    PROVE  LsReqInv(r)'
  <1>0. lr[r] \in LrType /\ LsReqInv(r) /\ steps \subseteq earned
    BY LsMoves DEF LsCookieInv
  <1>a. ASSUME lr'[r] = IdleLs PROVE LsReqInv(r)'
    BY <1>a DEF IdleLs, LsReqInv, SignInPcs, CookiePcs, CookieUse
  <1>b. ASSUME LsSameUse(r)
        PROVE  /\ \A l : Proved(r, l)' <=> Proved(r, l)
               /\ Outdated(lr[r].sid)' <=> Outdated(lr[r].sid)
    BY <1>b DEF LsSameUse, Proved, Outdated
  <1>1. ASSUME LsValidate(r) PROVE LsReqInv(r)'
    <2>1. CASE LsFinish(r)
      BY <1>a, <2>1, LsMoves
    <2>2. CASE ~(Outdated(lr[r].sid) \/ ~userOn)
      <3>1. PICK l \in {"mfa", "lookup"} :
                /\ LsGoto(r, l)
                /\ l = "lookup" => ~(lr[r].mfa /\ sso[lr[r].sid].acr < LsMfa)
        BY <1>1, <2>2 DEF LsValidate
      <3>2. lr'[r] = [lr[r] EXCEPT !.pc = l]
        BY <3>1, LsMoves DEF LsPcs
      <3>3. LsSameUse(r) /\ lr'[r].pc = l
        BY <1>0, <1>1, <3>2 DEF LrType, LsValidate, LsSameUse
      <3>4. /\ lr[r].kind \in CookieUse /\ ~lr[r].dead /\ lr[r].on
            /\ lr[r].sid \in 1..nSso /\ lr[r].since <= lsNow
        BY <1>0, <1>1, <2>2 DEF LsReqInv, LsValidate, CookiePcs
      <3> QED
        BY <1>b, <3>1, <3>3, <3>4 DEF LsReqInv, LsSameUse, SignInPcs, CookiePcs
    <2> QED
      BY <1>1, <2>1, <2>2 DEF LsValidate
  <1>2. ASSUME LsStepUps(r) PROVE LsReqInv(r)'
    <2>1. CASE LsFinish(r)
      BY <1>a, <2>1, LsMoves
    <2>2. CASE StepUp(lr[r].sid, LsMfa)
      <3>1. /\ lr[r].kind \in CookieUse /\ ~lr[r].dead /\ lr[r].on
            /\ lr[r].sid \in 1..nSso /\ lr[r].since <= lsNow
        BY <1>0, <1>2 DEF LsReqInv, LsStepUps, CookiePcs
      <3>2. Proved(r, LsMfa)
        BY <1>0, <2>2, <3>1, StepUpProves
      <3>3. lr'[r] = [lr[r] EXCEPT !.pc = "lookup"]
        BY <1>2, <2>2, LsMoves DEF LsPcs, LsStepUps
      <3>4. LsSameUse(r) /\ lr'[r].pc = "lookup"
        BY <1>0, <1>2, <3>3 DEF LrType, LsStepUps, LsSameUse
      <3> QED
        BY <1>b, <3>1, <3>2, <3>4 DEF LsReqInv, LsSameUse, SignInPcs, CookiePcs
    <2> QED
      BY <1>2, <2>1, <2>2 DEF LsStepUps
  <1>3. ASSUME LsLookup(r) PROVE LsReqInv(r)'
    <2>0. /\ lr[r].kind \in CookieUse /\ ~lr[r].dead /\ lr[r].on
          /\ lr[r].sid \in 1..nSso /\ lr[r].since <= lsNow
          /\ lr[r].mfa /\ sso[lr[r].sid].acr < LsMfa => Proved(r, LsMfa)
      BY <1>0, <1>3 DEF LsReqInv, LsLookup, CookiePcs
    <2>1. CASE LsFinish(r)
      BY <1>a, <2>1, LsMoves
    <2>2. CASE sso[lr[r].sid].status = "live"
      <3>1. PICK l \in {"acr", "factor", "admin"} :
                LsGoto(r, l) /\ (l = "acr" => lr[r].kind = "silent")
        BY <1>3, <2>2 DEF LsLookup
      <3>2. lr'[r] = [lr[r] EXCEPT !.pc = l]
        BY <3>1, LsMoves DEF LsPcs
      <3>3. LsSameUse(r) /\ lr'[r].pc = l
        BY <1>0, <1>3, <3>2 DEF LrType, LsLookup, LsSameUse
      <3> QED
        BY <1>b, <2>0, <3>1, <3>3 DEF LsReqInv, LsSameUse, SignInPcs, CookiePcs
    <2>3. CASE sso[lr[r].sid].status # "live" /\ lr[r].kind = "silent"
      <3>1. lr' = [lr EXCEPT ![r].pc = "issue", ![r].level = 1]
        BY <1>3, <2>3 DEF LsLookup
      <3>2. lr'[r] = [lr[r] EXCEPT !.pc = "issue", !.level = 1]
        BY <3>1 DEF LsTypeOK
      <3>3. LsSameUse(r) /\ lr'[r].pc = "issue" /\ lr'[r].level = 1
        BY <1>0, <1>3, <3>2 DEF LrType, LsLookup, LsSameUse
      <3>4. sso[lr[r].sid].status = "gone"
        <4>1. lr[r].sid \in SsoIds /\ ~(lr[r].sid > nSso) /\ sso[lr[r].sid] \in SsoType
          BY <2>0, LoginSessionsAssumption DEF SsoIds, LsTypeOK
        <4> QED
          BY <2>3, <4>1 DEF LsCookieInv, SsoRows, SsoType
      <3> QED
        BY <1>b, <2>0, <3>3, <3>4 DEF LsReqInv, LsSameUse, SignInPcs, CookiePcs
    <2> QED
      BY <1>3, <2>1, <2>2, <2>3 DEF LsLookup
  <1>4. ASSUME LsAcr(r) PROVE LsReqInv(r)'
    <2> DEFINE level == SsoLevel(lr[r].sid)
    <2>0. /\ lr[r].kind = "silent" /\ lr[r].kind \in CookieUse /\ ~lr[r].dead /\ lr[r].on
          /\ lr[r].sid \in 1..nSso /\ lr[r].since <= lsNow
          /\ lr[r].mfa /\ sso[lr[r].sid].acr < LsMfa => Proved(r, LsMfa)
      BY <1>0, <1>4 DEF LsReqInv, LsAcr, CookiePcs
    <2>1. CASE LsFinish(r)
      BY <1>a, <2>1, LsMoves
    <2>2. CASE level >= lr[r].need
      <3>1. lr'[r] = [lr[r] EXCEPT !.pc = "issue", !.level = level]
        BY <1>4, <2>2 DEF LsAcr, LsTypeOK
      <3>2. LsSameUse(r) /\ lr'[r].pc = "issue" /\ lr'[r].level = level
        BY <1>0, <1>4, <3>1 DEF LrType, LsAcr, LsSameUse
      <3>3. level \in LsLevels /\ Holds(lr[r].sid, level)
        BY SsoLevelFacts
      <3>4. lr[r].sid \in SsoIds /\ sso[lr[r].sid] \in SsoType
        BY <2>0, LoginSessionsAssumption DEF SsoIds, LsTypeOK
      <3>5. level > 1 /\ level > sso[lr[r].sid].acr => Proved(r, level)
        <4>1. SUFFICES ASSUME level > 1, level > sso[lr[r].sid].acr PROVE Proved(r, level)
          OBVIOUS
        <4>2. StepUp(lr[r].sid, level)
          BY <3>3, <3>4, <4>1 DEF Holds, SsoType, LsLevels
        <4> QED
          BY <1>0, <2>0, <4>2, StepUpProves
      <3>6. ~(level < lr[r].need)
        BY <1>0, <2>2, <3>3 DEF LrType, LsLevels
      <3> HIDE DEF level
      <3> QED
        BY <1>b, <2>0, <3>2, <3>5, <3>6 DEF LsReqInv, LsSameUse, SignInPcs, CookiePcs
    <2> QED
      BY <1>4, <2>1, <2>2 DEF LsAcr
  <1>5. ASSUME LsAdmin(r) PROVE LsReqInv(r)'
    <2>1. CASE LsFinish(r)
      BY <1>a, <2>1, LsMoves
    <2>2. CASE StepUp(lr[r].sid, LsMfa)
      <3>1. /\ lr[r].kind \in CookieUse /\ ~lr[r].dead /\ lr[r].on
            /\ lr[r].sid \in 1..nSso /\ lr[r].since <= lsNow
        BY <1>0, <1>5 DEF LsReqInv, LsAdmin, CookiePcs
      <3>2. Proved(r, LsMfa)
        BY <1>0, <2>2, <3>1, StepUpProves
      <3>3. lr'[r] = [lr[r] EXCEPT !.pc = "granted"]
        BY <1>5, <2>2, LsMoves DEF LsPcs, LsAdmin
      <3>4. LsSameUse(r) /\ lr'[r].pc = "granted"
        BY <1>0, <1>5, <3>3 DEF LrType, LsAdmin, LsSameUse
      <3> QED
        BY <1>b, <3>1, <3>2, <3>4 DEF LsReqInv, LsSameUse, SignInPcs, CookiePcs
    <2> QED
      BY <1>5, <2>1, <2>2 DEF LsAdmin
  <1>6. ASSUME LsIssue(r) PROVE LsReqInv(r)'
    <2>1. lr'[r] = [lr[r] EXCEPT !.pc = "issued"] /\ lr[r].pc = "issue"
      BY <1>6, LsMoves DEF LsPcs, LsIssue
    <2>2. LsSameUse(r) /\ lr'[r].pc = "issued" /\ lr'[r].level = lr[r].level
      BY <1>0, <1>6, <2>1 DEF LrType, LsIssue, LsSameUse
    <2> QED
      BY <1>0, <1>b, <2>1, <2>2 DEF LsReqInv, LsSameUse, SignInPcs, CookiePcs
  <1>7. ASSUME NEW own \in BOOLEAN, LsFactor(r, own) PROVE LsReqInv(r)'
    <2>1. CASE LsFinish(r)
      BY <1>a, <2>1, LsMoves
    <2>2. CASE own
      <3>1. lr'[r] = [lr[r] EXCEPT !.pc = "record", !.own = own] /\ lr[r].pc = "factor"
        BY <1>7, <2>2 DEF LsFactor, LsTypeOK
      <3>2. LsSameUse(r) /\ lr'[r].pc = "record" /\ lr'[r].own
        BY <1>0, <1>7, <2>2, <3>1 DEF LrType, LsFactor, LsSameUse
      <3> QED
        BY <1>0, <1>b, <3>1, <3>2 DEF LsReqInv, LsSameUse, SignInPcs, CookiePcs
    <2> QED
      BY <1>7, <2>1, <2>2 DEF LsFactor
  <1> QED
    BY <1>1, <1>2, <1>3, <1>4, <1>5, <1>6, <1>7

\* A request that begins, signs in, records or is aborted.
LEMMA LsOtherStep ==
    ASSUME LsTypeOK, LsTypeOK', LsCookieInv, NEW r \in LsReqs,
           \/ \E level \in LsLevels, need \in 0..3, cookie \in 0..nSso :
                LsSignIn(r, level, need, cookie)
           \/ \E kind \in CookieUse, s \in 1..nSso, need \in 0..3 : LsBegin(r, kind, s, need)
           \/ LsDrop(r) \/ LsFind(r) \/ LsEvict(r) \/ LsCreate(r) \/ LsRecord(r) \/ LsAbort(r)
    PROVE  LsReqInv(r)'
  <1>0. lr[r] \in LrType /\ LsReqInv(r) /\ lr'[r] \in LrType
    BY LsMoves DEF LsCookieInv, LsTypeOK
  <1>a. ASSUME lr'[r].kind = "login", lr'[r].pc \in SignInPcs \cup {"issue"} PROVE LsReqInv(r)'
    BY <1>a DEF LsReqInv, SignInPcs, CookiePcs, CookieUse
  <1>b. ASSUME lr'[r] = IdleLs PROVE LsReqInv(r)'
    BY <1>b DEF IdleLs, LsReqInv, SignInPcs, CookiePcs, CookieUse
  <1>1. ASSUME NEW level \in LsLevels, NEW need \in 0..3, NEW cookie \in 0..nSso,
               LsSignIn(r, level, need, cookie)
        PROVE  LsReqInv(r)'
    <2>1. lr'[r] = [IdleLs EXCEPT
                !.pc = IF cookie # 0 THEN "drop" ELSE IF MaxSso > 0 THEN "find" ELSE "create",
                !.kind = "login", !.sid = cookie, !.level = level, !.need = need]
      BY <1>1 DEF LsSignIn, LsTypeOK
    <2>2. lr'[r].kind = "login" /\ lr'[r].pc \in SignInPcs
      BY <2>1 DEF IdleLs, SignInPcs
    <2> QED
      BY <1>a, <2>2
  <1>2. ASSUME NEW kind \in CookieUse, NEW s \in 1..nSso, NEW need \in 0..3,
               LsBegin(r, kind, s, need)
        PROVE  LsReqInv(r)'
    <2>1. lr'[r] = [IdleLs EXCEPT
                !.pc = "validate", !.kind = kind, !.sid = s, !.need = need, !.mfa = mfaRequired,
                !.since = lsNow, !.dead = Outdated(s), !.on = userOn]
      BY <1>2 DEF LsBegin, LsTypeOK
    <2>2. /\ lr'[r].pc = "validate" /\ lr'[r].kind = kind /\ lr'[r].sid = s
          /\ lr'[r].since = lsNow /\ lr'[r].dead = Outdated(s) /\ lr'[r].on = userOn
      BY <2>1 DEF IdleLs
    <2>3. nSso' = nSso /\ lsNow' = lsNow /\ sso' = sso /\ userOn' = userOn
      BY <1>2 DEF LsBegin
    <2>4. lr'[r].dead => Outdated(lr[r].sid)'
      BY <2>2, <2>3 DEF Outdated
    <2>5. lr'[r].since <= lsNow' /\ lr'[r].sid \in 1..nSso'
      BY <2>2, <2>3 DEF LsTypeOK
    <2> QED
      BY <2>2, <2>3, <2>4, <2>5 DEF LsReqInv, SignInPcs, CookiePcs, CookieUse
  <1>3. ASSUME LsDrop(r) \/ LsFind(r) \/ LsEvict(r) PROVE LsReqInv(r)'
    <2>1. lr[r].pc \in SignInPcs /\ lr'[r].kind = lr[r].kind /\ lr'[r].pc \in SignInPcs
      BY <1>3, <1>0 DEF LsDrop, LsFind, LsEvict, SignInPcs, LsGoto, LsTypeOK, LrType
    <2> QED
      BY <1>0, <1>a, <2>1 DEF LsReqInv
  <1>4. ASSUME LsCreate(r) PROVE LsReqInv(r)'
    <2>1. lr[r].pc = "create" /\ lr'[r] = [lr[r] EXCEPT !.pc = "issue", !.sid = nSso']
      BY <1>4 DEF LsCreate, LsTypeOK
    <2>2. lr'[r].kind = lr[r].kind /\ lr'[r].pc = "issue"
      BY <1>0, <2>1 DEF LrType
    <2> QED
      BY <1>0, <1>a, <2>1, <2>2 DEF LsReqInv, SignInPcs
  <1>5. ASSUME LsRecord(r) \/ LsAbort(r) PROVE LsReqInv(r)'
    BY <1>5, <1>b, LsMoves DEF LsRecord, LsAbort
  <1> QED
    BY <1>1, <1>2, <1>3, <1>4, <1>5

\* The invariant holds at the beginning.
LEMMA LsCookieInit == ASSUME LsInit PROVE LsCookieInv
  <1>1. SsoRows
    BY LoginSessionsAssumption DEF LsInit, SsoRows, NoSso, SsoIds
  <1>2. ASSUME NEW r \in LsReqs PROVE LsReqInv(r)
    <2>1. lr[r] = IdleLs
      BY DEF LsInit
    <2> QED
      BY <2>1 DEF IdleLs, LsReqInv, SignInPcs, CookiePcs, CookieUse
  <1> QED
    BY <1>1, <1>2 DEF LsInit, LsCookieInv

\* The invariant is inductive.
LEMMA LsCookieNext ==
    ASSUME LsTypeOK, LsCookieInv, [LsNext]_lsVars
    PROVE  LsCookieInv'
  <1>1. LsTypeOK' /\ LsGrows /\ SsoRows'
    BY LsTypeNext, LsGrowsNext DEF LsCookieInv
  <1>2. ASSUME NEW q \in LsReqs, lr'[q] = lr[q], userOn' = userOn PROVE LsReqInv(q)'
    BY <1>1, <1>2, LsReqKept DEF LsCookieInv, LsUntouched, LsReqInv, CookiePcs
  <1>3. ASSUME NEW r \in LsReqs, LsStep(r) PROVE LsCookieInv'
    <2>1. userOn' = userOn
      BY <1>3 DEF LsStep, LsSignIn, LsDrop, LsFind, LsEvict, LsCreate, LsIssue, LsBegin,
                  LsValidate, LsStepUps, LsLookup, LsAcr, LsAdmin, LsFactor, LsRecord, LsAbort
    <2>2. ASSUME NEW q \in LsReqs, q # r PROVE lr'[q] = lr[q]
      BY <1>3, <2>2 DEF LsStep, LsSignIn, LsDrop, LsFind, LsEvict, LsCreate, LsIssue, LsBegin,
            LsValidate, LsStepUps, LsLookup, LsAcr, LsAdmin, LsFactor, LsRecord, LsAbort,
            LsGoto, LsFinish, LsTypeOK
    <2>3. LsReqInv(r)'
      <3>1. \/ LsValidate(r) \/ LsStepUps(r) \/ LsLookup(r) \/ LsAcr(r) \/ LsAdmin(r)
            \/ LsIssue(r) \/ \E own \in BOOLEAN : LsFactor(r, own)
            \/ \E level \in LsLevels, need \in 0..3, cookie \in 0..nSso :
                 LsSignIn(r, level, need, cookie)
            \/ \E kind \in CookieUse, s \in 1..nSso, need \in 0..3 : LsBegin(r, kind, s, need)
            \/ LsDrop(r) \/ LsFind(r) \/ LsEvict(r) \/ LsCreate(r) \/ LsRecord(r) \/ LsAbort(r)
        BY <1>3 DEF LsStep, CookieUse, LsLevels
      <3> QED
        BY <1>1, <3>1, LsUseStep, LsOtherStep
    <2>4. steps' \subseteq earned'
      <3>1. CASE LsRecord(r)
        <4>1. lr[r].own
          BY <3>1 DEF LsRecord, LsCookieInv, LsReqInv
        <4> QED
          BY <3>1, <4>1 DEF LsRecord, LsCookieInv
      <3>2. CASE ~LsRecord(r)
        <4>1. steps' = steps /\ earned' = earned
          BY <1>3, <3>2 DEF LsStep, LsSignIn, LsDrop, LsFind, LsEvict, LsCreate, LsIssue,
                LsBegin, LsValidate, LsStepUps, LsLookup, LsAcr, LsAdmin, LsFactor, LsAbort
        <4> QED
          BY <4>1 DEF LsCookieInv
      <3> QED
        BY <3>1, <3>2
    <2> QED
      BY <1>1, <1>2, <2>1, <2>2, <2>3, <2>4 DEF LsCookieInv
  <1>4. ASSUME LsSetUser PROVE LsCookieInv'
    <2>1. ASSUME NEW q \in LsReqs PROVE LsReqInv(q)'
      <3>1. lr[q] \in LrType
        BY DEF LsTypeOK
      <3>2. LsUntouched(q)
        <4>1. lr'[q] = IF lr[q].pc \in Ended THEN lr[q]
                       ELSE [lr[q] EXCEPT !.on = lr[q].on \/ userOn']
          BY <1>4 DEF LsSetUser
        <4> QED
          BY <3>1, <4>1 DEF LsUntouched, LrType, Ended
      <3> QED
        BY <1>1, <3>2, LsReqKept DEF LsCookieInv
    <2> QED
      BY <1>1, <1>4, <2>1 DEF LsSetUser, LsCookieInv
  <1>5. ASSUME \/ \E S : LsRevoke(S)
               \/ LsSweep \/ LsSweepSteps \/ LsSetMfa \/ LsTick \/ UNCHANGED lsVars
        PROVE  LsCookieInv'
    <2>1. lr' = lr /\ userOn' = userOn /\ earned' = earned /\ steps' \subseteq steps
      BY <1>5 DEF LsRevoke, LsSweep, LsSweepSteps, LsSetMfa, LsTick, lsVars
    <2> QED
      BY <1>1, <1>2, <2>1 DEF LsCookieInv
  <1> QED
    BY <1>3, <1>4, <1>5 DEF LsNext

\* Both invariants hold in every state.
LEMMA LsInvariant == LsSpec => [](LsTypeOK /\ LsCookieInv)
  BY LsTypeInit, LsTypeNext, LsCookieInit, LsCookieNext, PTL DEF LsSpec

(* A code issued by silent SSO is backed by what the session's own user     *)
(* proved (validateLoginSession, getLoginSessionAcr), for any number of     *)
(* requests, sessions and step-ups: what a request read stays true of the   *)
(* moment it was received, whoever deletes rows or changes settings since.  *)
(* It passes over the level required only for a session that was deleted    *)
(* while the request was under way.                                         *)
THEOREM SilentCodesProvenHolds == LsSpec => []SilentCodesProven
  <1>1. LsTypeOK /\ LsCookieInv => SilentCodesProven
    BY DEF LsCookieInv, LsReqInv, SilentCodesProven, CookieUse
  <1> QED
    BY <1>1, LsInvariant, PTL

(* An administrator's reset of a second factor or unlocking of a user rests *)
(* on a second factor that administrator proved recently (mfa.controller.ts *)
(* and brute-force.controller.ts, getSessionAcr).                           *)
THEOREM AdminNeedsRecentFactorHolds == LsSpec => []AdminNeedsRecentFactor
  <1>1. LsTypeOK /\ LsCookieInv => AdminNeedsRecentFactor
    BY DEF LsCookieInv, LsReqInv, AdminNeedsRecentFactor, CookieUse, CookiePcs
  <1> QED
    BY <1>1, LsInvariant, PTL

-----------------------------------------------------------------------------
(* The limit of login sessions.  Unlike the OAuth sessions, the victims go  *)
(* in one statement, and a sign-in's earlier session goes before the read.  *)

LsPending == {q \in LsReqs : lr[q].pc \in {"evict", "create"}}
LsVictims == [q \in LsReqs |-> lr[q].victims]
MostSso   == MaxSso + Cardinality(LsReqs) - 1

LsLimitInv ==
    /\ \A r \in LsReqs : lr[r].pc # "evict" => lr[r].victims = {}
    /\ MaxSso > 0 => WithinBound(LsReqs, MostSso, SsoActive, LsPending, LsVictims)

\* The sets counted are finite, and the largest count is a number.
LEMMA LsLimitTypes ==
    /\ IsFiniteSet(SsoIds) /\ SsoIds \subseteq Nat
    /\ IsFiniteSet(LsReqs) /\ Cardinality(LsReqs) \in Nat
    /\ MostSso \in Int /\ MaxSso \in Nat
    /\ IsFiniteSet(SsoActive) /\ SsoActive \subseteq Nat
  <1>1. IsFiniteSet(SsoIds) /\ SsoIds \subseteq Nat
    BY LoginSessionsAssumption, FS_Interval DEF SsoIds
  <1>2. IsFiniteSet(LsReqs) /\ Cardinality(LsReqs) \in Nat
    BY LoginSessionsAssumption, FS_CardinalityType
  <1>3. SsoActive \subseteq SsoIds
    BY DEF SsoActive
  <1>4. IsFiniteSet(SsoActive)
    BY <1>1, <1>3, Smaller
  <1> QED
    BY <1>1, <1>2, <1>3, <1>4, LoginSessionsAssumption DEF MostSso

\* No session comes back, no request becomes pending: the bound stays.
LEMMA LsLimitQuiet ==
    ASSUME LsLimitInv, SsoActive' \subseteq SsoActive, LsPending' \subseteq LsPending,
           \A q \in LsPending' : SsoActive' \ lr'[q].victims \subseteq SsoActive \ lr[q].victims,
           \A r \in LsReqs : lr'[r].pc # "evict" => lr'[r].victims = {}
    PROVE  LsLimitInv'
  <1> DEFINE A == SsoActive  B == SsoActive'  P == LsPending  Q == LsPending'
             V == LsVictims  W == LsVictims'
  <1>1. SUFFICES ASSUME MaxSso > 0 PROVE WithinBound(LsReqs, MostSso, B, Q, W)
    BY DEF LsLimitInv, WithinBound, ReadOrder, MostSso
  <1>2. WithinBound(LsReqs, MostSso, A, P, V)
    BY <1>1 DEF LsLimitInv
  <1>3. P \subseteq LsReqs /\ B \subseteq A /\ Q \subseteq P
    BY DEF LsPending
  <1>4. \A q \in Q : B \ W[q] \subseteq A \ V[q]
    BY <1>3 DEF LsVictims
  <1>5. IsFiniteSet(A) /\ IsFiniteSet(LsReqs) /\ MostSso \in Int
    BY LsLimitTypes
  <1> HIDE DEF A, B, P, Q, V, W
  <1> QED
    BY <1>2, <1>3, <1>4, <1>5, BoundShrinks, Zenon

\* The read: the oldest sessions are to go, and at most max - 1 others stay.
LEMMA LsFindStep ==
    ASSUME LsTypeOK, LsLimitInv, NEW r \in LsReqs, LsFind(r)
    PROVE  LsLimitInv'
  <1> DEFINE A == SsoActive  P == LsPending  Q == LsPending'
             V == LsVictims  W == LsVictims'
  <1>1. /\ lr[r].pc = "find" /\ SsoActive' = SsoActive
        /\ lr'[r].pc = IF Oldest(A) = {} THEN "create" ELSE "evict"
        /\ lr'[r].victims = Oldest(A)
        /\ \A q \in LsReqs : q # r => lr'[q] = lr[q]
    <2>1. lr[r] \in LrType /\ lr[r].pc = "find" /\ SsoActive' = SsoActive
      BY DEF LsFind, LsTypeOK, SsoActive
    <2>2. lr'[r] = [lr[r] EXCEPT !.pc = IF Oldest(A) = {} THEN "create" ELSE "evict",
                                 !.victims = Oldest(A)]
      BY DEF LsFind, LsTypeOK
    <2>3. \A q \in LsReqs : q # r => lr'[q] = lr[q]
      BY DEF LsFind, LsTypeOK
    <2> HIDE DEF A
    <2> QED
      BY <2>1, <2>2, <2>3 DEF LrType
  <1>2. \A q \in LsReqs : lr'[q].pc # "evict" => lr'[q].victims = {}
    BY <1>1 DEF LsLimitInv
  <1>3. SUFFICES ASSUME MaxSso > 0 PROVE WithinBound(LsReqs, MostSso, A, Q, W)
    BY <1>1, <1>2 DEF LsLimitInv, WithinBound, ReadOrder, MostSso
  <1>4. WithinBound(LsReqs, MostSso, A, P, V)
    BY <1>3 DEF LsLimitInv
  <1>5. P \subseteq LsReqs /\ r \notin P /\ Q = P \cup {r}
    BY <1>1 DEF LsPending
  <1>6. W[r] = Oldest(A) /\ \A q \in P : W[q] = V[q]
    BY <1>1, <1>5 DEF LsVictims
  <1>7. Cardinality(A \ W[r]) + Cardinality(LsReqs) <= MostSso
    <2>1. A \subseteq Nat /\ IsFiniteSet(A) /\ MaxSso \in Nat /\ Cardinality(LsReqs) \in Nat
      BY LsLimitTypes
    <2>2. Oldest(A) = OldestOf(A, MaxSso)
      BY DEF Oldest, OldestOf
    <2> HIDE DEF A, W
    <2>3. Cardinality(A \ OldestOf(A, MaxSso)) <= MaxSso - 1
      BY <1>3, <2>1, OldestMakeRoom
    <2>4. Cardinality(A \ W[r]) <= MaxSso - 1 /\ Cardinality(A \ W[r]) \in Nat
      BY <1>6, <2>1, <2>2, <2>3, Smaller
    <2> QED
      BY <2>1, <2>4 DEF MostSso
  <1>8. IsFiniteSet(A) /\ IsFiniteSet(LsReqs) /\ MostSso \in Int
    BY LsLimitTypes
  <1> HIDE DEF A, P, Q, V, W
  <1>9. WithinBound(LsReqs, MostSso, A, P \cup {r}, W)
    BY <1>4, <1>5, <1>6, <1>7, <1>8, BoundRead, Zenon
  <1> QED
    BY <1>5, <1>9

\* The victims are gone; the session is created.
LEMMA LsCreateStep ==
    ASSUME LsTypeOK, LsLimitInv, NEW r \in LsReqs, LsCreate(r)
    PROVE  LsLimitInv'
  <1> DEFINE A == SsoActive  B == SsoActive'  P == LsPending  Q == LsPending'
             V == LsVictims  W == LsVictims'  n == nSso + 1
  <1>1. /\ lr[r].pc = "create" /\ lr'[r].pc = "issue" /\ lr'[r].victims = lr[r].victims
        /\ \A q \in LsReqs : q # r => lr'[q] = lr[q]
    <2>1. lr[r] \in LrType /\ lr'[r] = [lr[r] EXCEPT !.pc = "issue", !.sid = nSso']
      BY DEF LsCreate, LsTypeOK
    <2> QED
      BY <2>1 DEF LsCreate, LsTypeOK, LrType
  <1>2. lr[r].victims = {} /\ \A q \in LsReqs : lr'[q].pc # "evict" => lr'[q].victims = {}
    BY <1>1 DEF LsLimitInv
  <1>3. B \subseteq A \cup {n}
    <2>1. \A s \in SsoIds : s # n => sso'[s] = sso[s]
      BY DEF LsCreate, LsTypeOK
    <2> QED
      BY <2>1 DEF LsCreate, SsoActive
  <1>4. SUFFICES ASSUME MaxSso > 0 PROVE WithinBound(LsReqs, MostSso, B, Q, W)
    BY <1>2 DEF LsLimitInv, WithinBound, ReadOrder, MostSso
  <1>5. WithinBound(LsReqs, MostSso, A, P, V)
    BY <1>4 DEF LsLimitInv
  <1>6. P \subseteq LsReqs /\ r \in P /\ Q = P \ {r} /\ V[r] = {} /\ \A q \in Q : W[q] = V[q]
    BY <1>1, <1>2 DEF LsPending, LsVictims
  <1>7. IsFiniteSet(A) /\ IsFiniteSet(LsReqs) /\ MostSso \in Int
    BY LsLimitTypes
  <1> HIDE DEF A, B, P, Q, V, W, n
  <1>8. WithinBound(LsReqs, MostSso, A \cup {n}, Q, V)
    BY <1>5, <1>6, <1>7, BoundCreate
  <1>9. IsFiniteSet(A \cup {n}) /\ Q \subseteq LsReqs /\ Q \subseteq Q
        /\ \A q \in Q : B \ W[q] \subseteq (A \cup {n}) \ V[q]
    BY <1>3, <1>6, <1>7, FS_AddElement
  <1> QED
    BY <1>3, <1>7, <1>8, <1>9, BoundShrinks, Zenon

\* Deleting sessions deactivates them.
LEMMA WithoutActive ==
    ASSUME LsTypeOK, NEW S, sso' = Without(S), lsNow' = lsNow
    PROVE  SsoActive' = SsoActive \ S
  BY WithoutFacts DEF SsoActive

\* The limit is kept by every request's step.
LEMMA LsLimitStep ==
    ASSUME LsTypeOK, LsLimitInv, NEW r \in LsReqs, LsStep(r)
    PROVE  LsLimitInv'
  <1>0. lr[r] \in LrType
    BY DEF LsTypeOK
  <1>1. ASSUME SsoActive' \subseteq SsoActive, lr'[r].victims = {}, lr'[r].pc # "evict",
               lr'[r].pc = "create" => MaxSso = 0 \/ (lr[r].pc = "evict" /\ SsoActive' \subseteq SsoActive \ lr[r].victims),
               \A q \in LsReqs : q # r => lr'[q] = lr[q]
        PROVE  LsLimitInv'
    <2>1. \A q \in LsReqs : lr'[q].pc # "evict" => lr'[q].victims = {}
      BY <1>1 DEF LsLimitInv
    <2>2. CASE MaxSso = 0
      BY <2>1, <2>2 DEF LsLimitInv
    <2>3. CASE MaxSso # 0
      <3>1. LsPending' \subseteq LsPending
        BY <1>1, <2>3 DEF LsPending
      <3>2. \A q \in LsPending' :
                SsoActive' \ lr'[q].victims \subseteq SsoActive \ lr[q].victims
        BY <1>1, <2>3 DEF LsPending
      <3> QED
        BY <1>1, <2>1, <3>1, <3>2, LsLimitQuiet
    <2> QED
      BY <2>2, <2>3
  <1>2. ASSUME NEW level \in LsLevels, NEW need \in 0..3, NEW cookie \in 0..nSso,
               LsSignIn(r, level, need, cookie)
        PROVE  LsLimitInv'
    <2>1. lr'[r] = [IdleLs EXCEPT
                !.pc = IF cookie # 0 THEN "drop" ELSE IF MaxSso > 0 THEN "find" ELSE "create",
                !.kind = "login", !.sid = cookie, !.level = level, !.need = need]
          /\ \A q \in LsReqs : q # r => lr'[q] = lr[q]
      BY <1>2 DEF LsSignIn, LsTypeOK
    <2>2. /\ lr'[r].victims = {} /\ lr'[r].pc # "evict"
          /\ lr'[r].pc = "create" => MaxSso = 0
      BY <2>1, LsLimitTypes DEF IdleLs
    <2>3. SsoActive' = SsoActive
      BY <1>2 DEF LsSignIn, SsoActive
    <2> QED
      BY <1>1, <2>1, <2>2, <2>3
  <1>3. ASSUME LsDrop(r) PROVE LsLimitInv'
    <2>1. lr'[r] = [lr[r] EXCEPT !.pc = IF MaxSso > 0 THEN "find" ELSE "create"]
          /\ (\A q \in LsReqs : q # r => lr'[q] = lr[q]) /\ lr[r].pc = "drop"
      BY <1>3 DEF LsDrop, LsGoto, LsTypeOK
    <2>2. /\ lr'[r].victims = {} /\ lr'[r].pc # "evict"
          /\ lr'[r].pc = "create" => MaxSso = 0
      BY <1>0, <2>1, LsLimitTypes DEF LrType, LsLimitInv
    <2>3. SsoActive' \subseteq SsoActive
      BY <1>3, WithoutActive DEF LsDrop
    <2> QED
      BY <1>1, <2>1, <2>2, <2>3
  <1>4. ASSUME LsEvict(r) PROVE LsLimitInv'
    <2>1. lr'[r] = [lr[r] EXCEPT !.pc = "create", !.victims = {}]
          /\ (\A q \in LsReqs : q # r => lr'[q] = lr[q]) /\ lr[r].pc = "evict"
      BY <1>4 DEF LsEvict, LsTypeOK
    <2>2. lr'[r].victims = {} /\ lr'[r].pc = "create"
      BY <1>0, <2>1 DEF LrType
    <2>3. SsoActive' = SsoActive \ lr[r].victims
      BY <1>4, WithoutActive DEF LsEvict
    <2> QED
      BY <1>1, <2>1, <2>2, <2>3
  <1>5. ASSUME NEW kind, NEW s, NEW need, LsBegin(r, kind, s, need) PROVE LsLimitInv'
    <2>1. lr'[r] = [IdleLs EXCEPT
                !.pc = "validate", !.kind = kind, !.sid = s, !.need = need, !.mfa = mfaRequired,
                !.since = lsNow, !.dead = Outdated(s), !.on = userOn]
          /\ \A q \in LsReqs : q # r => lr'[q] = lr[q]
      BY <1>5 DEF LsBegin, LsTypeOK
    <2>2. lr'[r].victims = {} /\ lr'[r].pc = "validate"
      BY <2>1 DEF IdleLs
    <2>3. SsoActive' = SsoActive
      BY <1>5 DEF LsBegin, SsoActive
    <2> QED
      BY <1>1, <2>1, <2>2, <2>3
  <1>6. ASSUME \/ LsValidate(r) \/ LsStepUps(r) \/ LsLookup(r) \/ LsAcr(r) \/ LsAdmin(r)
               \/ LsIssue(r) \/ LsRecord(r) \/ LsAbort(r)
               \/ \E own \in BOOLEAN : LsFactor(r, own)
        PROVE  LsLimitInv'
    <2>1. SsoActive' = SsoActive
      BY <1>6 DEF LsValidate, LsStepUps, LsLookup, LsAcr, LsAdmin, LsIssue, LsRecord, LsAbort,
                  LsFactor, SsoActive
    <2>2. \A q \in LsReqs : q # r => lr'[q] = lr[q]
      BY <1>6 DEF LsValidate, LsStepUps, LsLookup, LsAcr, LsAdmin, LsIssue, LsRecord, LsAbort,
                  LsFactor, LsGoto, LsFinish, LsTypeOK
    <2>3. lr'[r].victims = {} /\ lr'[r].pc \notin {"evict", "create"}
      <3>1. CASE LsFinish(r)
        BY <3>1, LsMoves, IdleLsTyped
      <3>2. CASE ~LsFinish(r)
        <4>1. lr[r].pc # "evict" /\ lr[r].victims = {}
          BY <1>6, <3>2 DEF LsValidate, LsStepUps, LsLookup, LsAcr, LsAdmin, LsIssue, LsRecord,
                            LsAbort, LsFactor, LsLimitInv
        <4>2. /\ lr'[r].victims = lr[r].victims
              /\ lr'[r].pc \notin {"evict", "create"}
          BY <1>0, <1>6, <3>2 DEF LsValidate, LsStepUps, LsLookup, LsAcr, LsAdmin, LsIssue,
                LsRecord, LsAbort, LsFactor, LsGoto, LsTypeOK, LrType
        <4> QED
          BY <4>1, <4>2
      <3> QED
        BY <3>1, <3>2
    <2> QED
      BY <1>1, <2>1, <2>2, <2>3
  <1> QED
    BY <1>2, <1>3, <1>4, <1>5, <1>6, LsFindStep, LsCreateStep DEF LsStep

\* The limit holds at the beginning and is inductive.
LEMMA LsLimitInit == ASSUME LsInit PROVE LsLimitInv
  <1>1. SsoActive = {} /\ LsPending = {}
    BY DEF LsInit, SsoActive, LsPending, NoSso, IdleLs
  <1>2. \A r \in LsReqs : lr[r].victims = {}
    BY IdleLsTyped DEF LsInit
  <1>3. ASSUME MaxSso > 0 PROVE WithinBound(LsReqs, MostSso, SsoActive, LsPending, LsVictims)
    <2>1. Cardinality({}) = 0 /\ 0 <= MostSso
      BY <1>3, LsLimitTypes, FS_EmptySet DEF MostSso
    <2>2. [q \in LsReqs |-> {}] \in [LsReqs -> SUBSET LsReqs]
      OBVIOUS
    <2> QED
      BY <1>1, <2>1, <2>2 DEF WithinBound, ReadOrder
  <1> QED
    BY <1>2, <1>3 DEF LsLimitInv

\* Nothing else creates a session.
LEMMA LsLimitNext == ASSUME LsTypeOK, LsLimitInv, [LsNext]_lsVars PROVE LsLimitInv'
  <1>1. ASSUME SsoActive' \subseteq SsoActive,
               \A r \in LsReqs : lr'[r].pc = lr[r].pc /\ lr'[r].victims = lr[r].victims
        PROVE  LsLimitInv'
    <2>1. LsPending' = LsPending
      BY <1>1 DEF LsPending
    <2>2. \A q \in LsPending' :
              SsoActive' \ lr'[q].victims \subseteq SsoActive \ lr[q].victims
      BY <1>1, <2>1 DEF LsPending
    <2>3. \A r \in LsReqs : lr'[r].pc # "evict" => lr'[r].victims = {}
      BY <1>1 DEF LsLimitInv
    <2> QED
      BY <1>1, <2>1, <2>2, <2>3, LsLimitQuiet
  <1>2. ASSUME NEW S, LsRevoke(S) PROVE LsLimitInv'
    BY <1>1, <1>2, WithoutActive DEF LsRevoke
  <1>3. ASSUME LsSweep PROVE LsLimitInv'
    BY <1>1, <1>3, WithoutActive DEF LsSweep
  <1>4. ASSUME LsSetUser PROVE LsLimitInv'
    <2>1. ASSUME NEW r \in LsReqs PROVE lr'[r].pc = lr[r].pc /\ lr'[r].victims = lr[r].victims
      <3>1. lr[r] \in LrType
        BY DEF LsTypeOK
      <3>2. lr'[r] = IF lr[r].pc \in Ended THEN lr[r]
                     ELSE [lr[r] EXCEPT !.on = lr[r].on \/ userOn']
        BY <1>4 DEF LsSetUser
      <3> QED
        BY <3>1, <3>2 DEF LrType
    <2>2. SsoActive' = SsoActive
      BY <1>4 DEF LsSetUser, SsoActive
    <2> QED
      BY <1>1, <2>1, <2>2
  <1>5. ASSUME LsSweepSteps \/ LsSetMfa \/ UNCHANGED lsVars PROVE LsLimitInv'
    <2>1. SsoActive' = SsoActive /\ lr' = lr
      BY <1>5 DEF LsSweepSteps, LsSetMfa, lsVars, SsoActive
    <2> QED
      BY <1>1, <2>1
  <1>6. ASSUME LsTick PROVE LsLimitInv'
    <2>1. lr' = lr /\ sso' = sso /\ lsNow' = lsNow + 1 /\ lsNow \in Nat
      BY <1>6 DEF LsTick, LsTypeOK
    <2>2. \A s \in SsoIds : sso[s].expiresAt \in Nat
      BY DEF LsTypeOK, SsoType
    <2>3. SsoActive' \subseteq SsoActive
      BY <2>1, <2>2 DEF SsoActive
    <2> QED
      BY <1>1, <2>1, <2>3
  <1> QED
    BY <1>2, <1>3, <1>4, <1>5, <1>6, LsLimitStep DEF LsNext

(* However many sign-ins run at the same time, a user's active login        *)
(* sessions exceed maxSessionsPerUser by the other requests in flight at    *)
(* most (createLoginSession), for any limit and number of requests.         *)
THEOREM SsoOvershootBoundedHolds == LsSpec => []SsoOvershootBounded
  <1>1. LsSpec => [](LsTypeOK /\ LsLimitInv)
    BY LsTypeInit, LsTypeNext, LsLimitInit, LsLimitNext, PTL DEF LsSpec
  <1>2. LsTypeOK /\ LsLimitInv => SsoOvershootBounded
    BY DEF LsLimitInv, WithinBound, MostSso, SsoOvershootBounded
  <1> QED
    BY <1>1, <1>2, PTL
=============================================================================
