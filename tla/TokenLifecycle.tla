--------------------------- MODULE TokenLifecycle ---------------------------
(***************************************************************************)
(* OAuth sessions, refresh tokens and authorization codes: the token       *)
(* endpoint (AuthService), revocation and logout (TokensService), the      *)
(* admin session API (SessionsService) and the hourly cleanup              *)
(* (SessionsCleanupService), all working on the same three tables.         *)
(*                                                                         *)
(* One action is one database statement (or one $transaction): between     *)
(* two awaits of a handler every other request may run.  A request is a    *)
(* process r with a program counter and the values it read earlier.        *)
(***************************************************************************)
EXTENDS Integers, FiniteSets

CONSTANTS
    Reqs,            \* requests that may be in flight at the same time
    Users,           \* realm users
    ServiceUsers,    \* service-account users, bound to a client
    Clients,         \* OAuth clients
    NCodes,          \* bound: authorization codes issued in a behaviour
    NSessions,       \* bound: sessions created in a behaviour
    NTokens,         \* bound: refresh tokens created in a behaviour
    MaxTime,         \* bound: last clock value
    MaxSessionsPerUser,  \* realm.maxSessionsPerUser, 0 = unlimited
    ServiceCap,      \* SERVICE_ACCOUNT_SESSION_LIMIT
    CodeTTL,         \* lifetime of an authorization code
    RefreshLifespan, \* realm.refreshTokenLifespan
    OfflineLifespan  \* realm.offlineTokenLifespan

ASSUME ConstantsAssumption ==
    /\ NCodes \in Nat /\ NSessions \in Nat /\ NTokens \in Nat /\ MaxTime \in Nat
    /\ MaxSessionsPerUser \in Nat /\ ServiceCap \in Nat
    /\ CodeTTL \in Nat /\ RefreshLifespan \in Nat /\ OfflineLifespan \in Nat
    /\ Users # {} /\ Clients # {}
    /\ Users \cap ServiceUsers = {}
    /\ IsFiniteSet(Reqs)

CodeIds    == 1..NCodes
SessionIds == 1..NSessions
TokenIds   == 1..NTokens
None       == 0          \* "no code", "no session", "no parent token"

VARIABLES
    now,     \* the database clock
    codes,   \* authorization_codes rows, by id
    sess,    \* sessions rows; ids grow in creation order, as createdAt does;
             \* client and code are history: the grant that created the row
    tok,     \* refresh_tokens rows; parent is history: the token rotated into it
    nCode, nSess, nTok,   \* ids handed out so far
    req,     \* per request: program counter and local variables
    cron     \* the cleanup job: step and the cutoff it captured

vars == <<now, codes, sess, tok, nCode, nSess, nTok, req, cron>>

RowState == {"none", "live", "deleted"}
PC == {"idle", "limit", "evict_revoke", "evict_delete", "create",
       "sa_create", "sa_read", "sa_revoke", "sa_delete", "issue",
       "rotate", "reuse", "end_revoke", "end_delete",
       "adm_revoke", "adm_delete", "all_txn"}

Accounts  == Users \cup ServiceUsers
AnyUser   == CHOOSE u \in Users : TRUE
AnyClient == CHOOSE c \in Clients : TRUE

NoCodeRow == [state |-> "none", used |-> FALSE, user |-> AnyUser,
              client |-> AnyClient, offline |-> FALSE, expiresAt |-> 0]
NoSessRow == [state |-> "none", user |-> AnyUser, expiresAt |-> 0,
              client |-> AnyClient, code |-> None]
NoTokRow  == [state |-> "none", revoked |-> FALSE, sid |-> None,
              offline |-> FALSE, client |-> AnyClient, expiresAt |-> 0,
              parent |-> None]
IdleReq   == [pc |-> "idle", code |-> None, user |-> AnyUser,
              client |-> AnyClient, offline |-> FALSE, tok |-> None,
              sid |-> None, victims |-> {}]

Init ==
    /\ now = 0
    /\ codes = [c \in CodeIds |-> NoCodeRow]
    /\ sess = [s \in SessionIds |-> NoSessRow]
    /\ tok = [t \in TokenIds |-> NoTokRow]
    /\ nCode = 0 /\ nSess = 0 /\ nTok = 0
    /\ req = [r \in Reqs |-> IdleReq]
    /\ cron = [step |-> "sessions", cut |-> 0]

-----------------------------------------------------------------------------
(* Statements on the tables. *)

LiveSessions(u) == {s \in SessionIds : sess[s].state = "live" /\ sess[s].user = u}
Active(u)       == {s \in LiveSessions(u) : sess[s].expiresAt > now}
TokensOf(S)     == {t \in TokenIds : tok[t].state = "live" /\ tok[t].sid \in S}
OnlineTokensOf(S) == {t \in TokensOf(S) : ~tok[t].offline}

(* A deleted row keeps nothing but its history: the id of its session and   *)
(* of the token it replaced, the code it was created from.                  *)
DeletedTok(t)  == [NoTokRow EXCEPT !.state = "deleted", !.sid = tok[t].sid,
                                   !.parent = tok[t].parent]
DeletedSess(s) == [NoSessRow EXCEPT !.state = "deleted", !.code = sess[s].code]
DeletedCode    == [NoCodeRow EXCEPT !.state = "deleted"]

\* refreshToken.updateMany({data: {revoked: true}}) on the rows T
RevokeTokens(T) ==
    tok' = [t \in TokenIds |->
              IF t \in T THEN [tok[t] EXCEPT !.revoked = TRUE] ELSE tok[t]]

\* Mutant: the relation does not cascade, the tokens stay behind.
DeleteSessionsNoCascade(S) ==
    /\ sess' = [s \in SessionIds |->
                  IF s \in S /\ sess[s].state = "live"
                    THEN DeletedSess(s) ELSE sess[s]]
    /\ UNCHANGED tok

\* session.deleteMany on the rows S; RefreshToken.session is onDelete: Cascade
DeleteSessions(S) ==
    /\ sess' = [s \in SessionIds |->
                  IF s \in S /\ sess[s].state = "live"
                    THEN DeletedSess(s) ELSE sess[s]]
    /\ tok' = [t \in TokenIds |->
                 IF t \in TokensOf(S) THEN DeletedTok(t) ELSE tok[t]]

Goto(r, label) == req' = [req EXCEPT ![r].pc = label]
Finish(r)      == req' = [req EXCEPT ![r] = IdleReq]

-----------------------------------------------------------------------------
(* Authorization code: issued by /authorize, claimed by the token endpoint. *)

\* OAuthService.authorizeWithUser stores a fresh code.
IssueCode(u, cl, off) ==
    /\ nCode < NCodes
    /\ nCode' = nCode + 1
    /\ codes' = [codes EXCEPT ![nCode + 1] =
                   [state |-> "live", used |-> FALSE, user |-> u, client |-> cl,
                    offline |-> off, expiresAt |-> now + CodeTTL]]
    /\ UNCHANGED <<now, sess, tok, nSess, nTok, req, cron>>

\* Mutant: the claim forgets `used: false`.
CodeClaimUnguarded(r, c, cl, ok) ==
    /\ req[r].pc = "idle"
    /\ codes[c].state = "live" /\ codes[c].expiresAt > now
    /\ codes' = [codes EXCEPT ![c].used = TRUE]
    /\ IF ok /\ codes[c].client = cl
         THEN req' = [req EXCEPT ![r] =
                [IdleReq EXCEPT !.pc = "limit", !.code = c, !.user = codes[c].user,
                                !.client = cl, !.offline = codes[c].offline]]
         ELSE UNCHANGED req
    /\ UNCHANGED <<now, sess, tok, nCode, nSess, nTok, cron>>

(* One conditional UPDATE claims the code; only then are the client, the    *)
(* redirect URI, PKCE, the user and the lock compared (ok), so a request    *)
(* that fails those comparisons has still consumed the code.                *)
CodeClaim(r, c, cl, ok) ==
    /\ req[r].pc = "idle"
    /\ codes[c].state = "live" /\ ~codes[c].used /\ codes[c].expiresAt > now
    /\ codes' = [codes EXCEPT ![c].used = TRUE]
    /\ IF ok /\ codes[c].client = cl
         THEN req' = [req EXCEPT ![r] =
                [IdleReq EXCEPT !.pc = "limit", !.code = c, !.user = codes[c].user,
                                !.client = cl, !.offline = codes[c].offline]]
         ELSE UNCHANGED req
    /\ UNCHANGED <<now, sess, tok, nCode, nSess, nTok, cron>>

(* A password, mfa_otp or device_code grant whose credentials were accepted *)
(* joins the same path.                                                     *)
CredentialGrant(r, u, cl, off) ==
    /\ req[r].pc = "idle"
    /\ req' = [req EXCEPT ![r] = [IdleReq EXCEPT !.pc = "limit", !.user = u,
                                    !.client = cl, !.offline = off]]
    /\ UNCHANGED <<now, codes, sess, tok, nCode, nSess, nTok, cron>>

-----------------------------------------------------------------------------
(* enforceSessionLimit, then session.create, then issueTokens. *)

\* Mutant: slice(0, length - max) leaves no room for the new session.
VictimsOffByOne(S) ==
    {s \in S : Cardinality({x \in S : x <= s}) <= Cardinality(S) - MaxSessionsPerUser}

\* Mutant: orderBy createdAt desc, the newest sessions are evicted.
VictimsNewestFirst(S) ==
    {s \in S : Cardinality({x \in S : x >= s})
                 <= Cardinality(S) - MaxSessionsPerUser + 1}

\* The oldest length - max + 1 sessions of S.
Victims(S) ==
    {s \in S : Cardinality({x \in S : x <= s})
                 <= Cardinality(S) - MaxSessionsPerUser + 1}

LimitRead(r) ==
    /\ req[r].pc = "limit"
    /\ LET S == Active(req[r].user) IN
         IF MaxSessionsPerUser > 0 /\ Cardinality(S) >= MaxSessionsPerUser
           THEN req' = [req EXCEPT ![r].pc = "evict_revoke", ![r].victims = Victims(S)]
           ELSE Goto(r, "create")
    /\ UNCHANGED <<now, codes, sess, tok, nCode, nSess, nTok, cron>>

EvictRevoke(r) ==
    /\ req[r].pc = "evict_revoke"
    /\ RevokeTokens(OnlineTokensOf(req[r].victims))
    /\ Goto(r, "evict_delete")
    /\ UNCHANGED <<now, codes, sess, nCode, nSess, nTok, cron>>

EvictDelete(r) ==
    /\ req[r].pc = "evict_delete"
    /\ DeleteSessions(req[r].victims)
    /\ req' = [req EXCEPT ![r].pc = "create", ![r].victims = {}]
    /\ UNCHANGED <<now, codes, nCode, nSess, nTok, cron>>

\* session.create; the service-account grant creates first and trims after.
CreateSession(r) ==
    /\ req[r].pc \in {"create", "sa_create"}
    /\ nSess < NSessions
    /\ nSess' = nSess + 1
    /\ sess' = [sess EXCEPT ![nSess + 1] =
                  [state |-> "live", user |-> req[r].user, client |-> req[r].client,
                   code |-> req[r].code, expiresAt |-> now + RefreshLifespan]]
    /\ req' = [req EXCEPT ![r].sid = nSess + 1, ![r].code = None,
                 ![r].pc = IF req[r].pc = "create" THEN "issue" ELSE "sa_read"]
    /\ UNCHANGED <<now, codes, tok, nCode, nTok, cron>>

(* issueTokens: refreshToken.create needs the session row; when it is gone  *)
(* the insert fails and the client receives no token at all.                *)
IssueToken(r) ==
    /\ req[r].pc = "issue"
    /\ \/ /\ sess[req[r].sid].state # "live"
          /\ UNCHANGED <<tok, nTok>>
       \/ /\ sess[req[r].sid].state = "live"
          /\ nTok < NTokens
          /\ nTok' = nTok + 1
          /\ tok' = [tok EXCEPT ![nTok + 1] =
                       [state |-> "live", revoked |-> FALSE, sid |-> req[r].sid,
                        offline |-> req[r].offline, client |-> req[r].client,
                        expiresAt |-> now + IF req[r].offline THEN OfflineLifespan
                                                              ELSE RefreshLifespan,
                        parent |-> req[r].tok]]
    /\ Finish(r)
    /\ UNCHANGED <<now, codes, sess, nCode, nSess, cron>>

-----------------------------------------------------------------------------
(* client_credentials with a service-account user: no session limit, but    *)
(* only the ServiceCap most recent sessions are kept.                       *)

ServiceGrant(r, u, cl, off) ==
    /\ req[r].pc = "idle"
    /\ req' = [req EXCEPT ![r] = [IdleReq EXCEPT !.pc = "sa_create", !.user = u,
                                    !.client = cl, !.offline = off]]
    /\ UNCHANGED <<now, codes, sess, tok, nCode, nSess, nTok, cron>>

ServiceTrimRead(r) ==
    /\ req[r].pc = "sa_read"
    /\ LET S   == LiveSessions(req[r].user)
           old == {s \in S : Cardinality({x \in S : x >= s}) > ServiceCap}
       IN IF old # {}
            THEN req' = [req EXCEPT ![r].pc = "sa_revoke", ![r].victims = old]
            ELSE Goto(r, "issue")
    /\ UNCHANGED <<now, codes, sess, tok, nCode, nSess, nTok, cron>>

ServiceTrimRevoke(r) ==
    /\ req[r].pc = "sa_revoke"
    /\ RevokeTokens(OnlineTokensOf(req[r].victims))
    /\ Goto(r, "sa_delete")
    /\ UNCHANGED <<now, codes, sess, nCode, nSess, nTok, cron>>

ServiceTrimDelete(r) ==
    /\ req[r].pc = "sa_delete"
    /\ DeleteSessions(req[r].victims)
    /\ req' = [req EXCEPT ![r].pc = "issue", ![r].victims = {}]
    /\ UNCHANGED <<now, codes, nCode, nSess, nTok, cron>>

-----------------------------------------------------------------------------
(* refresh_token grant. *)

Usable(t) == tok[t].state = "live" /\ ~tok[t].revoked /\ tok[t].expiresAt >= now

\* Mutant: the stored clientId is not compared with the caller's.
RefreshReadAnyClient(r, t, cl, off) ==
    /\ req[r].pc = "idle"
    /\ Usable(t)
    /\ req' = [req EXCEPT ![r] =
                 [IdleReq EXCEPT !.pc = "rotate", !.tok = t, !.sid = tok[t].sid,
                                 !.client = cl, !.offline = off]]
    /\ UNCHANGED <<now, codes, sess, tok, nCode, nSess, nTok, cron>>

(* The token is found, unrevoked, unexpired and bound to the caller.  The   *)
(* scope of the new tokens, hence off, may come from the request body.      *)
RefreshRead(r, t, cl, off) ==
    /\ req[r].pc = "idle"
    /\ Usable(t)
    /\ tok[t].client = cl
    /\ req' = [req EXCEPT ![r] =
                 [IdleReq EXCEPT !.pc = "rotate", !.tok = t, !.sid = tok[t].sid,
                                 !.client = cl, !.offline = off]]
    /\ UNCHANGED <<now, codes, sess, tok, nCode, nSess, nTok, cron>>

\* The token found is already revoked: reuse.
RefreshReuse(r, t) ==
    /\ req[r].pc = "idle"
    /\ tok[t].state = "live" /\ tok[t].revoked
    /\ req' = [req EXCEPT ![r] = [IdleReq EXCEPT !.pc = "reuse", !.sid = tok[t].sid]]
    /\ UNCHANGED <<now, codes, sess, tok, nCode, nSess, nTok, cron>>

\* Reuse revokes every token of the session, offline ones included.
ReuseRevoke(r) ==
    /\ req[r].pc = "reuse"
    /\ RevokeTokens(TokensOf({req[r].sid}))
    /\ Finish(r)
    /\ UNCHANGED <<now, codes, sess, nCode, nSess, nTok, cron>>

\* Mutant: the new tokens are issued without revoking the old one.
RotateKeepsOld(r) ==
    /\ req[r].pc = "rotate"
    /\ IF tok[req[r].tok].state = "live" THEN Goto(r, "issue") ELSE Finish(r)
    /\ UNCHANGED <<now, codes, sess, tok, nCode, nSess, nTok, cron>>

(* refreshToken.update on the row read before, whatever its revoked flag is *)
(* by now; a deleted row makes the update throw.                            *)
Rotate(r) ==
    /\ req[r].pc = "rotate"
    /\ IF tok[req[r].tok].state = "live"
         THEN RevokeTokens({req[r].tok}) /\ Goto(r, "issue")
         ELSE Finish(r) /\ UNCHANGED tok
    /\ UNCHANGED <<now, codes, sess, nCode, nSess, nTok, cron>>

-----------------------------------------------------------------------------
(* Revocation and logout. *)

(* TokensService.revoke and UsersService.revokeOfflineSession: a lookup and *)
(* an update of the same row; the lookup decides nothing the update does    *)
(* not decide again, so they are one step.                                  *)
RevokeToken(t) ==
    /\ tok[t].state = "live"
    /\ RevokeTokens({t})
    /\ UNCHANGED <<now, codes, sess, nCode, nSess, nTok, req, cron>>

(* logout (by refresh token, even a revoked or expired one), logoutByIdToken *)
(* and handleBackchannelLogout (by sid) all reach endSession.                *)
LogoutRead(r, s) ==
    /\ req[r].pc = "idle"
    /\ s <= nSess
    /\ req' = [req EXCEPT ![r] = [IdleReq EXCEPT !.pc = "end_revoke", !.sid = s]]
    /\ UNCHANGED <<now, codes, sess, tok, nCode, nSess, nTok, cron>>

EndRevoke(r) ==
    /\ req[r].pc = "end_revoke"
    /\ RevokeTokens(OnlineTokensOf({req[r].sid}))
    /\ Goto(r, "end_delete")
    /\ UNCHANGED <<now, codes, sess, nCode, nSess, nTok, cron>>

EndDelete(r) ==
    /\ req[r].pc = "end_delete"
    /\ DeleteSessions({req[r].sid})
    /\ Finish(r)
    /\ UNCHANGED <<now, codes, nCode, nSess, nTok, cron>>

\* SessionsService.revokeSession: look the session up, revoke, delete.
AdminRevokeRead(r, s) ==
    /\ req[r].pc = "idle"
    /\ sess[s].state = "live"
    /\ req' = [req EXCEPT ![r] = [IdleReq EXCEPT !.pc = "adm_revoke", !.sid = s]]
    /\ UNCHANGED <<now, codes, sess, tok, nCode, nSess, nTok, cron>>

AdminRevokeTokens(r) ==
    /\ req[r].pc = "adm_revoke"
    /\ RevokeTokens(TokensOf({req[r].sid}))
    /\ Goto(r, "adm_delete")
    /\ UNCHANGED <<now, codes, sess, nCode, nSess, nTok, cron>>

AdminRevokeDelete(r) ==
    /\ req[r].pc = "adm_delete"
    /\ DeleteSessions({req[r].sid})
    /\ Finish(r)
    /\ UNCHANGED <<now, codes, nCode, nSess, nTok, cron>>

\* revokeAllUserSessions: read the ids, then revoke and delete in one $transaction.
RevokeAllRead(r, u) ==
    /\ req[r].pc = "idle"
    /\ LiveSessions(u) # {}
    /\ req' = [req EXCEPT ![r] = [IdleReq EXCEPT !.pc = "all_txn", !.user = u,
                                    !.victims = LiveSessions(u)]]
    /\ UNCHANGED <<now, codes, sess, tok, nCode, nSess, nTok, cron>>

RevokeAllTxn(r) ==
    /\ req[r].pc = "all_txn"
    /\ DeleteSessions(req[r].victims)
    /\ Finish(r)
    /\ UNCHANGED <<now, codes, nCode, nSess, nTok, cron>>

\* A failed statement or a server crash ends a request between two steps.
Abort(r) ==
    /\ req[r].pc # "idle"
    /\ Finish(r)
    /\ UNCHANGED <<now, codes, sess, tok, nCode, nSess, nTok, cron>>

-----------------------------------------------------------------------------
(* Hourly cleanup: the cutoff is read once, then one deleteMany per table.  *)

\* Mutant: the sweep compares in the wrong direction.
CleanupSessionsReversed ==
    /\ cron.step = "sessions"
    /\ DeleteSessions({s \in SessionIds : sess[s].expiresAt > now})
    /\ cron' = [step |-> "tokens", cut |-> now]
    /\ UNCHANGED <<now, codes, nCode, nSess, nTok, req>>

CleanupSessions ==
    /\ cron.step = "sessions"
    /\ DeleteSessions({s \in SessionIds : sess[s].expiresAt < now})
    /\ cron' = [step |-> "tokens", cut |-> now]
    /\ UNCHANGED <<now, codes, nCode, nSess, nTok, req>>

CleanupTokens ==
    /\ cron.step = "tokens"
    /\ tok' = [t \in TokenIds |->
                 IF tok[t].state = "live" /\ tok[t].expiresAt < cron.cut
                   THEN DeletedTok(t) ELSE tok[t]]
    /\ cron' = [cron EXCEPT !.step = "codes"]
    /\ UNCHANGED <<now, codes, sess, nCode, nSess, nTok, req>>

CleanupCodes ==
    /\ cron.step = "codes"
    /\ codes' = [c \in CodeIds |->
                   IF codes[c].state = "live" /\ codes[c].expiresAt < cron.cut
                     THEN DeletedCode ELSE codes[c]]
    /\ cron' = [step |-> "sessions", cut |-> 0]
    /\ UNCHANGED <<now, sess, tok, nCode, nSess, nTok, req>>

Cleanup == CleanupSessions \/ CleanupTokens \/ CleanupCodes

\* OAuthService.cleanupExpiredCodes: its own five-minute timer, its own clock read.
CleanupExpiredCodes ==
    /\ codes' = [c \in CodeIds |->
                   IF codes[c].state = "live" /\ codes[c].expiresAt < now
                     THEN DeletedCode ELSE codes[c]]
    /\ UNCHANGED <<now, sess, tok, nCode, nSess, nTok, req, cron>>

Tick ==
    /\ now < MaxTime
    /\ now' = now + 1
    /\ UNCHANGED <<codes, sess, tok, nCode, nSess, nTok, req, cron>>

GrantStep(r) ==
    \/ LimitRead(r) \/ EvictRevoke(r) \/ EvictDelete(r) \/ CreateSession(r)
    \/ ServiceTrimRead(r) \/ ServiceTrimRevoke(r) \/ ServiceTrimDelete(r)
    \/ IssueToken(r) \/ Rotate(r) \/ ReuseRevoke(r)

EndStep(r) ==
    \/ EndRevoke(r) \/ EndDelete(r) \/ AdminRevokeTokens(r)
    \/ AdminRevokeDelete(r) \/ RevokeAllTxn(r)

Arrive(r) ==
    \/ \E c \in CodeIds, cl \in Clients, ok \in BOOLEAN : CodeClaim(r, c, cl, ok)
    \/ \E u \in Users, cl \in Clients, off \in BOOLEAN : CredentialGrant(r, u, cl, off)
    \/ \E u \in ServiceUsers, cl \in Clients, off \in BOOLEAN : ServiceGrant(r, u, cl, off)
    \/ \E t \in TokenIds, cl \in Clients, off \in BOOLEAN : RefreshRead(r, t, cl, off)
    \/ \E t \in TokenIds : RefreshReuse(r, t)
    \/ \E s \in SessionIds : LogoutRead(r, s) \/ AdminRevokeRead(r, s)
    \/ \E u \in Accounts : RevokeAllRead(r, u)

Next ==
    \/ \E u \in Users, cl \in Clients, off \in BOOLEAN : IssueCode(u, cl, off)
    \/ \E r \in Reqs : Arrive(r) \/ GrantStep(r) \/ EndStep(r) \/ Abort(r)
    \/ \E t \in TokenIds : RevokeToken(t)
    \/ Cleanup \/ CleanupExpiredCodes
    \/ Tick

Spec == Init /\ [][Next]_vars

\* @Interval keeps scheduling the cleanup job on every live instance.
FairSpec == Spec /\ WF_vars(Cleanup)

-----------------------------------------------------------------------------
(* Properties. *)

CodeRow == [state : RowState, used : BOOLEAN, user : Accounts, client : Clients,
            offline : BOOLEAN, expiresAt : Nat]
SessRow == [state : RowState, user : Accounts, expiresAt : Nat, client : Clients,
            code : CodeIds \cup {None}]
TokRow  == [state : RowState, revoked : BOOLEAN, sid : SessionIds \cup {None},
            offline : BOOLEAN, client : Clients, expiresAt : Nat,
            parent : TokenIds \cup {None}]
ReqRow  == [pc : PC, code : CodeIds \cup {None}, user : Accounts, client : Clients,
            offline : BOOLEAN, tok : TokenIds \cup {None},
            sid : SessionIds \cup {None}, victims : SUBSET SessionIds]

(* Every table and request variable has the shape the Prisma schema gives   *)
(* it, and exactly the ids handed out so far have a row, live or deleted.   *)
TypeOK ==
    /\ now \in Nat
    /\ codes \in [CodeIds -> CodeRow]
    /\ sess \in [SessionIds -> SessRow]
    /\ tok \in [TokenIds -> TokRow]
    /\ nCode \in 0..NCodes /\ nSess \in 0..NSessions /\ nTok \in 0..NTokens
    /\ req \in [Reqs -> ReqRow]
    /\ cron \in [step : {"sessions", "tokens", "codes"}, cut : Nat]
    /\ \A c \in CodeIds : codes[c].state = "none" <=> c > nCode
    /\ \A s \in SessionIds : sess[s].state = "none" <=> s > nSess
    /\ \A t \in TokenIds : tok[t].state = "none" <=> t > nTok

(* An authorization code is redeemed once, however many exchanges of it run *)
(* at once (handleAuthorizationCodeGrant's conditional UPDATE): it yields   *)
(* at most one session, at most one request is past the claim, and none is  *)
(* once the session exists.                                                 *)
OneSession   == \A s1, s2 \in SessionIds :
                    sess[s1].code # None /\ sess[s1].code = sess[s2].code => s1 = s2
HeldOnce     == \A r1, r2 \in Reqs :
                    req[r1].code # None /\ req[r1].code = req[r2].code => r1 = r2
SpentNotHeld == \A s \in SessionIds, r \in Reqs :
                    sess[s].code # None => req[r].code # sess[s].code
CodeSingleUse == OneSession /\ HeldOnce /\ SpentNotHeld

(* A stored refresh token always belongs to a stored session: whatever      *)
(* logout, eviction, cleanup or admin revocation does while a grant is in   *)
(* flight, no token of an ended session can be presented again.             *)
TokenNeedsSession ==
    \A t \in TokenIds :
        tok[t].state = "live" =>
            /\ tok[t].sid # None
            /\ sess[tok[t].sid].state = "live"

(* A token that has been rotated is not usable: by the time a successor is  *)
(* stored, the token it was obtained with is revoked or deleted.            *)
ParentSpent ==
    \A t \in TokenIds :
        tok[t].parent # None =>
            LET p == tok[tok[t].parent] IN p.state = "deleted" \/ p.revoked

(* Every token of a session was issued to the client the session was        *)
(* created for: rotation never carries a session over to another client.    *)
ClientBinding ==
    \A t \in TokenIds :
        tok[t].state = "live" => tok[t].client = sess[tok[t].sid].client

(* Concurrent grants can overshoot maxSessionsPerUser (each reads before it *)
(* creates), but never by more than the number of requests in flight less   *)
(* one; with one request at a time the limit is exact.                      *)
OvershootBounded ==
    MaxSessionsPerUser > 0 =>
        \A u \in Users :
            Cardinality(Active(u)) <= MaxSessionsPerUser + Cardinality(Reqs) - 1

(* Eviction is FIFO: while a request is evicting, every active session of   *)
(* the account that is older than one of its victims is a victim too        *)
(* (enforceSessionLimit and the trim of the service-account grant).         *)
EvictsOldestFirst ==
    \A r \in Reqs :
        req[r].pc \in {"evict_revoke", "evict_delete", "sa_revoke", "sa_delete"} =>
            \A v \in req[r].victims, s \in Active(req[r].user) :
                s < v => s \in req[r].victims

\* The cleanup job eventually removes every session whose lifetime has passed.
ExpiredSessionsRemoved ==
    \A s \in SessionIds :
        (sess[s].state = "live" /\ sess[s].expiresAt < now) ~> sess[s].state = "deleted"

(* What the documentation says of the token endpoint. *)

\* "each one is single-use": no refresh token has two successors.
RefreshSingleUse ==
    \A t1, t2 \in TokenIds :
        tok[t1].parent # None /\ tok[t1].parent = tok[t2].parent => t1 = t2

(* "How long offline refresh tokens are valid.  These survive session       *)
(* logout": neither the end of a session (endSession, whose own update      *)
(* spares them) nor the cleanup job removes a usable offline token.         *)
OfflineSurvives ==
    [][(\E r \in Reqs : EndDelete(r)) \/ Cleanup =>
         \A t \in TokenIds : tok[t].offline /\ Usable(t) => tok'[t].state = "live"]_vars
=============================================================================
