------------------------- MODULE OneTimeCredentials -------------------------
(***************************************************************************)
(* Credentials meant to be used once: e-mail verification, password-reset  *)
(* and change-password tokens (VerificationService and the login pages),   *)
(* magic links, device codes, pending consent requests and organization    *)
(* invitations.                                                            *)
(*                                                                         *)
(* One action is one database statement of a request r; what the request   *)
(* read before is in req[r].  prisma.delete and prisma.update of a row     *)
(* that is gone throw, which ends the request.  All kinds share one table  *)
(* of rows here: no statement touches rows of two kinds, except that       *)
(* validateToken looks a token up without its type.                        *)
(***************************************************************************)
EXTENDS Integers, FiniteSets

CONSTANTS
    Reqs,         \* requests in flight
    Users,
    NoUser,       \* no user
    NRows,        \* bound: credentials created in a behaviour
    MaxTime,      \* bound: last clock value
    TTL,          \* lifetime of a credential
    LinkLimit,    \* realm.magicLinkRateLimitPerEmail
    LinkWindow,   \* the 900 seconds over which links are counted
    PollInterval, \* the interval column of a new device code, and its increment
    MaxInterval   \* bound: largest interval

ASSUME OneTimeAssumption ==
    /\ NRows \in Nat /\ MaxTime \in Nat /\ TTL \in Nat
    /\ LinkLimit \in Nat \ {0} /\ LinkWindow \in Nat /\ PollInterval \in Nat
    /\ MaxInterval \in Nat
    /\ NoUser \notin Users /\ IsFiniteSet(Reqs)

Rows    == 1..NRows
None    == 0
Tokens  == {"email", "reset", "change"}     \* verification_tokens.type
Kinds   == Tokens \cup {"magic", "device", "consent", "invite"}
Claimed == {"email", "reset", "device", "consent"}   \* the DELETE is the claim

VARIABLES
    now,
    row,    \* the rows, by id; ids grow in creation order
    nRow,   \* ids handed out
    req,    \* per request: program counter and local variables
    uses,   \* history: how often a credential had its effect
    closed  \* history: credentials answered for good: a handler that used one
            \* has replied, it was replaced by a newer one, or denied

vars == <<now, row, nRow, req, uses, closed>>

\* status "denied" is the denied flag of a device code, "done" is COMPLETED or
\* acceptedAt; approvedBy is deviceCode.userId.
NoRow   == [kind |-> "email", user |-> NoUser, status |-> "none", createdAt |-> 0,
            expiresAt |-> 0, approvedBy |-> NoUser, polledAt |-> None,
            interval |-> PollInterval]
IdleReq == [pc |-> "idle", id |-> None, kind |-> "email", user |-> NoUser,
            interval |-> 0, late |-> FALSE]

Init ==
    /\ now = 1
    /\ row = [i \in Rows |-> NoRow]
    /\ nRow = 0
    /\ req = [r \in Reqs |-> IdleReq]
    /\ uses = [i \in Rows |-> 0]
    /\ closed = {}

-----------------------------------------------------------------------------
(* Statements. *)

Present(i)  == row[i].status \notin {"none", "deleted"}
Expired(i)  == row[i].expiresAt < now
RowsOf(k, u) == {i \in Rows : Present(i) /\ row[i].kind = k /\ row[i].user = u}

Goto(r, label) == req' = [req EXCEPT ![r].pc = label]
Finish(r)      == req' = [req EXCEPT ![r] = IdleReq]

\* Deleted rows keep their kind, which the properties tell apart.
Gone(i) == [NoRow EXCEPT !.status = "deleted", !.kind = row[i].kind]
DeleteRows(S) == row' = [i \in Rows |-> IF i \in S THEN Gone(i) ELSE row[i]]

\* The effect of credential i takes place; counting stops at MaxUses.
MaxUses == 2
CountUse(i) == uses' = [uses EXCEPT ![i] = IF @ < MaxUses THEN @ + 1 ELSE @]

\* create with a fresh random token
CreateRow(k, u) ==
    /\ nRow < NRows
    /\ nRow' = nRow + 1
    /\ row' = [row EXCEPT ![nRow + 1] =
                 [NoRow EXCEPT !.kind = k, !.user = u, !.status = "live",
                               !.createdAt = now, !.expiresAt = now + TTL]]

\* A handler starts on credential i: late if the matter was closed already.
Start(r, i, label) ==
    req' = [req EXCEPT ![r] = [IdleReq EXCEPT !.pc = label, !.id = i,
              !.kind = row[i].kind, !.user = row[i].user,
              !.late = (i \in closed \/ Expired(i))]]

-----------------------------------------------------------------------------
(* Verification tokens: createToken and createTokenWithHash. *)

\* Mutant: the earlier tokens stay.
ReplaceTokensKeeps(r, k, u) ==
    /\ req[r].pc = "idle" /\ k \in Tokens
    /\ req' = [req EXCEPT ![r] = [IdleReq EXCEPT !.pc = "create", !.kind = k, !.user = u]]
    /\ UNCHANGED <<now, row, nRow, uses, closed>>

\* deleteMany of the user's tokens of this type
ReplaceTokens(r, k, u) ==
    /\ req[r].pc = "idle" /\ k \in Tokens
    /\ DeleteRows(RowsOf(k, u))
    /\ closed' = closed \cup RowsOf(k, u)
    /\ req' = [req EXCEPT ![r] = [IdleReq EXCEPT !.pc = "create", !.kind = k, !.user = u]]
    /\ UNCHANGED <<now, nRow, uses>>

\* the create that follows, of a token or of a magic link
Create(r) ==
    /\ req[r].pc = "create"
    /\ CreateRow(req[r].kind, req[r].user)
    /\ Finish(r)
    /\ UNCHANGED <<now, uses, closed>>

(* validateToken, called by verify-email and reset-password with a type k:  *)
(* a token that has expired or is of another type is deleted.               *)
ValidateRead(r, i, k) ==
    /\ req[r].pc = "idle" /\ k \in {"email", "reset"}
    /\ Present(i) /\ row[i].kind \in Tokens
    /\ Start(r, i, IF row[i].kind # k \/ Expired(i) THEN "discard" ELSE "claim")
    /\ UNCHANGED <<now, row, nRow, uses, closed>>

\* The expired or mismatched row is deleted (validateToken, getConsentRequest).
Discard(r) ==
    /\ req[r].pc = "discard"
    /\ DeleteRows({req[r].id})
    /\ Finish(r)
    /\ UNCHANGED <<now, nRow, uses, closed>>

\* Mutant: deleteMany in place of delete; a row that is gone is no error.
ClaimAnyway(r) ==
    LET i == req[r].id IN
    /\ req[r].pc = "claim"
    /\ DeleteRows({i})
    /\ closed' = closed \cup {i}
    /\ Goto(r, IF req[r].kind = "page" THEN "restore" ELSE "apply")
    /\ UNCHANGED <<now, nRow, uses>>

(* delete by id: the claim.  It throws when another request deleted the row *)
(* first.                                                                   *)
Claim(r) ==
    LET i == req[r].id IN
    /\ req[r].pc = "claim"
    /\ IF Present(i)
         THEN /\ DeleteRows({i}) /\ closed' = closed \cup {i}
              /\ Goto(r, IF req[r].kind = "page" THEN "restore" ELSE "apply")
         ELSE Finish(r) /\ UNCHANGED <<row, closed>>
    /\ UNCHANGED <<now, nRow, uses>>

(* The effect: user.update sets emailVerified or the password, the device   *)
(* grant creates its session, handleConsent stores the grant and issues the *)
(* code (or redirects with access_denied).                                  *)
Apply(r) ==
    /\ req[r].pc = "apply"
    /\ CountUse(req[r].id)
    /\ Finish(r)
    /\ UNCHANGED <<now, row, nRow, closed>>

-----------------------------------------------------------------------------
(* The forced password change: the token is read first and deleted last.    *)

\* token, current password and policy are good (the other outcomes only redirect)
ChangeRead(r, i) ==
    /\ req[r].pc = "idle"
    /\ Present(i) /\ row[i].kind = "change" /\ ~Expired(i)
    /\ Start(r, i, "change")
    /\ UNCHANGED <<now, row, nRow, uses, closed>>

\* user.update
ChangePassword(r) ==
    /\ req[r].pc = "change"
    /\ CountUse(req[r].id)
    /\ Goto(r, "change_end")
    /\ UNCHANGED <<now, row, nRow, closed>>

\* Mutant: the token is left to expire.
ChangeEndKeeps(r) ==
    /\ req[r].pc = "change_end"
    /\ closed' = closed \cup {req[r].id}
    /\ Finish(r)
    /\ UNCHANGED <<now, row, nRow, uses>>

\* verificationToken.delete, then the reply
ChangeEnd(r) ==
    /\ req[r].pc = "change_end"
    /\ DeleteRows({req[r].id} \cap {i \in Rows : Present(i)})
    /\ closed' = closed \cup {req[r].id}
    /\ Finish(r)
    /\ UNCHANGED <<now, nRow, uses>>

-----------------------------------------------------------------------------
(* Magic links. *)

Recent(u) == {i \in Rows : /\ row[i].status # "none" /\ row[i].kind = "magic"
                           /\ row[i].user = u /\ row[i].createdAt >= now - LinkWindow}

\* Mutant: a request that finds the limit reached goes on.
RequestLinkUnlimited(r, u) ==
    /\ req[r].pc = "idle"
    /\ req' = [req EXCEPT ![r] = [IdleReq EXCEPT !.pc = "cancel", !.kind = "magic", !.user = u]]
    /\ UNCHANGED <<now, row, nRow, uses, closed>>

\* requestMagicLink up to the count of the user's recent links
RequestLink(r, u) ==
    /\ req[r].pc = "idle"
    /\ Cardinality(Recent(u)) < LinkLimit
    /\ req' = [req EXCEPT ![r] = [IdleReq EXCEPT !.pc = "cancel", !.kind = "magic", !.user = u]]
    /\ UNCHANGED <<now, row, nRow, uses, closed>>

Pending(u) == {i \in RowsOf("magic", u) : row[i].status = "live"}

\* cancelPendingRequests
CancelPending(r) ==
    LET S == Pending(req[r].user) IN
    /\ req[r].pc = "cancel"
    /\ row' = [i \in Rows |-> IF i \in S THEN [row[i] EXCEPT !.status = "cancelled"] ELSE row[i]]
    /\ closed' = closed \cup S
    /\ Goto(r, "create")
    /\ UNCHANGED <<now, nRow, uses>>

(* validateMagicLink; a link that is completed, cancelled or marked expired *)
(* is refused.                                                              *)
VerifyLinkRead(r, i) ==
    /\ req[r].pc = "idle"
    /\ Present(i) /\ row[i].kind = "magic" /\ row[i].status = "live"
    /\ Start(r, i, IF Expired(i) THEN "expire" ELSE "complete")
    /\ UNCHANGED <<now, row, nRow, uses, closed>>

\* update by id, whatever the status has become
MarkExpired(r) ==
    /\ req[r].pc = "expire"
    /\ row' = [row EXCEPT ![req[r].id].status = "expired"]
    /\ Finish(r)
    /\ UNCHANGED <<now, nRow, uses, closed>>

Complete(r) ==
    LET i == req[r].id IN
    /\ req[r].pc = "complete"
    /\ row' = [row EXCEPT ![i].status = "done"]
    /\ CountUse(i)
    /\ closed' = closed \cup {i}
    /\ Finish(r)
    /\ UNCHANGED <<now, nRow>>

-----------------------------------------------------------------------------
(* Device codes. *)

\* initiateDeviceAuth
InitiateDevice ==
    /\ CreateRow("device", NoUser)
    /\ UNCHANGED <<now, req, uses, closed>>

\* handleDevice with a correct password, or a denial: both look the code up,
\* only the approval checks its expiry.
DecideRead(r, i, u, approve) ==
    /\ req[r].pc = "idle"
    /\ Present(i) /\ row[i].kind = "device"
    /\ approve => ~Expired(i)
    /\ req' = [req EXCEPT ![r] = [IdleReq EXCEPT !.pc = IF approve THEN "approve" ELSE "deny",
                                                 !.id = i, !.user = u]]
    /\ UNCHANGED <<now, row, nRow, uses, closed>>

\* approveDevice: update by id; the last approval wins
Approve(r) ==
    LET i == req[r].id IN
    /\ req[r].pc = "approve"
    /\ row' = IF Present(i) THEN [row EXCEPT ![i].approvedBy = req[r].user] ELSE row
    /\ Finish(r)
    /\ UNCHANGED <<now, nRow, uses, closed>>

\* denyDevice: the flag stays, a later approval does not clear it
Deny(r) ==
    LET i == req[r].id IN
    /\ req[r].pc = "deny"
    /\ row' = IF Present(i) THEN [row EXCEPT ![i].status = "denied"] ELSE row
    /\ closed' = closed \cup {i}
    /\ Finish(r)
    /\ UNCHANGED <<now, nRow, uses>>

TooSoon(i) == row[i].polledAt # None /\ now - row[i].polledAt < row[i].interval

(* handleDeviceCodeGrant reads the code; unless it is approved, not denied  *)
(* and not expired the poll changes nothing.                                *)
Poll(r, i) ==
    /\ req[r].pc = "idle"
    /\ Present(i) /\ row[i].kind = "device" /\ ~Expired(i)
    /\ row[i].status # "denied" /\ row[i].approvedBy # NoUser
    /\ TooSoon(i) => row[i].interval + PollInterval <= MaxInterval
    /\ req' = [req EXCEPT ![r] = [IdleReq EXCEPT !.pc = IF TooSoon(i) THEN "slow" ELSE "polled",
                 !.id = i, !.kind = "device", !.user = row[i].approvedBy,
                 !.interval = row[i].interval, !.late = (i \in closed)]]
    /\ UNCHANGED <<now, row, nRow, uses, closed>>

\* slow_down: the interval grows from the value that was read
SlowDown(r) ==
    LET i == req[r].id IN
    /\ req[r].pc = "slow"
    /\ row' = IF Present(i) THEN [row EXCEPT ![i].polledAt = now,
                                            ![i].interval = req[r].interval + PollInterval]
                            ELSE row
    /\ Finish(r)
    /\ UNCHANGED <<now, nRow, uses, closed>>

\* lastPolledAt; then the user must exist and need no second factor (ok)
RecordPoll(r, ok) ==
    LET i == req[r].id IN
    /\ req[r].pc = "polled"
    /\ row' = IF Present(i) THEN [row EXCEPT ![i].polledAt = now] ELSE row
    /\ IF Present(i) /\ ok THEN Goto(r, "claim") ELSE Finish(r)
    /\ UNCHANGED <<now, nRow, uses, closed>>

-----------------------------------------------------------------------------
(* Consent requests and invitations. *)

\* storeConsentRequest, createInvitation
Store(k, u) ==
    /\ k \in {"consent", "invite"}
    /\ CreateRow(k, u)
    /\ UNCHANGED <<now, req, uses, closed>>

\* getConsentRequest, for the page (GET) or for the answer (POST)
ConsentRead(r, i, page) ==
    /\ req[r].pc = "idle"
    /\ Present(i) /\ row[i].kind = "consent"
    /\ req' = [req EXCEPT ![r] = [IdleReq EXCEPT
                 !.pc = IF Expired(i) THEN "discard" ELSE "claim", !.id = i,
                 !.kind = IF page THEN "page" ELSE "consent", !.user = row[i].user,
                 !.late = (i \in closed \/ Expired(i))]]
    /\ UNCHANGED <<now, row, nRow, uses, closed>>

\* showConsentForm stores the request again, under a new token
Restore(r) ==
    /\ req[r].pc = "restore"
    /\ CreateRow("consent", req[r].user)
    /\ CountUse(req[r].id)
    /\ Finish(r)
    /\ UNCHANGED <<now, closed>>

\* acceptInvitation by the verified owner of the invited address
AcceptRead(r, i) ==
    /\ req[r].pc = "idle"
    /\ Present(i) /\ row[i].kind = "invite" /\ row[i].status = "live" /\ ~Expired(i)
    /\ Start(r, i, "accept")
    /\ UNCHANGED <<now, row, nRow, uses, closed>>

\* the transaction: acceptedAt is set whatever it is, the membership upserted
Accept(r) ==
    LET i == req[r].id IN
    /\ req[r].pc = "accept"
    /\ row' = [row EXCEPT ![i].status = "done"]
    /\ CountUse(i)
    /\ closed' = closed \cup {i}
    /\ Finish(r)
    /\ UNCHANGED <<now, nRow>>

-----------------------------------------------------------------------------
\* Swept: the kinds with a scheduled deletion of expired rows
Swept == {"device", "consent"}
Stale(k) == {i \in Rows : Present(i) /\ row[i].kind = k /\ Expired(i)}

\* cleanupExpiredDeviceCodes and cleanupExpiredConsentRequests
Sweep(k) ==
    /\ DeleteRows(Stale(k))
    /\ UNCHANGED <<now, nRow, req, uses, closed>>

\* A statement throws or the server stops: the request ends where it is.
Abort(r) ==
    /\ req[r].pc # "idle"
    /\ Finish(r)
    /\ UNCHANGED <<now, row, nRow, uses, closed>>

Tick ==
    /\ now < MaxTime
    /\ now' = now + 1
    /\ UNCHANGED <<row, nRow, req, uses, closed>>

Step(r) ==
    \/ \E k \in Tokens, u \in Users : ReplaceTokens(r, k, u)
    \/ \E i \in Rows, k \in {"email", "reset"} : ValidateRead(r, i, k)
    \/ \E i \in Rows : ChangeRead(r, i) \/ VerifyLinkRead(r, i) \/ Poll(r, i) \/ AcceptRead(r, i)
    \/ \E i \in Rows, page \in BOOLEAN : ConsentRead(r, i, page)
    \/ \E i \in Rows, u \in Users, ok \in BOOLEAN : DecideRead(r, i, u, ok)
    \/ \E u \in Users : RequestLink(r, u)
    \/ \E ok \in BOOLEAN : RecordPoll(r, ok)
    \/ Create(r) \/ Discard(r) \/ Claim(r) \/ Apply(r)
    \/ ChangePassword(r) \/ ChangeEnd(r)
    \/ CancelPending(r) \/ MarkExpired(r) \/ Complete(r)
    \/ Approve(r) \/ Deny(r) \/ SlowDown(r)
    \/ Restore(r) \/ Accept(r) \/ Abort(r)

Next ==
    \/ \E r \in Reqs : Step(r)
    \/ InitiateDevice
    \/ \E k \in Kinds, u \in Users : Store(k, u)
    \/ \E k \in Swept : Sweep(k)
    \/ Tick

Spec == Init /\ [][Next]_vars

-----------------------------------------------------------------------------
(* Properties. *)

ReqType == [pc : {"idle", "create", "discard", "claim", "apply", "change", "change_end",
                  "cancel", "expire", "complete", "approve", "deny", "slow", "polled",
                  "restore", "accept"},
            id : Rows \cup {None}, kind : Kinds \cup {"page"}, user : Users \cup {NoUser},
            interval : Nat, late : BOOLEAN]

\* Rows and requests have their shapes and the interval stays within its bound.
TypeOK ==
    /\ now \in Nat /\ nRow \in 0..NRows
    /\ row \in [Rows -> [kind : Kinds, user : Users \cup {NoUser},
                         status : {"none", "live", "done", "cancelled", "expired",
                                   "denied", "deleted"},
                         createdAt : Nat, expiresAt : Nat,
                         approvedBy : Users \cup {NoUser}, polledAt : Nat,
                         interval : Nat]]
    /\ req \in [Reqs -> ReqType]
    /\ uses \in [Rows -> 0..MaxUses] /\ closed \in SUBSET Rows

(* Refinement mapping: a claimed credential is held by the request between  *)
(* its DELETE and the effect.                                               *)
Holders(i) == {r \in Reqs : req[r].id = i /\ req[r].pc \in {"apply", "restore"}}

AbsState == [i \in Rows |->
    CASE row[i].status = "none" \/ row[i].kind \notin Claimed -> "unissued"
      [] row[i].kind \in Claimed /\ uses[i] > 0              -> "used"
      [] row[i].kind \in Claimed /\ Present(i)               -> "live"
      [] OTHER -> IF Holders(i) # {} THEN "held" ELSE "void"]

AbsUses == [i \in Rows |-> IF row[i].kind \in Claimed THEN uses[i] ELSE 0]

Single == INSTANCE SingleUse WITH Ids <- Rows, state <- AbsState, uses <- AbsUses

(* Verification and reset tokens, device codes and consent requests are     *)
(* single-use: however requests, sweeps, replacements and failures          *)
(* interleave, one request wins the DELETE and only it acts, once.          *)
ImplementsSingleUse == Single!Spec

(* A credential is dead once the handler that used it has replied, once a   *)
(* newer one replaced it, once it was denied or has expired: no request     *)
(* that looks it up after that gets anywhere with it.  Magic links and      *)
(* invitations, which are marked by an unconditional update, and the        *)
(* change-password token, which is deleted last, promise no more than this. *)
NoLateUse ==
    \A r \in Reqs : req[r].late =>
        req[r].pc \notin {"claim", "apply", "restore", "change", "change_end",
                         "polled", "complete", "accept"}

(* A new token or link replaces the user's earlier ones: more than one is   *)
(* live only when creations overlapped, hence never more than there are     *)
(* requests in flight (createToken, cancelPendingRequests).                 *)
LiveBounded ==
    \A u \in Users, k \in Tokens \cup {"magic"} :
        Cardinality({i \in RowsOf(k, u) : row[i].status = "live"}) <= Cardinality(Reqs)

(* The links of one window exceed the limit by less than the number of      *)
(* requests in flight (requestMagicLink counts before it creates).          *)
LinkRateBounded ==
    \A u \in Users : Cardinality(Recent(u)) < LinkLimit + Cardinality(Reqs)
=============================================================================
