------------------------------- MODULE SmsOtp -------------------------------
(***************************************************************************)
(* One-time codes sent by SMS (SmsOtpService).  A challenge is identified  *)
(* by the flow token it is bound to; its row in otp_attempts holds the     *)
(* current code, the guesses made and the codes sent.  sendCode logs every *)
(* send in sms_delivery_logs and counts that log against the caps;         *)
(* verifyCode spends a guess before it compares.                           *)
(*                                                                         *)
(* One action is one database statement.  Codes are numbered in the order  *)
(* they are generated: two generated codes never have the same keyed hash. *)
(***************************************************************************)
EXTENDS Integers, FiniteSets

CONSTANTS
    Reqs,        \* requests that may be in flight at the same time
    Bindings,    \* flow tokens, all handed out at time 0
    BindingTTL,  \* lifetime of a flow token (sign-in challenge, enrolment)
    Buckets,     \* what sends are counted by: a user, a phone, an address, a realm
    BucketsOf,   \* the buckets a send for a binding falls into
    Limit,       \* sends allowed per bucket and window
    Window,      \* length of a bucket's window
    MaxAttempts, \* SMS_OTP_MAX_ATTEMPTS
    MaxSends,    \* SMS_OTP_MAX_SENDS
    Cooldown,    \* SMS_OTP_RESEND_COOLDOWN_SECONDS
    CodeTTL,     \* otpExpirySeconds
    Retention,   \* OTP_ROW_RETENTION_MS
    LogRetention,\* DELIVERY_LOG_RETENTION_DAYS
    MaxLatency,  \* a request is in flight for at most this long
    NLogs,       \* bound: sends logged in a behaviour
    MaxTime      \* bound: last clock value

ASSUME SmsAssumption ==
    /\ Bindings # {} /\ BucketsOf \in [Bindings -> SUBSET Buckets]
    /\ Limit \in [Buckets -> Nat] /\ Window \in [Buckets -> Nat]
    /\ MaxAttempts \in Nat /\ MaxSends \in Nat \ {0} /\ Cooldown \in Nat
    /\ BindingTTL \in Nat /\ CodeTTL \in Nat
    /\ Retention \in Nat /\ LogRetention \in Nat /\ MaxLatency \in Nat
    /\ NLogs \in Nat /\ MaxTime \in Nat

(* The retention comment of the service: a row outlives every flow token it *)
(* can be bound to; the delivery log outlives every window it is counted in.*)
ASSUME RetentionAssumption ==
    /\ BindingTTL + MaxLatency <= Retention + CodeTTL
    /\ \A k \in Buckets : Window[k] + MaxLatency <= LogRetention

LogIds == 1..NLogs

VARIABLES
    now,
    row,      \* per binding: its otp_attempts row
    nRow,     \* row ids handed out; a recreated row has a new id
    nCode,    \* codes generated
    logs,     \* sms_delivery_logs, in order of creation
    nLog,
    pruned,   \* log rows the cleanup has deleted
    passed,   \* per log row: the buckets whose count let the send through
    sent,     \* log rows whose message was handed to the provider
    req,      \* per request: program counter and local variables
    guesses,  \* history: comparisons made per binding
    stored,   \* history: codes stored per binding
    wins,     \* history: accepted codes, per binding
    wiped     \* history: bindings whose row went with the user's phone

vars == <<now, row, nRow, nCode, logs, nLog, pruned, passed, sent, req,
          guesses, stored, wins, wiped>>
history == <<guesses, stored, wins, wiped>>

NoRow   == [id |-> 0, code |-> 0, attempts |-> 0, sends |-> 0,
            lastSentAt |-> 0, expiresAt |-> 0]
AnyB    == CHOOSE b \in Bindings : TRUE
IdleReq == [pc |-> "idle", b |-> AnyB, at |-> 0, id |-> 0, code |-> 0,
            log |-> 0, todo |-> {}, guess |-> 0]

Init ==
    /\ now = 0
    /\ row = [b \in Bindings |-> NoRow]
    /\ nRow = 0 /\ nCode = 0 /\ nLog = 0
    /\ logs = [l \in LogIds |-> [b |-> AnyB, at |-> 0]]
    /\ pruned = {} /\ sent = {}
    /\ passed = [l \in LogIds |-> {}]
    /\ req = [p \in Reqs |-> IdleReq]
    /\ guesses = [b \in Bindings |-> 0]
    /\ stored = [b \in Bindings |-> 0]
    /\ wins = [b \in Bindings |-> {}]
    /\ wiped = {}

Exists(b) == row[b].id # 0
Alive     == now <= BindingTTL
Finish(p) == req' = [req EXCEPT ![p] = IdleReq]

-----------------------------------------------------------------------------
(* sendCode *)

(* The challenge's row is read and the send refused when the challenge is   *)
(* locked, out of sends or cooling down; refusals change nothing.           *)
SendRead(p, b) ==
    /\ req[p].pc = "idle" /\ Alive
    /\ Exists(b) => /\ row[b].attempts < MaxAttempts
                    /\ row[b].sends < MaxSends
                    /\ row[b].lastSentAt + Cooldown <= now
    /\ req' = [req EXCEPT ![p] = [IdleReq EXCEPT !.pc = "s_log", !.b = b,
                                    !.at = now, !.id = row[b].id]]
    /\ UNCHANGED <<now, row, nRow, nCode, logs, nLog, pruned, passed, sent, history>>

\* The send is logged before anything is counted.
SendLog(p) ==
    /\ req[p].pc = "s_log"
    /\ nLog < NLogs
    /\ nLog' = nLog + 1
    /\ logs' = [logs EXCEPT ![nLog + 1] = [b |-> req[p].b, at |-> now]]
    /\ req' = [req EXCEPT ![p] = [@ EXCEPT !.pc = "s_count", !.log = nLog + 1,
                                           !.todo = BucketsOf[req[p].b]]]
    /\ UNCHANGED <<now, row, nRow, nCode, pruned, passed, sent, history>>

\* The log rows of bucket k that are not older than `from`.
Counted(k, from) ==
    {l \in 1..nLog : l \notin pruned /\ k \in BucketsOf[logs[l].b] /\ logs[l].at >= from}

\* Mutant: the comparison forgets that the count includes the send itself.
SendCountOffByOne(p, k) ==
    /\ req[p].pc = "s_count" /\ k \in req[p].todo
    /\ IF Cardinality(Counted(k, req[p].at - Window[k])) > Limit[k] + 1
         THEN Finish(p) /\ UNCHANGED passed
         ELSE /\ passed' = [passed EXCEPT ![req[p].log] = @ \cup {k}]
              /\ req' = [req EXCEPT ![p].todo = @ \ {k}]
    /\ UNCHANGED <<now, row, nRow, nCode, logs, nLog, pruned, sent, history>>

(* checkSendLimits: the four counts run in parallel, each on its own; each  *)
(* includes the request's own log row.                                      *)
SendCount(p, k) ==
    /\ req[p].pc = "s_count" /\ k \in req[p].todo
    /\ IF Cardinality(Counted(k, req[p].at - Window[k])) > Limit[k]
         THEN Finish(p) /\ UNCHANGED passed
         ELSE /\ passed' = [passed EXCEPT ![req[p].log] = @ \cup {k}]
              /\ req' = [req EXCEPT ![p].todo = @ \ {k}]
    /\ UNCHANGED <<now, row, nRow, nCode, logs, nLog, pruned, sent, history>>

\* A resend may replace the code only while the row it read still allows it.
ResendAllowed(p) ==
    LET r == row[req[p].b] IN
    /\ r.id = req[p].id
    /\ r.lastSentAt <= req[p].at - Cooldown
    /\ r.sends < MaxSends
    /\ r.attempts < MaxAttempts

\* The row a first send creates, and what a resend makes of the one it updates.
FirstRow(p)  == [id |-> nRow + 1, code |-> nCode + 1, attempts |-> 0, sends |-> 1,
                 lastSentAt |-> req[p].at, expiresAt |-> req[p].at + CodeTTL]
ResentRow(p) == [row[req[p].b] EXCEPT !.code = nCode + 1, !.sends = @ + 1,
                   !.lastSentAt = req[p].at, !.expiresAt = req[p].at + CodeTTL]

(* The new code: one conditional UPDATE of the row read before, or one      *)
(* INSERT that the unique (purpose, binding) rejects when another first     *)
(* send got there.  A refused send stays in the log.                        *)
SendStore(p) ==
    LET b == req[p].b IN
    /\ req[p].pc = "s_count" /\ req[p].todo = {}
    /\ \/ /\ req[p].id # 0 /\ ResendAllowed(p)
          /\ row' = [row EXCEPT ![b] = ResentRow(p)]
          /\ nCode' = nCode + 1
          /\ stored' = [stored EXCEPT ![b] = @ + 1]
          /\ req' = [req EXCEPT ![p].pc = "s_send"]
          /\ UNCHANGED nRow
       \/ /\ req[p].id = 0 /\ ~Exists(b)
          /\ row' = [row EXCEPT ![b] = FirstRow(p)]
          /\ nRow' = nRow + 1 /\ nCode' = nCode + 1
          /\ stored' = [stored EXCEPT ![b] = @ + 1]
          /\ req' = [req EXCEPT ![p].pc = "s_send"]
       \/ /\ IF req[p].id # 0 THEN ~ResendAllowed(p) ELSE Exists(b)
          /\ Finish(p) /\ UNCHANGED <<row, nRow, nCode, stored>>
    /\ UNCHANGED <<now, logs, nLog, pruned, passed, sent, guesses, wins, wiped>>

\* The provider call; the log row ends as SENT or FAILED.
SendDeliver(p) ==
    /\ req[p].pc = "s_send"
    /\ sent' = sent \cup {req[p].log}
    /\ Finish(p)
    /\ UNCHANGED <<now, row, nRow, nCode, logs, nLog, pruned, passed, history>>

-----------------------------------------------------------------------------
(* verifyCode *)

\* The typed code is any code generated so far, or none of them (0).
VerifyRead(p, b, g) ==
    /\ req[p].pc = "idle" /\ Alive /\ Exists(b)
    /\ req' = [req EXCEPT ![p] = [IdleReq EXCEPT !.pc = "v_reserve", !.b = b, !.at = now,
                                    !.id = row[b].id, !.code = row[b].code, !.guess = g]]
    /\ UNCHANGED <<now, row, nRow, nCode, logs, nLog, pruned, passed, sent, history>>

\* One conditional UPDATE spends a guess; then the code read before is compared.
VerifyReserve(p) ==
    LET b == req[p].b
        reserved == /\ row[b].id = req[p].id
                    /\ row[b].attempts < MaxAttempts
                    /\ row[b].expiresAt > now
    IN
    /\ req[p].pc = "v_reserve"
    /\ IF reserved
         THEN /\ row' = [row EXCEPT ![b].attempts = @ + 1]
              /\ guesses' = [guesses EXCEPT ![b] = @ + 1]
              /\ IF req[p].guess = req[p].code
                   THEN req' = [req EXCEPT ![p].pc = "v_claim"] ELSE Finish(p)
         ELSE Finish(p) /\ UNCHANGED <<row, guesses>>
    /\ UNCHANGED <<now, nRow, nCode, logs, nLog, pruned, passed, sent, stored, wins, wiped>>

\* Mutant: the claim deletes whatever row the challenge has.
VerifyClaimAny(p) ==
    LET b == req[p].b IN
    /\ req[p].pc = "v_claim"
    /\ row' = [row EXCEPT ![b] = NoRow]
    /\ wins' = [wins EXCEPT ![b] = @ \cup {<<req[p].code, p>>}]
    /\ Finish(p)
    /\ UNCHANGED <<now, nRow, nCode, logs, nLog, pruned, passed, sent, guesses, stored,
                   wiped>>

\* A conditional DELETE claims the code that was compared.
VerifyClaim(p) ==
    LET b == req[p].b IN
    /\ req[p].pc = "v_claim"
    /\ IF row[b].id = req[p].id /\ row[b].code = req[p].code
         THEN /\ row' = [row EXCEPT ![b] = NoRow]
              /\ wins' = [wins EXCEPT ![b] = @ \cup {<<req[p].code, p>>}]
         ELSE UNCHANGED <<row, wins>>
    /\ Finish(p)
    /\ UNCHANGED <<now, nRow, nCode, logs, nLog, pruned, passed, sent, guesses, stored,
                   wiped>>

-----------------------------------------------------------------------------
\* Mutant: rows are deleted as soon as their code has expired.
CleanupAtExpiry ==
    /\ row' = [b \in Bindings |-> IF row[b].expiresAt < now THEN NoRow ELSE row[b]]
    /\ pruned' = pruned \cup {l \in 1..nLog : logs[l].at < now - LogRetention}
    /\ UNCHANGED <<now, nRow, nCode, logs, nLog, passed, sent, req, history>>

\* The five-minute housekeeping timer.
Cleanup ==
    /\ row' = [b \in Bindings |->
                 IF row[b].expiresAt < now - Retention THEN NoRow ELSE row[b]]
    /\ pruned' = pruned \cup {l \in 1..nLog : logs[l].at < now - LogRetention}
    /\ UNCHANGED <<now, nRow, nCode, logs, nLog, passed, sent, req, history>>

(* MfaService.disableSms and disableAllFactors delete every row of the user; *)
(* here any binding's row may go, alone or with others.                     *)
DisableSms(b) ==
    /\ Exists(b)
    /\ row' = [row EXCEPT ![b] = NoRow]
    /\ wiped' = wiped \cup {b}
    /\ UNCHANGED <<now, nRow, nCode, logs, nLog, pruned, passed, sent, req,
                   guesses, stored, wins>>

\* A failed statement or a server crash ends a request between two steps.
Abort(p) ==
    /\ req[p].pc # "idle"
    /\ Finish(p)
    /\ UNCHANGED <<now, row, nRow, nCode, logs, nLog, pruned, passed, sent, history>>

Tick ==
    /\ now < MaxTime
    /\ \A p \in Reqs : req[p].pc # "idle" => now < req[p].at + MaxLatency
    /\ now' = now + 1
    /\ UNCHANGED <<row, nRow, nCode, logs, nLog, pruned, passed, sent, req, history>>

Step(p) ==
    \/ \E b \in Bindings : SendRead(p, b) \/ \E g \in 0..nCode : VerifyRead(p, b, g)
    \/ \E k \in Buckets : SendCount(p, k)
    \/ SendLog(p) \/ SendStore(p) \/ SendDeliver(p)
    \/ VerifyReserve(p) \/ VerifyClaim(p) \/ Abort(p)

Next == (\E p \in Reqs : Step(p)) \/ (\E b \in Bindings : DisableSms(b)) \/ Cleanup \/ Tick

Spec == Init /\ [][Next]_vars

-----------------------------------------------------------------------------
(* Properties *)

RowType == [id : Nat, code : Nat, attempts : 0..MaxAttempts, sends : Nat,
            lastSentAt : Nat, expiresAt : Nat]
ReqType == [pc : {"idle", "s_log", "s_count", "s_send", "v_reserve", "v_claim"},
            b : Bindings, at : Nat, id : Nat, code : Nat, log : 0..NLogs,
            todo : SUBSET Buckets, guess : Nat]

\* The rows have the schema's shape; attempts never passes its maximum.
TypeOK ==
    /\ now \in Nat
    /\ row \in [Bindings -> RowType]
    /\ nRow \in Nat /\ nCode \in Nat /\ nLog \in 0..NLogs
    /\ logs \in [LogIds -> [b : Bindings, at : Nat]]
    /\ pruned \in SUBSET LogIds
    /\ passed \in [LogIds -> SUBSET Buckets]
    /\ sent \in SUBSET (0..NLogs)
    /\ req \in [Reqs -> ReqType]
    /\ guesses \in [Bindings -> Nat]
    /\ stored \in [Bindings -> Nat]
    /\ wins \in [Bindings -> SUBSET (Nat \X Reqs)]
    /\ wiped \in SUBSET Bindings

(* "A parallel burst can't all pass a count taken first": however sends     *)
(* overlap, within any window of a bucket's length at most Limit messages   *)
(* logged for that bucket reach the provider (sendCode logs, then counts).  *)
InWindow(L, k, x) == {l \in L : /\ k \in BucketsOf[logs[l].b]
                                /\ x <= logs[l].at /\ logs[l].at <= x + Window[k]}
SendCap ==
    \A k \in Buckets, x \in 0..MaxTime : Cardinality(InWindow(sent, k, x)) <= Limit[k]

\* No code of b was accepted yet, and the user's phone was not removed meanwhile.
Open(b) == wins[b] = {} /\ b \notin wiped

(* "Each challenge allows 5 guesses in total, including after resends":     *)
(* while the challenge is open at most MaxAttempts comparisons were made    *)
(* for it and at most MaxSends codes stored, over all codes sent, all       *)
(* racing requests and all rows, swept ones included.                       *)
ChallengeBudgets ==
    \A b \in Bindings : Open(b) => guesses[b] <= MaxAttempts /\ stored[b] <= MaxSends

(* "A correct code can be used once": no two requests are accepted with the *)
(* same code, also when they verify it at the same time.                    *)
SingleUse ==
    \A b1, b2 \in Bindings : \A w1 \in wins[b1], w2 \in wins[b2] :
        w1[1] = w2[1] => b1 = b2 /\ w1 = w2
=============================================================================
