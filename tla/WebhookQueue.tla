---------------------------- MODULE WebhookQueue ----------------------------
(***************************************************************************)
(* The webhook outbox: dispatchEvent stores an event, processQueue runs    *)
(* every ten seconds on every server, takes the events that are due, posts *)
(* each of them to all its subscribers and stores the outcome              *)
(* (WebhooksService, WebhookSchedulerService).                             *)
(*                                                                         *)
(* One action is one database statement or one answer of a subscriber.  A  *)
(* worker w is one run of processQueue; several workers are several        *)
(* servers, or runs of one server that overlap.  Instead of a clock, an    *)
(* event whose nextRetryAt lies ahead is not due until RetryDue.           *)
(***************************************************************************)
EXTENDS Integers, FiniteSets

CONSTANTS
    Workers,         \* runs of processQueue that may overlap
    Events,          \* events
    Webhooks,        \* subscribers
    MaxAttempts,     \* MAX_ATTEMPTS
    RowMaxAttempts,  \* the max_attempts column, 4 in every row
    BatchSize,       \* BATCH_SIZE
    MaxFaults        \* bound: crashes and failed statements in a behaviour

ASSUME QueueAssumption ==
    /\ MaxAttempts \in Nat \ {0} /\ RowMaxAttempts \in Nat
    /\ BatchSize \in Nat \ {0} /\ MaxFaults \in Nat
    /\ IsFiniteSet(Events)

VARIABLES
    row,      \* webhook_events rows: status, attempts, is nextRetryAt past?
    hook,     \* webhooks rows: "none", "on" (enabled and subscribed), "off", "gone"
    job,      \* per worker and event: step and local variables
    faults,   \* crashes and failed statements so far
    steady,   \* history: per event, the webhooks "on" ever since it was stored
    accepted, \* history: per event, the webhooks that answered a post with 2xx
    rounds,   \* history: rounds of posts per event, until it is raced
    raced,    \* history: events read by a worker before another one that had
              \* read them too marked them PROCESSING
    stranded  \* history: events whose job ended between its claim and its update

vars == <<row, hook, job, faults, steady, accepted, rounds, raced, stranded>>

NoRow  == [status |-> "none", attempts |-> 0, due |-> FALSE]
NoJob  == [pc |-> "none", attempts |-> 0, waiting |-> {}, failed |-> FALSE]

Init ==
    /\ row = [e \in Events |-> NoRow]
    /\ hook = [h \in Webhooks |-> "none"]
    /\ job = [w \in Workers |-> [e \in Events |-> NoJob]]
    /\ faults = 0
    /\ steady = [e \in Events |-> {}]
    /\ accepted = [e \in Events |-> {}]
    /\ rounds = [e \in Events |-> 0]
    /\ raced = {} /\ stranded = {}

On == {h \in Webhooks : hook[h] = "on"}

-----------------------------------------------------------------------------
(* The administrator and the application. *)

\* create, update (enabled or eventTypes) and remove
SetWebhook(h, s) ==
    /\ \/ hook[h] = "none" /\ s \in {"on", "off"}
       \/ hook[h] \in {"on", "off"} /\ s \in {"on", "off", "gone"} \ {hook[h]}
    /\ hook' = [hook EXCEPT ![h] = s]
    /\ steady' = IF s = "on" THEN steady ELSE [e \in Events |-> steady[e] \ {h}]
    /\ UNCHANGED <<row, job, faults, accepted, rounds, raced, stranded>>

\* dispatchEvent
Dispatch(e) ==
    /\ row[e].status = "none"
    /\ row' = [row EXCEPT ![e] = [status |-> "PENDING", attempts |-> 0, due |-> TRUE]]
    /\ steady' = [steady EXCEPT ![e] = On]
    /\ UNCHANGED <<hook, job, faults, accepted, rounds, raced, stranded>>

\* nextRetryAt passes.
RetryDue(e) ==
    /\ row[e].status # "none" /\ ~row[e].due
    /\ row' = [row EXCEPT ![e].due = TRUE]
    /\ UNCHANGED <<hook, job, faults, steady, accepted, rounds, raced, stranded>>

-----------------------------------------------------------------------------
(* processQueue *)

Open(e) == row[e].status \in {"PENDING", "FAILED"}
Held(w) == {e \in Events : job[w][e].pc = "read"}
Busy(w) == {e \in Events : job[w][e].pc # "none"}

\* Mutant: the query does not look at attempts.
DueAnyAttempts == {e \in Events : Open(e) /\ row[e].due}

\* findMany
Due == {e \in Events : Open(e) /\ row[e].due /\ row[e].attempts < MaxAttempts}

(* The oldest BatchSize due events are read; the model takes any BatchSize  *)
(* of them.                                                                 *)
ReadQueue(w, S) ==
    /\ Busy(w) = {}
    /\ S # {} /\ S \subseteq Due
    /\ S = Due \/ Cardinality(S) = BatchSize
    /\ Cardinality(S) <= BatchSize
    /\ job' = [job EXCEPT ![w] = [e \in Events |->
                 IF e \in S THEN [NoJob EXCEPT !.pc = "read", !.attempts = row[e].attempts]
                            ELSE NoJob]]
    /\ raced' = raced \cup {e \in S : \E v \in Workers \ {w} : e \in Held(v)}
    /\ UNCHANGED <<row, hook, faults, steady, accepted, rounds, stranded>>

\* Mutant: the rows are not marked before the posts.
ClaimNothing(w) ==
    /\ Held(w) # {}
    /\ job' = [job EXCEPT ![w] = [e \in Events |->
                 IF e \in Held(w) THEN [job[w][e] EXCEPT !.pc = "subscribers"]
                                  ELSE job[w][e]]]
    /\ UNCHANGED <<row, hook, faults, steady, accepted, rounds, raced, stranded>>

(* updateMany marks the rows that are still open; how many they were is not *)
(* looked at, every event that was read is processed.                       *)
Claim(w) ==
    /\ Held(w) # {}
    /\ row' = [e \in Events |-> IF e \in Held(w) /\ Open(e)
                                  THEN [row[e] EXCEPT !.status = "PROCESSING"] ELSE row[e]]
    /\ job' = [job EXCEPT ![w] = [e \in Events |->
                 IF e \in Held(w) THEN [job[w][e] EXCEPT !.pc = "subscribers"]
                                  ELSE job[w][e]]]
    /\ UNCHANGED <<hook, faults, steady, accepted, rounds, raced, stranded>>

-----------------------------------------------------------------------------
(* processEvent *)

\* webhook.findMany
ReadSubscribers(w, e) ==
    /\ job[w][e].pc = "subscribers"
    /\ IF On = {}
         THEN /\ job' = [job EXCEPT ![w][e].pc = "nobody"]
              /\ UNCHANGED rounds
         ELSE /\ job' = [job EXCEPT ![w][e].pc = "post", ![w][e].waiting = On]
              /\ rounds' = IF e \in raced THEN rounds ELSE [rounds EXCEPT ![e] = @ + 1]
    /\ UNCHANGED <<row, hook, faults, steady, accepted, raced, stranded>>

\* Mutant: deliverToWebhook does not throw on a status outside 2xx.
AnswerUnchecked(w, e, h, ok) ==
    /\ job[w][e].pc = "post" /\ h \in job[w][e].waiting
    /\ ok => hook[h] # "gone"
    /\ job' = [job EXCEPT ![w][e].waiting = @ \ {h}]
    /\ accepted' = IF ok THEN [accepted EXCEPT ![e] = @ \cup {h}] ELSE accepted
    /\ UNCHANGED <<row, hook, faults, steady, rounds, raced, stranded>>

(* deliverToWebhook ends, with a 2xx answer or with a rejection: another    *)
(* status, a network error, the timeout, a failed statement.  The delivery  *)
(* log of a deleted webhook cannot be written, so its delivery rejects.     *)
Answer(w, e, h, ok) ==
    /\ job[w][e].pc = "post" /\ h \in job[w][e].waiting
    /\ ok => hook[h] # "gone"
    /\ job' = [job EXCEPT ![w][e].waiting = @ \ {h}, ![w][e].failed = @ \/ ~ok]
    /\ accepted' = IF ok THEN [accepted EXCEPT ![e] = @ \cup {h}] ELSE accepted
    /\ UNCHANGED <<row, hook, faults, steady, rounds, raced, stranded>>

\* No subscriber: DELIVERED, without an attempt.
CloseUnheard(w, e) ==
    /\ job[w][e].pc = "nobody"
    /\ row' = [row EXCEPT ![e].status = "DELIVERED"]
    /\ job' = [job EXCEPT ![w][e] = NoJob]
    /\ UNCHANGED <<hook, faults, steady, accepted, rounds, raced, stranded>>

\* Mutant: the failure branch stores the attempt but leaves the status.
CloseKeepsStatus(w, e) ==
    LET n == job[w][e].attempts + 1 IN
    /\ job[w][e].pc = "post" /\ job[w][e].waiting = {}
    /\ row' = [row EXCEPT ![e].attempts = n,
                          ![e].status = IF job[w][e].failed THEN @ ELSE "DELIVERED"]
    /\ job' = [job EXCEPT ![w][e] = NoJob]
    /\ UNCHANGED <<hook, faults, steady, accepted, rounds, raced, stranded>>

(* All answered: DELIVERED if none failed, else FAILED.  nextRetryAt moves  *)
(* on only while retries are left; otherwise it stays where it is.          *)
Close(w, e) ==
    LET n == job[w][e].attempts + 1
        retry == RowMaxAttempts - n > 0 /\ n <= MaxAttempts - 1
    IN
    /\ job[w][e].pc = "post" /\ job[w][e].waiting = {}
    /\ row' = [row EXCEPT ![e] =
                 IF ~job[w][e].failed
                   THEN [status |-> "DELIVERED", attempts |-> n, due |-> row[e].due]
                   ELSE [status |-> "FAILED", attempts |-> n, due |-> row[e].due /\ ~retry]]
    /\ job' = [job EXCEPT ![w][e] = NoJob]
    /\ UNCHANGED <<hook, faults, steady, accepted, rounds, raced, stranded>>

-----------------------------------------------------------------------------
(* A server stops, or updateMany fails: the run of w ends.  Events it has   *)
(* read but not marked are as they were; the others stay PROCESSING.        *)
Crash(w) ==
    /\ faults < MaxFaults /\ Busy(w) # {}
    /\ faults' = faults + 1
    /\ job' = [job EXCEPT ![w] = [e \in Events |-> NoJob]]
    /\ stranded' = stranded \cup (Busy(w) \ Held(w))
    /\ UNCHANGED <<row, hook, steady, accepted, rounds, raced>>

\* A statement of processEvent fails; allSettled drops the rejection.
StatementFails(w, e) ==
    /\ faults < MaxFaults /\ job[w][e].pc \in {"subscribers", "nobody", "post"}
    /\ faults' = faults + 1
    /\ job' = [job EXCEPT ![w][e] = NoJob]
    /\ stranded' = stranded \cup {e}
    /\ UNCHANGED <<row, hook, steady, accepted, rounds, raced>>

Work(w) ==
    \/ \E S \in SUBSET Events : ReadQueue(w, S)
    \/ Claim(w)
    \/ \E e \in Events : \/ ReadSubscribers(w, e) \/ CloseUnheard(w, e) \/ Close(w, e)
                         \/ \E h \in Webhooks, ok \in BOOLEAN : Answer(w, e, h, ok)

Next ==
    \/ \E h \in Webhooks, s \in {"on", "off", "gone"} : SetWebhook(h, s)
    \/ \E e \in Events : Dispatch(e) \/ RetryDue(e)
    \/ \E w \in Workers : Work(w) \/ Crash(w) \/ (\E e \in Events : StatementFails(w, e))

Spec == Init /\ [][Next]_vars

(* The timer keeps firing, statements and posts end (a post has a ten       *)
(* second timeout) and time passes; nothing obliges a subscriber to accept. *)
FairSpec ==
    /\ Spec
    /\ \A w \in Workers : WF_vars(Work(w))
    /\ \A e \in Events : WF_vars(RetryDue(e))

-----------------------------------------------------------------------------
(* Properties. *)

JobType == [pc : {"none", "read", "subscribers", "nobody", "post"},
            attempts : 0..(MaxAttempts - 1), waiting : SUBSET Webhooks, failed : BOOLEAN]

\* Rows and jobs have their shapes; attempts never passes MAX_ATTEMPTS.
TypeOK ==
    /\ row \in [Events -> [status : {"none", "PENDING", "PROCESSING", "DELIVERED", "FAILED"},
                           attempts : 0..MaxAttempts, due : BOOLEAN]]
    /\ hook \in [Webhooks -> {"none", "on", "off", "gone"}]
    /\ job \in [Workers -> [Events -> JobType]]
    /\ faults \in 0..MaxFaults
    /\ steady \in [Events -> SUBSET Webhooks] /\ accepted \in [Events -> SUBSET Webhooks]
    /\ rounds \in [Events -> Nat]
    /\ raced \subseteq Events /\ stranded \subseteq Events

(* The outbox delivers at least once: when an event is DELIVERED, every     *)
(* webhook that was enabled and subscribed ever since the event was stored  *)
(* has accepted it, over all retries, overlapping workers and crashes.      *)
AtLeastOnce == \A e \in Events : row[e].status = "DELIVERED" => steady[e] \subseteq accepted[e]

(* "We update to PROCESSING first so that a second concurrent scheduler     *)
(* instance does not pick up the same rows", as far as it goes: unless a    *)
(* worker reads an event in the window between another's findMany and       *)
(* updateMany, no two workers ever process it at the same time.             *)
OneJob ==
    \A e \in Events : e \notin raced =>
        \A v, w \in Workers : e \in Busy(v) /\ e \in Busy(w) => v = w

(* "Maximum number of delivery attempts (initial + retries)": an event that *)
(* no two workers raced for is posted in at most MAX_ATTEMPTS rounds.       *)
RoundsBounded == \A e \in Events : e \notin raced => rounds[e] <= MaxAttempts

(* Every stored event is eventually DELIVERED or out of attempts, unless a  *)
(* fault hit it after it was marked PROCESSING or two workers raced for it. *)
Settled(e) == row[e].status = "DELIVERED" \/ (row[e].status = "FAILED" /\ row[e].attempts >= MaxAttempts)
EventsSettle ==
    \A e \in Events :
        row[e].status # "none" ~> Settled(e) \/ e \in stranded \/ e \in raced

(* "crashes mid-delivery leave the row in PENDING/PROCESSING and it will be *)
(* re-picked on the next tick": no event stays PROCESSING for ever.         *)
ProcessingEnds == \A e \in Events : row[e].status = "PROCESSING" ~> row[e].status # "PROCESSING"
=============================================================================
