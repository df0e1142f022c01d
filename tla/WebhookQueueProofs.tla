------------------------- MODULE WebhookQueueProofs -------------------------
(***************************************************************************)
(* Proofs about WebhookQueue: the outbox delivers at least once, and an    *)
(* event no two workers raced for is processed by one worker at a time and *)
(* posted in at most MAX_ATTEMPTS rounds, for any number of workers,       *)
(* events, subscribers, crashes and failed statements.                     *)
(***************************************************************************)
EXTENDS WebhookQueue, TLAPS

RowType == [status : {"none", "PENDING", "PROCESSING", "DELIVERED", "FAILED"},
            attempts : 0..MaxAttempts, due : BOOLEAN]

-----------------------------------------------------------------------------
(* The inductive invariant, in terms of one event's row r, the webhooks st  *)
(* that have been on since it was stored, the webhooks ac that accepted it, *)
(* its n rounds, and one worker's job x on it.                              *)

\* A delivered event has reached every steady webhook; rounds start with a row.
EventSafe(r, st, ac, n) ==
    /\ r.status = "DELIVERED" => st \subseteq ac
    /\ r.status = "none" => n = 0

(* A job has a row.  While its posts are out, a steady webhook is waited    *)
(* for, has accepted, or some delivery has failed.                          *)
JobSafe(x, r, st, ac) ==
    /\ x.pc # "none" => r.status # "none"
    /\ x.pc = "nobody" => st = {}
    /\ x.pc = "post" /\ ~x.failed => st \subseteq x.waiting \cup ac

\* Each round of an event that was not raced is one attempt in its row.
EventFree(r, n) ==
    /\ n <= MaxAttempts
    /\ r.status \in {"PENDING", "FAILED"} => n <= r.attempts

(* A job on an event that was not raced has read the row as it is: it is    *)
(* open until the job marks it, and PROCESSING from then on.                *)
JobFree(x, r, n) ==
    /\ x.pc = "read" => r.status \in {"PENDING", "FAILED"}
    /\ x.pc \in {"subscribers", "nobody", "post"} => r.status = "PROCESSING"
    /\ x.pc # "none" => x.attempts = r.attempts
    /\ x.pc \in {"read", "subscribers", "nobody"} => n <= x.attempts
    /\ x.pc = "post" => n <= x.attempts + 1

SafeInv(e) ==
    /\ steady[e] \subseteq On
    /\ EventSafe(row[e], steady[e], accepted[e], rounds[e])
    /\ \A w \in Workers : JobSafe(job[w][e], row[e], steady[e], accepted[e])

FreeInv(e) ==
    e \notin raced =>
      /\ EventFree(row[e], rounds[e])
      /\ \A w \in Workers : JobFree(job[w][e], row[e], rounds[e])
      /\ \A v, w \in Workers : job[v][e].pc # "none" /\ job[w][e].pc # "none" => v = w

QueueInv == \A e \in Events : SafeInv(e) /\ FreeInv(e)

Inv == TypeOK /\ QueueInv

\* g is f, but for z at e.
SetAt(f, g, e, z) == g[e] = z /\ \A d \in Events : d # e => g[d] = f[d]

-----------------------------------------------------------------------------
(* Types. *)

\* The types the steps below keep asking for, in one place...
LEMMA TypeFacts ==
    ASSUME TypeOK
    PROVE  /\ row \in [Events -> RowType]
           /\ hook \in [Webhooks -> {"none", "on", "off", "gone"}]
           /\ job \in [Workers -> [Events -> JobType]] /\ faults \in 0..MaxFaults
           /\ steady \in [Events -> SUBSET Webhooks]
           /\ accepted \in [Events -> SUBSET Webhooks]
           /\ rounds \in [Events -> Nat] /\ raced \subseteq Events /\ stranded \subseteq Events
           /\ MaxAttempts \in Nat /\ MaxAttempts >= 1 /\ MaxFaults \in Nat
  BY QueueAssumption DEF TypeOK, RowType

\* ... and back from them to the type invariant.
LEMMA TypeFrom ==
    ASSUME row \in [Events -> RowType],
           hook \in [Webhooks -> {"none", "on", "off", "gone"}],
           job \in [Workers -> [Events -> JobType]], faults \in 0..MaxFaults,
           steady \in [Events -> SUBSET Webhooks], accepted \in [Events -> SUBSET Webhooks],
           rounds \in [Events -> Nat], raced \subseteq Events, stranded \subseteq Events
    PROVE  TypeOK
  BY DEF TypeOK, RowType

\* A worker without a job.
LEMMA NoJobTyped == NoJob \in JobType /\ NoJob.pc = "none"
  <1>1. 0 \in 0..(MaxAttempts - 1)
    BY QueueAssumption
  <1> QED
    BY <1>1 DEF NoJob, JobType

\* One job is replaced.
LEMMA JobAt ==
    ASSUME NEW f \in [Workers -> [Events -> JobType]], NEW w \in Workers, NEW e \in Events,
           NEW y \in JobType, NEW g, g = [f EXCEPT ![w][e] = y]
    PROVE  /\ g \in [Workers -> [Events -> JobType]] /\ g[w][e] = y
           /\ \A v \in Workers, d \in Events : v # w \/ d # e => g[v][d] = f[v][d]
  <1> DEFINE h == [f[w] EXCEPT ![e] = y]
  <1>1. f[w] \in [Events -> JobType]
    OBVIOUS
  <1>2. h \in [Events -> JobType] /\ h[e] = y /\ \A d \in Events : d # e => h[d] = f[w][d]
    BY <1>1
  <1>3. g = [f EXCEPT ![w] = h]
    OBVIOUS
  <1> HIDE DEF h
  <1>4. g[w] = h /\ \A v \in Workers : v # w => g[v] = f[v]
    BY <1>3
  <1> QED
    BY <1>2, <1>3, <1>4

\* All jobs of one worker are replaced.
LEMMA JobsAt ==
    ASSUME NEW f \in [Workers -> [Events -> JobType]], NEW w \in Workers,
           NEW h \in [Events -> JobType], NEW g, g = [f EXCEPT ![w] = h]
    PROVE  /\ g \in [Workers -> [Events -> JobType]]
           /\ \A e \in Events : g[w][e] = h[e]
           /\ \A v \in Workers, d \in Events : v # w => g[v][d] = f[v][d]
  OBVIOUS

-----------------------------------------------------------------------------
(* Steps. *)

\* What is said of an event stays true while nothing about it changes.
LEMMA EventKept ==
    ASSUME Inv, NEW e \in Events,
           row'[e] = row[e], rounds'[e] = rounds[e],
           steady'[e] \subseteq steady[e], accepted[e] \subseteq accepted'[e],
           steady'[e] \subseteq On', e \in raced => e \in raced',
           \A w \in Workers : job'[w][e] = job[w][e]
    PROVE  SafeInv(e)' /\ FreeInv(e)'
  <1>0. SafeInv(e) /\ FreeInv(e)
    BY DEF Inv, QueueInv
  <1>1. EventSafe(row'[e], steady'[e], accepted'[e], rounds'[e])
    BY <1>0 DEF SafeInv, EventSafe
  <1>2. ASSUME NEW w \in Workers
        PROVE  JobSafe(job'[w][e], row'[e], steady'[e], accepted'[e])
    BY <1>0 DEF SafeInv, JobSafe
  <1>3. SafeInv(e)'
    BY <1>1, <1>2 DEF SafeInv
  <1>4. FreeInv(e)'
    BY <1>0 DEF FreeInv
  <1> QED
    BY <1>3, <1>4

(* A step of worker w's job on e: it leaves job y, row x, the webhooks A    *)
(* that accepted and n rounds.                                              *)
LEMMA LocalStep ==
    ASSUME Inv, NEW w \in Workers, NEW e \in Events, NEW y \in JobType, NEW x \in RowType,
           NEW A \in SUBSET Webhooks, NEW n \in Nat,
           job[w][e].pc # "none", job' = [job EXCEPT ![w][e] = y],
           row' \in [Events -> RowType], SetAt(row, row', e, x),
           accepted' \in [Events -> SUBSET Webhooks], SetAt(accepted, accepted', e, A),
           rounds' \in [Events -> Nat], SetAt(rounds, rounds', e, n),
           UNCHANGED <<hook, steady, raced>>, faults' \in 0..MaxFaults, stranded' \subseteq Events,
           x.status # "none", accepted[e] \subseteq A,
           EventSafe(x, steady[e], A, n), JobSafe(y, x, steady[e], A),
           e \notin raced => EventFree(x, n) /\ JobFree(y, x, n)
    PROVE  Inv'
  <1>0. job \in [Workers -> [Events -> JobType]]
    BY TypeFacts DEF Inv
  <1>1. /\ job' \in [Workers -> [Events -> JobType]] /\ job'[w][e] = y
        /\ \A v \in Workers, d \in Events : v # w \/ d # e => job'[v][d] = job[v][d]
    BY <1>0, JobAt
  <1>2. TypeOK'
    <2>1. /\ hook' \in [Webhooks -> {"none", "on", "off", "gone"}]
          /\ steady' \in [Events -> SUBSET Webhooks] /\ raced' \subseteq Events
      BY TypeFacts DEF Inv
    <2> QED
      BY <1>1, <2>1 DEF TypeOK, RowType
  <1>3. On' = On
    BY DEF On
  <1>4. ASSUME NEW d \in Events, d # e PROVE SafeInv(d)' /\ FreeInv(d)'
    <2>1. steady[d] \subseteq On
      BY DEF Inv, QueueInv, SafeInv
    <2> QED
      BY <1>1, <1>3, <1>4, <2>1, EventKept DEF SetAt
  <1>5. SafeInv(e) /\ FreeInv(e)
    BY DEF Inv, QueueInv
  <1>6. SafeInv(e)'
    <2>1. row'[e] = x /\ accepted'[e] = A /\ rounds'[e] = n /\ steady'[e] = steady[e]
      BY DEF SetAt
    <2>2. ASSUME NEW v \in Workers PROVE JobSafe(job'[v][e], x, steady[e], A)
      <3>1. CASE v = w
        BY <1>1, <3>1
      <3>2. CASE v # w
        <4>1. job'[v][e] = job[v][e] /\ JobSafe(job[v][e], row[e], steady[e], accepted[e])
          BY <1>1, <1>5, <3>2 DEF SafeInv
        <4> QED
          BY <4>1 DEF JobSafe
      <3> QED
        BY <3>1, <3>2
    <2> QED
      BY <1>3, <1>5, <2>1, <2>2 DEF SafeInv
  <1>7. FreeInv(e)'
    <2> SUFFICES ASSUME e \notin raced
                 PROVE  /\ EventFree(row'[e], rounds'[e])
                        /\ \A v \in Workers : JobFree(job'[v][e], row'[e], rounds'[e])
                        /\ \A u, v \in Workers :
                             job'[u][e].pc # "none" /\ job'[v][e].pc # "none" => u = v
      BY DEF FreeInv
    <2>1. row'[e] = x /\ rounds'[e] = n
      BY DEF SetAt
    <2>2. ASSUME NEW v \in Workers, v # w PROVE job'[v][e].pc = "none"
      BY <1>1, <1>5, <2>2 DEF FreeInv
    <2>3. ASSUME NEW v \in Workers PROVE JobFree(job'[v][e], x, n)
      <3>1. CASE v = w
        BY <1>1, <3>1
      <3>2. CASE v # w
        BY <2>2, <3>2 DEF JobFree
      <3> QED
        BY <3>1, <3>2
    <2> QED
      BY <2>1, <2>2, <2>3
  <1> QED
    BY <1>2, <1>4, <1>6, <1>7 DEF Inv, QueueInv

\* A job ends and leaves its row alone.
LEMMA JobEnds ==
    ASSUME NEW r, NEW st, NEW ac, NEW n
    PROVE  JobSafe(NoJob, r, st, ac) /\ JobFree(NoJob, r, n)
  BY NoJobTyped DEF JobSafe, JobFree

\* A table that is not written.
LEMMA SetSame ==
    ASSUME NEW f, NEW e \in Events
    PROVE  SetAt(f, f, e, f[e])
  BY DEF SetAt

\* What is known of a job at work.
LEMMA Working ==
    ASSUME Inv, NEW w \in Workers, NEW e \in Events, job[w][e].pc # "none"
    PROVE  /\ job[w][e] \in JobType /\ row[e] \in RowType /\ row[e].status # "none"
           /\ accepted[e] \in SUBSET Webhooks /\ rounds[e] \in Nat
           /\ steady[e] \subseteq On
           /\ EventSafe(row[e], steady[e], accepted[e], rounds[e])
           /\ JobSafe(job[w][e], row[e], steady[e], accepted[e])
           /\ e \notin raced => /\ EventFree(row[e], rounds[e])
                               /\ JobFree(job[w][e], row[e], rounds[e])
  <1>1. SafeInv(e) /\ FreeInv(e) /\ TypeOK
    BY DEF Inv, QueueInv
  <1> QED
    BY <1>1, TypeFacts DEF SafeInv, FreeInv, JobSafe

\* A worker reads who subscribes to the event it claimed.
LEMMA SubscribersStep ==
    ASSUME Inv, NEW w \in Workers, NEW e \in Events, ReadSubscribers(w, e)
    PROVE  Inv'
  <1>0. /\ row \in [Events -> RowType] /\ accepted \in [Events -> SUBSET Webhooks]
        /\ rounds \in [Events -> Nat] /\ faults \in 0..MaxFaults /\ stranded \subseteq Events
        /\ MaxAttempts \in Nat
    BY TypeFacts DEF Inv
  <1>1. /\ job[w][e].pc = "subscribers"
        /\ UNCHANGED <<row, hook, faults, steady, accepted, raced, stranded>>
    BY DEF ReadSubscribers
  <1>2. /\ job[w][e] \in JobType /\ row[e] \in RowType /\ row[e].status # "none"
        /\ accepted[e] \in SUBSET Webhooks /\ rounds[e] \in Nat
        /\ steady[e] \subseteq On
        /\ EventSafe(row[e], steady[e], accepted[e], rounds[e])
        /\ e \notin raced => /\ EventFree(row[e], rounds[e])
                            /\ JobFree(job[w][e], row[e], rounds[e])
    BY <1>1, Working
  <1>3. CASE On = {}
    <2> DEFINE y == [job[w][e] EXCEPT !.pc = "nobody"]
    <2>1. y \in JobType /\ y.pc = "nobody" /\ y.attempts = job[w][e].attempts
      BY <1>2 DEF JobType
    <2>2. job' = [job EXCEPT ![w][e] = y] /\ rounds' = rounds
      BY <1>3 DEF ReadSubscribers
    <2> HIDE DEF y
    <2>3. JobSafe(y, row[e], steady[e], accepted[e])
      BY <1>2, <1>3, <2>1 DEF JobSafe
    <2>4. e \notin raced => JobFree(y, row[e], rounds[e])
      BY <1>1, <1>2, <2>1 DEF JobFree
    <2>5. /\ row' \in [Events -> RowType] /\ SetAt(row, row', e, row[e])
          /\ accepted' \in [Events -> SUBSET Webhooks]
          /\ SetAt(accepted, accepted', e, accepted[e])
          /\ rounds' \in [Events -> Nat] /\ SetAt(rounds, rounds', e, rounds[e])
          /\ UNCHANGED <<hook, steady, raced>>
          /\ faults' \in 0..MaxFaults /\ stranded' \subseteq Events /\ job[w][e].pc # "none"
      BY <1>0, <1>1, <2>2, SetSame
    <2> QED
      BY <1>2, <2>1, <2>2, <2>3, <2>4, <2>5, LocalStep
  <1>4. CASE On # {}
    <2> DEFINE y == [job[w][e] EXCEPT !.pc = "post", !.waiting = On]
               n == IF e \in raced THEN rounds[e] ELSE rounds[e] + 1
    <2>1. /\ y \in JobType /\ y.pc = "post" /\ y.attempts = job[w][e].attempts
          /\ y.waiting = On
      <3>1. On \in SUBSET Webhooks
        BY DEF On
      <3> QED
        BY <1>2, <3>1 DEF JobType
    <2>2. /\ job' = [job EXCEPT ![w][e] = y]
          /\ rounds' = IF e \in raced THEN rounds ELSE [rounds EXCEPT ![e] = @ + 1]
      <3>1. job' = [job EXCEPT ![w][e].pc = "post", ![w][e].waiting = On]
        BY <1>4 DEF ReadSubscribers
      <3>2. job' = [job EXCEPT ![w][e] = y]
        BY <3>1
      <3> QED
        BY <1>4, <3>2 DEF ReadSubscribers
    <2> HIDE DEF y
    <2>3. n \in Nat /\ rounds' \in [Events -> Nat] /\ SetAt(rounds, rounds', e, n)
      BY <1>0, <1>2, <2>2 DEF SetAt
    <2>4. JobSafe(y, row[e], steady[e], accepted[e])
      BY <1>2, <2>1 DEF JobSafe
    <2>5. e \notin raced => EventFree(row[e], n) /\ JobFree(y, row[e], n)
      <3> SUFFICES ASSUME e \notin raced PROVE EventFree(row[e], n) /\ JobFree(y, row[e], n)
        OBVIOUS
      <3>1. /\ n = rounds[e] + 1 /\ rounds[e] <= job[w][e].attempts
            /\ job[w][e].attempts = row[e].attempts /\ row[e].status = "PROCESSING"
        BY <1>1, <1>2 DEF JobFree
      <3>2. job[w][e].attempts \in 0..(MaxAttempts - 1)
        BY <1>2 DEF JobType
      <3>3. n <= MaxAttempts /\ n <= job[w][e].attempts + 1
        BY <1>0, <1>2, <3>1, <3>2
      <3> HIDE DEF n
      <3> QED
        BY <2>1, <3>1, <3>3 DEF EventFree, JobFree
    <2>6. EventSafe(row[e], steady[e], accepted[e], n)
      BY <1>2 DEF EventSafe
    <2> HIDE DEF n
    <2>7. /\ row' \in [Events -> RowType] /\ SetAt(row, row', e, row[e])
          /\ accepted' \in [Events -> SUBSET Webhooks]
          /\ SetAt(accepted, accepted', e, accepted[e])
          /\ UNCHANGED <<hook, steady, raced>>
          /\ faults' \in 0..MaxFaults /\ stranded' \subseteq Events /\ job[w][e].pc # "none"
      BY <1>0, <1>1, SetSame
    <2> QED
      BY <1>2, <2>1, <2>2, <2>3, <2>4, <2>5, <2>6, <2>7, LocalStep
  <1> QED
    BY <1>3, <1>4

\* One endpoint answers: its acceptance is recorded, or the round has failed.
LEMMA AnswerStep ==
    ASSUME Inv, NEW w \in Workers, NEW e \in Events, NEW h \in Webhooks, NEW ok \in BOOLEAN,
           Answer(w, e, h, ok)
    PROVE  Inv'
  <1>0. /\ row \in [Events -> RowType] /\ accepted \in [Events -> SUBSET Webhooks]
        /\ rounds \in [Events -> Nat] /\ faults \in 0..MaxFaults /\ stranded \subseteq Events
    BY TypeFacts DEF Inv
  <1> DEFINE y == [job[w][e] EXCEPT !.waiting = @ \ {h}, !.failed = @ \/ ~ok]
             A == IF ok THEN accepted[e] \cup {h} ELSE accepted[e]
  <1>1. /\ job[w][e].pc = "post" /\ h \in job[w][e].waiting
        /\ UNCHANGED <<row, hook, faults, steady, rounds, raced, stranded>>
        /\ job' = [job EXCEPT ![w][e] = y]
        /\ accepted' = IF ok THEN [accepted EXCEPT ![e] = @ \cup {h}] ELSE accepted
    BY DEF Answer
  <1>2. /\ job[w][e] \in JobType /\ row[e] \in RowType /\ row[e].status # "none"
        /\ accepted[e] \in SUBSET Webhooks /\ rounds[e] \in Nat
        /\ EventSafe(row[e], steady[e], accepted[e], rounds[e])
        /\ JobSafe(job[w][e], row[e], steady[e], accepted[e])
        /\ e \notin raced => /\ EventFree(row[e], rounds[e])
                            /\ JobFree(job[w][e], row[e], rounds[e])
    BY <1>1, Working
  <1>3. /\ y \in JobType /\ y.pc = "post" /\ y.attempts = job[w][e].attempts
        /\ y.waiting = job[w][e].waiting \ {h}
    <2>1. (job[w][e].failed \/ ~ok) \in BOOLEAN
      OBVIOUS
    <2>2. job[w][e].waiting \ {h} \in SUBSET Webhooks
      BY <1>2 DEF JobType
    <2> QED
      BY <1>1, <1>2, <2>1, <2>2 DEF JobType
  <1>4. ~y.failed => ok /\ ~job[w][e].failed
    BY <1>2 DEF JobType
  <1> HIDE DEF y
  <1>5. A \in SUBSET Webhooks /\ accepted[e] \subseteq A /\ (ok => h \in A)
    BY <1>2
  <1>6. accepted' \in [Events -> SUBSET Webhooks] /\ SetAt(accepted, accepted', e, A)
    BY <1>0, <1>1 DEF SetAt
  <1> HIDE DEF A
  <1>7. JobSafe(y, row[e], steady[e], A)
    BY <1>1, <1>2, <1>3, <1>4, <1>5 DEF JobSafe
  <1>8. e \notin raced => JobFree(y, row[e], rounds[e])
    BY <1>1, <1>2, <1>3 DEF JobFree
  <1>9. EventSafe(row[e], steady[e], A, rounds[e])
    BY <1>2, <1>5 DEF EventSafe
  <1>10. /\ row' \in [Events -> RowType] /\ SetAt(row, row', e, row[e])
         /\ rounds' \in [Events -> Nat] /\ SetAt(rounds, rounds', e, rounds[e])
         /\ UNCHANGED <<hook, steady, raced>>
         /\ faults' \in 0..MaxFaults /\ stranded' \subseteq Events /\ job[w][e].pc # "none"
         /\ job' = [job EXCEPT ![w][e] = y]
    BY <1>0, <1>1, SetSame
  <1> QED
    BY <1>2, <1>3, <1>5, <1>6, <1>7, <1>8, <1>9, <1>10, LocalStep

\* An event nobody subscribes to is closed as delivered.
LEMMA UnheardStep ==
    ASSUME Inv, NEW w \in Workers, NEW e \in Events, CloseUnheard(w, e)
    PROVE  Inv'
  <1>0. /\ row \in [Events -> RowType] /\ accepted \in [Events -> SUBSET Webhooks]
        /\ rounds \in [Events -> Nat] /\ faults \in 0..MaxFaults /\ stranded \subseteq Events
    BY TypeFacts DEF Inv
  <1> DEFINE x == [row[e] EXCEPT !.status = "DELIVERED"]
  <1>1. /\ job[w][e].pc = "nobody"
        /\ UNCHANGED <<hook, faults, steady, accepted, rounds, raced, stranded>>
        /\ job' = [job EXCEPT ![w][e] = NoJob] /\ row' = [row EXCEPT ![e] = x]
    BY DEF CloseUnheard
  <1>2. /\ row[e] \in RowType /\ accepted[e] \in SUBSET Webhooks /\ rounds[e] \in Nat
        /\ JobSafe(job[w][e], row[e], steady[e], accepted[e])
        /\ e \notin raced => EventFree(row[e], rounds[e])
    BY <1>1, Working
  <1>3. x \in RowType /\ x.status = "DELIVERED"
    BY <1>2 DEF RowType
  <1> HIDE DEF x
  <1>4. row' \in [Events -> RowType] /\ SetAt(row, row', e, x)
    BY <1>0, <1>1, <1>3 DEF SetAt
  <1>5. EventSafe(x, steady[e], accepted[e], rounds[e])
    BY <1>1, <1>2, <1>3 DEF EventSafe, JobSafe
  <1>6. e \notin raced => EventFree(x, rounds[e])
    BY <1>2, <1>3 DEF EventFree
  <1> QED
    BY <1>0, <1>1, <1>2, <1>3, <1>4, <1>5, <1>6, NoJobTyped, JobEnds, SetSame, LocalStep

\* A round ends: delivered, or failed with a retry to come or none.
LEMMA CloseStep ==
    ASSUME Inv, NEW w \in Workers, NEW e \in Events, Close(w, e)
    PROVE  Inv'
  <1>0. /\ row \in [Events -> RowType] /\ accepted \in [Events -> SUBSET Webhooks]
        /\ rounds \in [Events -> Nat] /\ faults \in 0..MaxFaults /\ stranded \subseteq Events
        /\ MaxAttempts \in Nat
    BY TypeFacts DEF Inv
  <1> DEFINE n == job[w][e].attempts + 1
             retry == RowMaxAttempts - n > 0 /\ n <= MaxAttempts - 1
             x == IF ~job[w][e].failed
                    THEN [status |-> "DELIVERED", attempts |-> n, due |-> row[e].due]
                    ELSE [status |-> "FAILED", attempts |-> n, due |-> row[e].due /\ ~retry]
  <1>1. /\ job[w][e].pc = "post" /\ job[w][e].waiting = {}
        /\ UNCHANGED <<hook, faults, steady, accepted, rounds, raced, stranded>>
        /\ job' = [job EXCEPT ![w][e] = NoJob] /\ row' = [row EXCEPT ![e] = x]
    BY DEF Close
  <1>2. /\ job[w][e] \in JobType /\ row[e] \in RowType
        /\ accepted[e] \in SUBSET Webhooks /\ rounds[e] \in Nat
        /\ JobSafe(job[w][e], row[e], steady[e], accepted[e])
        /\ e \notin raced => /\ EventFree(row[e], rounds[e])
                            /\ JobFree(job[w][e], row[e], rounds[e])
    BY <1>1, Working
  <1>3. n \in 0..MaxAttempts
    <2>1. job[w][e].attempts \in 0..(MaxAttempts - 1)
      BY <1>2 DEF JobType
    <2> QED
      BY <1>0, <2>1
  <1>4. (row[e].due /\ ~retry) \in BOOLEAN /\ row[e].due \in BOOLEAN
    BY <1>2 DEF RowType
  <1>5. e \notin raced => rounds[e] <= n /\ rounds[e] <= MaxAttempts
    BY <1>1, <1>2 DEF JobFree, EventFree
  <1> HIDE DEF n, retry
  <1>6. /\ x \in RowType /\ x.status \in {"DELIVERED", "FAILED"} /\ x.attempts = n
        /\ x.status = "DELIVERED" => ~job[w][e].failed
    BY <1>3, <1>4 DEF RowType
  <1> HIDE DEF x
  <1>7. row' \in [Events -> RowType] /\ SetAt(row, row', e, x)
    BY <1>0, <1>1, <1>6 DEF SetAt
  <1>8. EventSafe(x, steady[e], accepted[e], rounds[e])
    BY <1>1, <1>2, <1>6 DEF EventSafe, JobSafe
  <1>9. e \notin raced => EventFree(x, rounds[e])
    BY <1>5, <1>6 DEF EventFree
  <1>10. x.status # "none"
    BY <1>6
  <1>11. /\ accepted' \in [Events -> SUBSET Webhooks]
         /\ SetAt(accepted, accepted', e, accepted[e])
         /\ rounds' \in [Events -> Nat] /\ SetAt(rounds, rounds', e, rounds[e])
         /\ UNCHANGED <<hook, steady, raced>>
         /\ faults' \in 0..MaxFaults /\ stranded' \subseteq Events /\ job[w][e].pc # "none"
         /\ job' = [job EXCEPT ![w][e] = NoJob]
    BY <1>0, <1>1, SetSame
  <1>12. JobSafe(NoJob, x, steady[e], accepted[e]) /\ JobFree(NoJob, x, rounds[e])
    BY JobEnds
  <1> QED
    BY <1>2, <1>6, <1>7, <1>8, <1>9, <1>10, <1>11, <1>12, NoJobTyped, LocalStep

\* A statement of a worker fails: its job is dropped, the row left as claimed.
LEMMA StatementFailsStep ==
    ASSUME Inv, NEW w \in Workers, NEW e \in Events, StatementFails(w, e)
    PROVE  Inv'
  <1>0. /\ row \in [Events -> RowType] /\ accepted \in [Events -> SUBSET Webhooks]
        /\ rounds \in [Events -> Nat] /\ faults \in 0..MaxFaults /\ stranded \subseteq Events
        /\ MaxFaults \in Nat
    BY TypeFacts DEF Inv
  <1>1. /\ job[w][e].pc # "none" /\ faults < MaxFaults /\ faults' = faults + 1
        /\ UNCHANGED <<row, hook, steady, accepted, rounds, raced>>
        /\ job' = [job EXCEPT ![w][e] = NoJob] /\ stranded' = stranded \cup {e}
    BY DEF StatementFails
  <1>2. faults' \in 0..MaxFaults /\ stranded' \subseteq Events
    BY <1>0, <1>1
  <1>3. /\ row[e] \in RowType /\ row[e].status # "none"
        /\ accepted[e] \in SUBSET Webhooks /\ rounds[e] \in Nat
        /\ EventSafe(row[e], steady[e], accepted[e], rounds[e])
        /\ e \notin raced => EventFree(row[e], rounds[e])
    BY <1>1, Working
  <1> QED
    BY <1>0, <1>1, <1>2, <1>3, NoJobTyped, JobEnds, SetSame, LocalStep

-----------------------------------------------------------------------------
(* The steps that are not one job's. *)

\* An administrator creates, switches or deletes a webhook.
LEMMA WebhookStep ==
    ASSUME Inv, NEW h \in Webhooks, NEW s \in {"on", "off", "gone"}, SetWebhook(h, s)
    PROVE  Inv'
  <1>0. /\ hook \in [Webhooks -> {"none", "on", "off", "gone"}]
        /\ steady \in [Events -> SUBSET Webhooks]
    BY TypeFacts DEF Inv
  <1>1. /\ hook' = [hook EXCEPT ![h] = s]
        /\ steady' = IF s = "on" THEN steady ELSE [e \in Events |-> steady[e] \ {h}]
        /\ UNCHANGED <<row, job, faults, accepted, rounds, raced, stranded>>
    BY DEF SetWebhook
  <1>2. /\ hook' \in [Webhooks -> {"none", "on", "off", "gone"}]
        /\ steady' \in [Events -> SUBSET Webhooks]
    <2>1. hook' \in [Webhooks -> {"none", "on", "off", "gone"}]
      BY <1>0, <1>1
    <2>2. steady' \in [Events -> SUBSET Webhooks]
      BY <1>0, <1>1
    <2> QED
      BY <2>1, <2>2
  <1>3. TypeOK'
    BY <1>1, <1>2 DEF Inv, TypeOK
  <1>4. ASSUME NEW e \in Events PROVE SafeInv(e)' /\ FreeInv(e)'
    <2>1. steady[e] \subseteq On
      BY DEF Inv, QueueInv, SafeInv
    <2>2. steady'[e] \subseteq steady[e] /\ (s # "on" => h \notin steady'[e])
      BY <1>0, <1>1
    <2>3. steady'[e] \subseteq On'
      <3> SUFFICES ASSUME NEW g \in steady'[e] PROVE g \in On'
        OBVIOUS
      <3>1. g \in Webhooks /\ hook[g] = "on"
        BY <2>1, <2>2 DEF On
      <3>2. hook'[g] = "on"
        BY <1>0, <1>1, <2>2, <3>1
      <3> QED
        BY <3>1, <3>2 DEF On
    <2> QED
      BY <1>1, <2>2, <2>3, EventKept
  <1> QED
    BY <1>3, <1>4 DEF Inv, QueueInv

\* An event is put in the queue.
LEMMA DispatchStep ==
    ASSUME Inv, NEW e \in Events, Dispatch(e)
    PROVE  Inv'
  <1>0. /\ row \in [Events -> RowType] /\ steady \in [Events -> SUBSET Webhooks]
        /\ MaxAttempts \in Nat
    BY TypeFacts DEF Inv
  <1> DEFINE x == [status |-> "PENDING", attempts |-> 0, due |-> TRUE]
  <1>1. /\ row[e].status = "none" /\ row' = [row EXCEPT ![e] = x]
        /\ steady' = [steady EXCEPT ![e] = On]
        /\ UNCHANGED <<hook, job, faults, accepted, rounds, raced, stranded>>
    BY DEF Dispatch
  <1>2. x \in RowType /\ x.status = "PENDING" /\ x.attempts = 0
    BY <1>0 DEF RowType
  <1> HIDE DEF x
  <1>3. On \in SUBSET Webhooks /\ On' = On
    BY <1>1 DEF On
  <1>4. /\ row' \in [Events -> RowType] /\ row'[e] = x /\ steady'[e] = On
        /\ steady' \in [Events -> SUBSET Webhooks]
        /\ \A d \in Events : d # e => row'[d] = row[d] /\ steady'[d] = steady[d]
    BY <1>0, <1>1, <1>2, <1>3
  <1>5. TypeOK'
    BY <1>1, <1>4 DEF Inv, TypeOK, RowType
  <1>6. SafeInv(e) /\ FreeInv(e)
    BY DEF Inv, QueueInv
  <1>7. rounds[e] = 0 /\ \A w \in Workers : job[w][e].pc = "none"
    BY <1>1, <1>6 DEF SafeInv, EventSafe, JobSafe
  <1>8. SafeInv(e)'
    <2>1. EventSafe(x, On, accepted[e], rounds[e])
      BY <1>2 DEF EventSafe
    <2>2. \A w \in Workers : JobSafe(job[w][e], x, On, accepted[e])
      BY <1>7 DEF JobSafe
    <2> QED
      BY <1>1, <1>3, <1>4, <2>1, <2>2 DEF SafeInv
  <1>9. FreeInv(e)'
    <2>1. EventFree(x, rounds[e])
      BY <1>0, <1>2, <1>7 DEF EventFree
    <2>2. \A w \in Workers : JobFree(job[w][e], x, rounds[e])
      BY <1>7 DEF JobFree
    <2> QED
      BY <1>1, <1>4, <1>7, <2>1, <2>2 DEF FreeInv
  <1>10. ASSUME NEW d \in Events, d # e PROVE SafeInv(d)' /\ FreeInv(d)'
    <2>1. steady[d] \subseteq On
      BY DEF Inv, QueueInv, SafeInv
    <2> QED
      BY <1>1, <1>3, <1>4, <1>10, <2>1, EventKept
  <1> QED
    BY <1>5, <1>8, <1>9, <1>10 DEF Inv, QueueInv

\* The retry time of an event comes.
LEMMA RetryDueStep ==
    ASSUME Inv, NEW e \in Events, RetryDue(e)
    PROVE  Inv'
  <1>0. row \in [Events -> RowType] /\ row[e] \in RowType
    BY TypeFacts DEF Inv
  <1> DEFINE x == [row[e] EXCEPT !.due = TRUE]
  <1>1. /\ row' = [row EXCEPT ![e] = x]
        /\ UNCHANGED <<hook, job, faults, steady, accepted, rounds, raced, stranded>>
    BY DEF RetryDue
  <1>2. x \in RowType /\ x.status = row[e].status /\ x.attempts = row[e].attempts
    BY <1>0 DEF RowType
  <1> HIDE DEF x
  <1>3. /\ row' \in [Events -> RowType] /\ row'[e] = x /\ On' = On
        /\ \A d \in Events : d # e => row'[d] = row[d]
    BY <1>0, <1>1, <1>2 DEF On
  <1>4. TypeOK'
    BY <1>1, <1>3 DEF Inv, TypeOK, RowType
  <1>5. SafeInv(e) /\ FreeInv(e)
    BY DEF Inv, QueueInv
  <1>6. SafeInv(e)' /\ FreeInv(e)'
    BY <1>1, <1>2, <1>3, <1>5 DEF SafeInv, FreeInv, EventSafe, EventFree, JobSafe, JobFree
  <1>7. ASSUME NEW d \in Events, d # e PROVE SafeInv(d)' /\ FreeInv(d)'
    <2>1. steady[d] \subseteq On
      BY DEF Inv, QueueInv, SafeInv
    <2> QED
      BY <1>1, <1>3, <1>7, <2>1, EventKept
  <1> QED
    BY <1>4, <1>6, <1>7 DEF Inv, QueueInv

(* findMany takes open rows only: a worker that had marked the event would  *)
(* have closed the row to it, one that has only read it makes it raced.     *)
LEMMA ReadQueueStep ==
    ASSUME Inv, NEW w \in Workers, NEW S \in SUBSET Events, ReadQueue(w, S)
    PROVE  Inv'
  <1>0. /\ row \in [Events -> RowType] /\ job \in [Workers -> [Events -> JobType]]
        /\ raced \subseteq Events /\ MaxAttempts \in Nat
    BY TypeFacts DEF Inv
  <1> DEFINE y(e) == [NoJob EXCEPT !.pc = "read", !.attempts = row[e].attempts]
             h == [e \in Events |-> IF e \in S THEN y(e) ELSE NoJob]
  <1>1. /\ S \subseteq Due /\ job' = [job EXCEPT ![w] = h]
        /\ raced' = raced \cup {e \in S : \E v \in Workers \ {w} : e \in Held(v)}
        /\ UNCHANGED <<row, hook, faults, steady, accepted, rounds, stranded>>
        /\ Busy(w) = {}
    BY DEF ReadQueue
  <1>2. \A e \in S : row[e].status \in {"PENDING", "FAILED"} /\ row[e].attempts < MaxAttempts
    BY <1>1 DEF Due, Open
  <1>3. ASSUME NEW e \in S
        PROVE  /\ y(e) \in JobType /\ y(e).pc = "read" /\ y(e).attempts = row[e].attempts
    <2>1. row[e].attempts \in 0..(MaxAttempts - 1)
      <3>1. row[e].attempts \in 0..MaxAttempts
        BY <1>0 DEF RowType
      <3> QED
        BY <1>0, <1>2, <3>1
    <2>2. NoJob = [pc |-> "none", attempts |-> 0, waiting |-> {}, failed |-> FALSE]
      BY DEF NoJob
    <2> QED
      BY <2>1, NoJobTyped DEF JobType
  <1> HIDE DEF y
  <1>4. h \in [Events -> JobType]
    BY <1>3, NoJobTyped
  <1>5. /\ \A e \in S : h[e] = y(e)
        /\ \A e \in Events : e \notin S => h[e] = NoJob
    OBVIOUS
  <1> HIDE DEF h
  <1>6. /\ job' \in [Workers -> [Events -> JobType]]
        /\ \A e \in Events : job'[w][e] = h[e]
        /\ \A v \in Workers, d \in Events : v # w => job'[v][d] = job[v][d]
    BY <1>0, <1>1, <1>4, JobsAt
  <1>7. TypeOK'
    BY <1>0, <1>1, <1>6 DEF Inv, TypeOK
  <1>8. On' = On
    BY <1>1 DEF On
  <1>9. ASSUME NEW e \in Events PROVE SafeInv(e)'
    <2>1. SafeInv(e)
      BY DEF Inv, QueueInv
    <2>2. ASSUME NEW v \in Workers PROVE JobSafe(job'[v][e], row[e], steady[e], accepted[e])
      <3>1. CASE v # w
        BY <1>6, <2>1, <3>1 DEF SafeInv
      <3>2. CASE v = w /\ e \in S
        <4>1. job'[v][e].pc = "read" /\ row[e].status # "none"
          BY <1>2, <1>3, <1>5, <1>6, <3>2
        <4> QED
          BY <4>1 DEF JobSafe
      <3>3. CASE v = w /\ e \notin S
        <4>1. job'[v][e] = NoJob
          BY <1>5, <1>6, <3>3
        <4> QED
          BY <4>1, JobEnds
      <3> QED
        BY <3>1, <3>2, <3>3
    <2> QED
      BY <1>1, <1>8, <2>1, <2>2 DEF SafeInv
  <1>10. ASSUME NEW e \in Events PROVE FreeInv(e)'
    <2> SUFFICES ASSUME e \notin raced'
                 PROVE  /\ EventFree(row[e], rounds[e])
                        /\ \A v \in Workers : JobFree(job'[v][e], row[e], rounds[e])
                        /\ \A u, v \in Workers :
                             job'[u][e].pc # "none" /\ job'[v][e].pc # "none" => u = v
      BY <1>1 DEF FreeInv
    <2>1. /\ EventFree(row[e], rounds[e])
          /\ \A v \in Workers : JobFree(job[v][e], row[e], rounds[e])
          /\ \A u, v \in Workers : job[u][e].pc # "none" /\ job[v][e].pc # "none" => u = v
      BY <1>1 DEF Inv, QueueInv, FreeInv
    <2>2. CASE e \notin S
      <3>1. job'[w][e].pc = "none"
        BY <1>5, <1>6, <2>2, NoJobTyped
      <3>2. JobFree(job'[w][e], row[e], rounds[e])
        BY <3>1 DEF JobFree
      <3> QED
        BY <1>6, <2>1, <3>1, <3>2
    <2>3. CASE e \in S
      <3>1. ASSUME NEW v \in Workers, v # w PROVE job[v][e].pc = "none"
        <4>1. e \notin Held(v)
          BY <1>1, <2>3, <3>1
        <4>2. job[v][e].pc # "read"
          BY <4>1 DEF Held
        <4>3. JobFree(job[v][e], row[e], rounds[e])
              /\ row[e].status \in {"PENDING", "FAILED"}
          BY <1>2, <2>1, <2>3
        <4>4. job[v][e].pc \notin {"subscribers", "nobody", "post"}
          BY <4>3 DEF JobFree
        <4>5. job[v][e] \in JobType
          BY <1>0
        <4> QED
          BY <4>2, <4>4, <4>5 DEF JobType
      <3>2. job'[w][e].pc = "read" /\ job'[w][e].attempts = row[e].attempts
        BY <1>3, <1>5, <1>6, <2>3
      <3>3. JobFree(job'[w][e], row[e], rounds[e])
        BY <1>2, <2>1, <2>3, <3>2 DEF JobFree, EventFree
      <3> QED
        BY <1>6, <2>1, <3>1, <3>3
    <2> QED
      BY <2>2, <2>3
  <1> QED
    BY <1>7, <1>9, <1>10 DEF Inv, QueueInv

\* A worker marks the events it has read as its own to process.
LEMMA ClaimStep ==
    ASSUME Inv, NEW w \in Workers, Claim(w)
    PROVE  Inv'
  <1>0. row \in [Events -> RowType] /\ job \in [Workers -> [Events -> JobType]]
    BY TypeFacts DEF Inv
  <1> DEFINE y(e) == [job[w][e] EXCEPT !.pc = "subscribers"]
             x(e) == [row[e] EXCEPT !.status = "PROCESSING"]
             h == [e \in Events |-> IF e \in Held(w) THEN y(e) ELSE job[w][e]]
  <1>1. /\ job' = [job EXCEPT ![w] = h]
        /\ row' = [e \in Events |-> IF e \in Held(w) /\ Open(e) THEN x(e) ELSE row[e]]
        /\ UNCHANGED <<hook, faults, steady, accepted, rounds, raced, stranded>>
    BY DEF Claim
  <1>2. ASSUME NEW e \in Events
        PROVE  /\ job[w][e] \in JobType /\ row[e] \in RowType
               /\ y(e) \in JobType /\ y(e).pc = "subscribers"
               /\ y(e).attempts = job[w][e].attempts
               /\ x(e) \in RowType /\ x(e).status = "PROCESSING"
               /\ x(e).attempts = row[e].attempts
    <2>1. job[w][e] \in JobType /\ row[e] \in RowType
      BY <1>0
    <2> QED
      BY <2>1 DEF JobType, RowType
  <1> HIDE DEF y, x
  <1>3. h \in [Events -> JobType]
    BY <1>2
  <1>4. /\ \A e \in Held(w) : e \in Events /\ job[w][e].pc = "read" /\ h[e] = y(e)
        /\ \A e \in Events : e \notin Held(w) => h[e] = job[w][e]
    BY DEF Held
  <1> HIDE DEF h
  <1>5. /\ job' \in [Workers -> [Events -> JobType]]
        /\ \A e \in Events : job'[w][e] = h[e]
        /\ \A v \in Workers, d \in Events : v # w => job'[v][d] = job[v][d]
    BY <1>0, <1>1, <1>3, JobsAt
  <1>6. row' \in [Events -> RowType]
    BY <1>1, <1>2
  <1>7. TypeOK'
    BY <1>1, <1>5, <1>6 DEF Inv, TypeOK, RowType
  <1>8. On' = On
    BY <1>1 DEF On
  <1>9. ASSUME NEW e \in Events, e \notin Held(w) PROVE SafeInv(e)' /\ FreeInv(e)'
    <2>1. row'[e] = row[e] /\ steady[e] \subseteq On
      BY <1>1, <1>9 DEF Inv, QueueInv, SafeInv
    <2>2. \A v \in Workers : job'[v][e] = job[v][e]
      BY <1>4, <1>5, <1>9
    <2> QED
      BY <1>1, <1>8, <2>1, <2>2, EventKept
  <1>10. ASSUME NEW e \in Held(w) PROVE SafeInv(e)' /\ FreeInv(e)'
    <2>0. e \in Events /\ job[w][e].pc = "read" /\ job'[w][e] = y(e)
      BY <1>4, <1>5
    <2>1. SafeInv(e) /\ FreeInv(e)
      BY <2>0 DEF Inv, QueueInv
    <2>2. /\ row'[e].status # "none" /\ row'[e].attempts = row[e].attempts
          /\ row'[e].status = "PROCESSING" \/ row'[e] = row[e]
          /\ Open(e) => row'[e].status = "PROCESSING"
      <3>1. row[e].status # "none"
        BY <2>0, <2>1 DEF SafeInv, JobSafe
      <3>2. row'[e] = IF Open(e) THEN x(e) ELSE row[e]
        BY <1>1, <2>0
      <3> QED
        BY <1>2, <2>0, <3>1, <3>2
    <2>3. EventSafe(row'[e], steady[e], accepted[e], rounds[e])
      BY <2>1, <2>2 DEF SafeInv, EventSafe
    <2>4. ASSUME NEW v \in Workers PROVE JobSafe(job'[v][e], row'[e], steady[e], accepted[e])
      <3>1. CASE v = w
        BY <1>2, <2>0, <2>2, <3>1 DEF JobSafe
      <3>2. CASE v # w
        BY <1>5, <2>0, <2>1, <2>2, <3>2 DEF SafeInv, JobSafe
      <3> QED
        BY <3>1, <3>2
    <2>5. SafeInv(e)'
      BY <1>1, <1>8, <2>1, <2>3, <2>4 DEF SafeInv
    <2>6. FreeInv(e)'
      <3> SUFFICES ASSUME e \notin raced
                   PROVE  /\ EventFree(row'[e], rounds[e])
                          /\ \A v \in Workers : JobFree(job'[v][e], row'[e], rounds[e])
                          /\ \A u, v \in Workers :
                               job'[u][e].pc # "none" /\ job'[v][e].pc # "none" => u = v
        BY <1>1 DEF FreeInv
      <3>1. /\ EventFree(row[e], rounds[e]) /\ JobFree(job[w][e], row[e], rounds[e])
            /\ \A v \in Workers : v # w => job'[v][e].pc = "none"
        BY <1>5, <2>0, <2>1 DEF FreeInv
      <3>2. row'[e].status = "PROCESSING"
        BY <2>0, <2>2, <3>1 DEF JobFree, Open
      <3>3. EventFree(row'[e], rounds[e])
        BY <3>1, <3>2 DEF EventFree
      <3>4. JobFree(job'[w][e], row'[e], rounds[e])
        BY <1>2, <2>0, <2>2, <3>1, <3>2 DEF JobFree
      <3>5. \A v \in Workers : v # w => JobFree(job'[v][e], row'[e], rounds[e])
        BY <3>1 DEF JobFree
      <3> QED
        BY <3>1, <3>3, <3>4, <3>5
    <2> QED
      BY <2>5, <2>6
  <1>11. \A e \in Events : SafeInv(e)' /\ FreeInv(e)'
    BY <1>9, <1>10
  <1> QED
    BY <1>7, <1>11 DEF Inv, QueueInv

\* A worker crashes with every job it had.
LEMMA CrashStep ==
    ASSUME Inv, NEW w \in Workers, Crash(w)
    PROVE  Inv'
  <1>0. /\ job \in [Workers -> [Events -> JobType]] /\ faults \in 0..MaxFaults
        /\ MaxFaults \in Nat /\ stranded \subseteq Events
    BY TypeFacts DEF Inv
  <1> DEFINE h == [e \in Events |-> NoJob]
  <1>1. /\ job' = [job EXCEPT ![w] = h] /\ faults < MaxFaults /\ faults' = faults + 1
        /\ stranded' = stranded \cup (Busy(w) \ Held(w))
        /\ UNCHANGED <<row, hook, steady, accepted, rounds, raced>>
    BY DEF Crash
  <1>2. h \in [Events -> JobType] /\ \A e \in Events : h[e] = NoJob
    BY NoJobTyped
  <1> HIDE DEF h
  <1>3. /\ job' \in [Workers -> [Events -> JobType]]
        /\ \A e \in Events : job'[w][e] = NoJob
        /\ \A v \in Workers, d \in Events : v # w => job'[v][d] = job[v][d]
    BY <1>0, <1>1, <1>2, JobsAt
  <1>4. stranded' \subseteq Events /\ faults' \in 0..MaxFaults
    <2>1. Busy(w) \subseteq Events
      BY DEF Busy
    <2> QED
      BY <1>0, <1>1, <2>1
  <1>5. TypeOK'
    BY <1>1, <1>3, <1>4 DEF Inv, TypeOK
  <1>6. On' = On
    BY <1>1 DEF On
  <1>7. ASSUME NEW e \in Events PROVE SafeInv(e)' /\ FreeInv(e)'
    <2>1. SafeInv(e) /\ FreeInv(e)
      BY DEF Inv, QueueInv
    <2>2. \A v \in Workers : job'[v][e] = NoJob \/ job'[v][e] = job[v][e]
      BY <1>3
    <2>3. SafeInv(e)'
      BY <1>1, <1>6, <2>1, <2>2, JobEnds DEF SafeInv
    <2>4. FreeInv(e)'
      BY <1>1, <2>1, <2>2, JobEnds, NoJobTyped DEF FreeInv
    <2> QED
      BY <2>3, <2>4
  <1> QED
    BY <1>5, <1>7 DEF Inv, QueueInv

-----------------------------------------------------------------------------
(* The theorems. *)

\* The queue is empty at the start.
LEMMA InvInit == Init => Inv
  <1> SUFFICES ASSUME Init PROVE Inv
    OBVIOUS
  <1>1. NoRow \in RowType /\ NoRow.status = "none" /\ NoRow.attempts = 0
    <2>1. 0 \in 0..MaxAttempts
      BY QueueAssumption
    <2> QED
      BY <2>1 DEF NoRow, RowType
  <1>2. /\ row \in [Events -> RowType] /\ job \in [Workers -> [Events -> JobType]]
        /\ hook \in [Webhooks -> {"none", "on", "off", "gone"}]
        /\ steady \in [Events -> SUBSET Webhooks] /\ accepted \in [Events -> SUBSET Webhooks]
        /\ rounds \in [Events -> Nat] /\ faults \in 0..MaxFaults
        /\ raced \subseteq Events /\ stranded \subseteq Events
    BY <1>1, NoJobTyped, QueueAssumption DEF Init
  <1>3. TypeOK
    BY <1>2, TypeFrom
  <1>4. ASSUME NEW e \in Events PROVE SafeInv(e) /\ FreeInv(e)
    <2>1. /\ row[e] = NoRow /\ steady[e] = {} /\ rounds[e] = 0
          /\ \A w \in Workers : job[w][e] = NoJob
      BY DEF Init
    <2>2. EventSafe(NoRow, {}, accepted[e], 0) /\ EventFree(NoRow, 0)
      BY <1>1, QueueAssumption DEF EventSafe, EventFree
    <2>3. SafeInv(e)
      BY <2>1, <2>2, JobEnds DEF SafeInv
    <2>4. FreeInv(e)
      BY <2>1, <2>2, JobEnds, NoJobTyped DEF FreeInv
    <2> QED
      BY <2>3, <2>4
  <1> QED
    BY <1>3, <1>4 DEF Inv, QueueInv

\* Every step keeps the invariant.
LEMMA InvNext == Inv /\ [Next]_vars => Inv'
  <1> SUFFICES ASSUME Inv, [Next]_vars PROVE Inv'
    OBVIOUS
  <1>1. ASSUME NEW h \in Webhooks, NEW s \in {"on", "off", "gone"}, SetWebhook(h, s) PROVE Inv'
    BY <1>1, WebhookStep
  <1>2. ASSUME NEW e \in Events, Dispatch(e) \/ RetryDue(e) PROVE Inv'
    BY <1>2, DispatchStep, RetryDueStep
  <1>3. ASSUME NEW w \in Workers, Work(w) PROVE Inv'
    BY <1>3, ReadQueueStep, ClaimStep, SubscribersStep, UnheardStep, CloseStep, AnswerStep
      DEF Work
  <1>4. ASSUME NEW w \in Workers, Crash(w) PROVE Inv'
    BY <1>4, CrashStep
  <1>5. ASSUME NEW w \in Workers, NEW e \in Events, StatementFails(w, e) PROVE Inv'
    BY <1>5, StatementFailsStep
  <1>6. CASE UNCHANGED vars
    <2>1. TypeOK' /\ On' = On
      BY <1>6 DEF vars, Inv, TypeOK, On
    <2>2. ASSUME NEW e \in Events PROVE SafeInv(e)' /\ FreeInv(e)'
      <3>1. steady[e] \subseteq On
        BY DEF Inv, QueueInv, SafeInv
      <3> QED
        BY <1>6, <2>1, <3>1, EventKept DEF vars
    <2> QED
      BY <2>1, <2>2 DEF Inv, QueueInv
  <1> QED
    BY <1>1, <1>2, <1>3, <1>4, <1>5, <1>6 DEF Next

\* So it holds throughout.
LEMMA InvHolds == Spec => []Inv
  BY InvInit, InvNext, PTL DEF Spec

(* Rows and jobs keep their shapes, and the attempts column never passes    *)
(* MAX_ATTEMPTS, raced or not.                                              *)
THEOREM QueueTypeCorrect == Spec => []TypeOK
  <1>1. Inv => TypeOK
    BY DEF Inv
  <1> QED
    BY <1>1, InvHolds, PTL

(* The outbox delivers at least once: a DELIVERED event has been accepted   *)
(* by every webhook that was on ever since dispatchEvent stored it, over    *)
(* all retries, overlapping runs of processQueue and crashes.               *)
THEOREM AtLeastOnceHolds == Spec => []AtLeastOnce
  <1>1. Inv => AtLeastOnce
    BY DEF Inv, QueueInv, SafeInv, EventSafe, AtLeastOnce
  <1> QED
    BY <1>1, InvHolds, PTL

(* Outside the window between findMany and updateMany, no two workers       *)
(* process one event at the same time.                                      *)
THEOREM OneJobHolds == Spec => []OneJob
  <1>1. Inv => OneJob
    BY DEF Inv, QueueInv, FreeInv, OneJob, Busy
  <1> QED
    BY <1>1, InvHolds, PTL

(* An event no two workers raced for is posted in at most MAX_ATTEMPTS      *)
(* rounds, whatever the max_attempts column and the crashes.                *)
THEOREM RoundsBoundedHolds == Spec => []RoundsBounded
  <1>1. Inv => RoundsBounded
    BY DEF Inv, QueueInv, FreeInv, EventFree, RoundsBounded
  <1> QED
    BY <1>1, InvHolds, PTL
=============================================================================
