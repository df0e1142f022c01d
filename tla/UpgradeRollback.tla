--------------------------- MODULE UpgradeRollback ---------------------------
(***************************************************************************)
(* Upgrades of the running server (UpgradeService, RollbackService,        *)
(* DatabaseBackupService): a request validates, dumps the database,        *)
(* migrates it, checks its health and restores the dump when the migration *)
(* or the health check fails.  Several instances share one database.       *)
(*                                                                         *)
(* One action is what a request does between two awaits.  Dump, migration  *)
(* and restore are synchronous child processes: dump and restore are one   *)
(* snapshot and one transaction, and during a migration nothing else runs  *)
(* on its instance.  The database is the number of applied migrations,     *)
(* whether one is recorded as failed, and the migrations whose new tables  *)
(* and types are there; upgrade_audit_log is not in a dump.                *)
(***************************************************************************)
EXTENDS Integers, FiniteSets

CONSTANTS
    UpgReqs,      \* requests: each runs one upgrade or one rollback
    Instances,
    LiveRestore,  \* UPGRADE_ALLOW_LIVE_RESTORE = 'true'
    ProgressTTL,  \* IN_PROGRESS_TTL_MS
    Target,       \* migrations the new version ships
    Creating,     \* those that create a table or a type, not IF NOT EXISTS
    Referencing,  \* those whose new table refers to a table or type from before
    UpgMaxTime    \* bound: last clock value

Nobody == "nobody"

ASSUME UpgradeAssumption ==
    /\ LiveRestore \in BOOLEAN
    /\ ProgressTTL \in Nat /\ Target \in Nat \ {0} /\ UpgMaxTime \in Nat
    /\ Creating \subseteq 1..Target /\ Referencing \subseteq Creating
    /\ IsFiniteSet(UpgReqs) /\ Nobody \notin UpgReqs

Databases == [applied : 0..Target, failed : BOOLEAN, made : SUBSET Creating]
NoBackup  == [applied |-> -1, failed |-> FALSE, made |-> {}]

VARIABLES
    upgNow,
    db,        \* the database, without upgrade_audit_log
    audit,     \* upgrade_audit_log: the row of each upgrade
    inFlight,  \* per instance: UpgradeService.inFlight
    job,       \* per request: program counter and local variables
    migrator,  \* the request whose prisma migrate deploy runs, or Nobody
    seen       \* history: the database before and after each run, and whether
               \* another request changed it meanwhile

upgVars == <<upgNow, db, audit, inFlight, job, migrator, seen>>

NoAudit == [status |-> "none", startedAt |-> 0, doneAt |-> 0, backup |-> NoBackup]
NoJob   == [pc |-> "idle", at |-> Nobody, dry |-> FALSE, force |-> FALSE, dump |-> NoBackup,
            of |-> Nobody, restored |-> FALSE, answer |-> "none"]
NotSeen == [before |-> NoBackup, end |-> NoBackup, disturbed |-> FALSE, migrated |-> FALSE]

UpgInit ==
    /\ upgNow = 0
    /\ db = [applied |-> 0, failed |-> FALSE, made |-> {}]
    /\ audit = [r \in UpgReqs |-> NoAudit]
    /\ inFlight = [i \in Instances |-> FALSE]
    /\ job = [r \in UpgReqs |-> NoJob]
    /\ migrator = Nobody
    /\ seen = [r \in UpgReqs |-> NotSeen]

-----------------------------------------------------------------------------
Ended(r)    == job[r].pc \in {"idle", "done", "dead"}
UpgActive   == {r \in UpgReqs : ~Ended(r)}
UpgRunning  == {r \in UpgActive : job[r].pc \notin {"check", "manual_restore", "manual_record"}}
\* A migration is a synchronous child process of its instance.
Free(i)     == \A r \in UpgReqs : job[r].pc = "migrating" => job[r].at # i
UpgAt(r, label) == job[r].pc = label /\ Free(job[r].at)
UpgGoto(r, label) == job' = [job EXCEPT ![r].pc = label]

\* Request r writes the database: every other run under way is disturbed.
WriteDb(r, value) ==
    /\ db' = value
    /\ seen' = [q \in UpgReqs |->
                 IF q = r THEN [seen[q] EXCEPT !.migrated = @ \/ job[r].pc = "migrating"]
                 ELSE [seen[q] EXCEPT !.disturbed = @ \/ (q \in UpgActive /\ value # db)]]

\* The reply, and the finally block of upgrade().
UpgReply(r, answer) ==
    /\ job' = [job EXCEPT ![r] = [NoJob EXCEPT !.pc = "done", !.answer = answer, !.dry = job[r].dry]]
    /\ inFlight' = IF job[r].dry THEN inFlight ELSE [inFlight EXCEPT ![job[r].at] = FALSE]
    /\ seen' = [seen EXCEPT ![r].end = db]

-----------------------------------------------------------------------------
(* upgrade() *)

\* The checks before the first await.  A dry run is not checked at all.
UpgStart(r, i, dry, force) ==
    /\ job[r].pc = "idle" /\ Free(i)
    /\ dry \/ ((force \/ LiveRestore) /\ ~inFlight[i])
    /\ job' = [job EXCEPT ![r] = [NoJob EXCEPT !.pc = IF dry THEN "initialize" ELSE "check",
                                    !.at = i, !.dry = dry, !.force = force]]
    /\ seen' = [seen EXCEPT ![r].before = db]
    /\ UNCHANGED <<upgNow, db, audit, inFlight, migrator>>

InProgress == {q \in UpgReqs : audit[q].status = "running" /\ audit[q].startedAt >= upgNow - ProgressTTL}

\* assertNoUpgradeInProgress: the answer of the query, and the flag.
UpgAdmit(r) ==
    /\ UpgAt(r, "check")
    /\ IF InProgress # {}
         THEN /\ job' = [job EXCEPT ![r].pc = "done", ![r].answer = "refused"]
              /\ UNCHANGED inFlight
         ELSE /\ inFlight' = [inFlight EXCEPT ![job[r].at] = TRUE]
              /\ UpgGoto(r, "initialize")
    /\ UNCHANGED <<upgNow, db, audit, migrator, seen>>

\* initializeUpgrade: the audit row
UpgInitialize(r, ok) ==
    /\ UpgAt(r, "initialize")
    /\ IF ok
         THEN /\ audit' = [audit EXCEPT ![r] = [NoAudit EXCEPT !.status = "running", !.startedAt = upgNow]]
              /\ UpgGoto(r, "validate")
              /\ UNCHANGED <<inFlight, seen>>
         ELSE UpgReply(r, "failed") /\ UNCHANGED audit
    /\ UNCHANGED <<upgNow, db, migrator>>

\* PRE_VALIDATION: force passes over failed checks, not over an error.
UpgValidate(r, result) ==
    /\ UpgAt(r, "validate")
    /\ UpgGoto(r, IF result = "pass" \/ (result = "checks" /\ job[r].force)
                    THEN IF job[r].dry THEN "config" ELSE "dump"
                    ELSE "fail")
    /\ UNCHANGED <<upgNow, db, audit, inFlight, migrator, seen>>

\* createBackup
UpgDump(r, ok) ==
    /\ UpgAt(r, "dump")
    /\ job' = [job EXCEPT ![r].pc = IF ok THEN "record_dump" ELSE "fail",
                          ![r].dump = IF ok THEN db ELSE NoBackup]
    /\ UNCHANGED <<upgNow, db, audit, inFlight, migrator, seen>>

\* Mutant: the archive is entered on the row at completion only.
UpgRecordDumpLater(r, ok) ==
    /\ UpgAt(r, "record_dump")
    /\ UpgGoto(r, IF ok THEN "config" ELSE "fail")
    /\ UNCHANGED <<upgNow, db, audit, inFlight, migrator, seen>>

\* The archive is entered on the audit row.
UpgRecordDump(r, ok) ==
    /\ UpgAt(r, "record_dump")
    /\ IF ok THEN audit' = [audit EXCEPT ![r].backup = job[r].dump] ELSE UNCHANGED audit
    /\ UpgGoto(r, IF ok THEN "config" ELSE "fail")
    /\ UNCHANGED <<upgNow, db, inFlight, migrator, seen>>

\* CONFIG_CHECK: a failure ends the run, without a rollback.
UpgConfig(r, ok) ==
    /\ UpgAt(r, "config")
    /\ UpgGoto(r, IF ~ok THEN "fail" ELSE IF job[r].dry THEN "health" ELSE "migrate")
    /\ UNCHANGED <<upgNow, db, audit, inFlight, migrator, seen>>

(* DATABASE_MIGRATION.  prisma migrate deploy takes an advisory lock and    *)
(* gives up when another deploy holds it; it applies one migration after    *)
(* the other, stops at one recorded as failed, and cannot apply one whose   *)
(* tables and types are there already.                                      *)
UpgMigrate(r) ==
    /\ UpgAt(r, "migrate")
    /\ IF migrator = Nobody
         THEN migrator' = r /\ UpgGoto(r, "migrating")
         ELSE UpgGoto(r, "rollback") /\ UNCHANGED migrator
    /\ UNCHANGED <<upgNow, db, audit, inFlight, seen>>

UpgApply(r) ==
    LET n == db.applied + 1 IN
    /\ job[r].pc = "migrating"
    /\ ~db.failed /\ db.applied < Target /\ n \notin db.made
    /\ WriteDb(r, [db EXCEPT !.applied = n, !.made = @ \cup ({n} \cap Creating)])
    /\ UNCHANGED <<upgNow, audit, inFlight, job, migrator>>

UpgMigrated(r) ==
    /\ job[r].pc = "migrating"
    /\ ~db.failed /\ db.applied = Target
    /\ migrator' = Nobody
    /\ UpgGoto(r, "health")
    /\ UNCHANGED <<upgNow, db, audit, inFlight, seen>>

\* Mutant: a failed migration ends the run like a failed check.
UpgMigrationFailsForGood(r) ==
    /\ job[r].pc = "migrating"
    /\ \E broken \in {db.failed, db.failed \/ db.applied < Target} :
         WriteDb(r, [db EXCEPT !.failed = broken])
    /\ migrator' = Nobody
    /\ UpgGoto(r, "fail")
    /\ UNCHANGED <<upgNow, audit, inFlight>>

\* A statement fails, or the ten minutes are over.
UpgMigrationFails(r) ==
    /\ job[r].pc = "migrating"
    /\ \E broken \in {db.failed, db.failed \/ db.applied < Target} :
         WriteDb(r, [db EXCEPT !.failed = broken])
    /\ migrator' = Nobody
    /\ UpgGoto(r, "rollback")
    /\ UNCHANGED <<upgNow, audit, inFlight>>

(* POST_HEALTH_CHECK.  checkMigrationsApplied passes whatever the database  *)
(* holds, so the result does not depend on it.                              *)
UpgHealth(r, ok) ==
    /\ UpgAt(r, "health")
    /\ UpgGoto(r, IF ok THEN "complete" ELSE IF job[r].dry THEN "fail" ELSE "rollback")
    /\ UNCHANGED <<upgNow, db, audit, inFlight, migrator, seen>>

\* COMPLETION: the run counts as successful even if the row is not updated.
UpgComplete(r, ok) ==
    /\ UpgAt(r, "complete")
    /\ IF ok THEN audit' = [audit EXCEPT ![r].status = "completed", ![r].doneAt = upgNow]
             ELSE UNCHANGED audit
    /\ UpgReply(r, "success")
    /\ UNCHANGED <<upgNow, db, migrator>>

\* Mutant: only the success path resets the flag.
UpgFailKeepsFlag(r, ok) ==
    /\ UpgAt(r, "fail")
    /\ IF ok THEN audit' = [audit EXCEPT ![r].status = "failed", ![r].doneAt = upgNow]
             ELSE UNCHANGED audit
    /\ job' = [job EXCEPT ![r].pc = "done", ![r].answer = IF job[r].of = Nobody THEN "failed"
                             ELSE IF job[r].restored THEN "rolled_back" ELSE "rollback_failed"]
    /\ seen' = [seen EXCEPT ![r].end = db]
    /\ UNCHANGED <<upgNow, db, inFlight, migrator>>

\* recordUpgradeFailure, its own error swallowed, and buildFailureResult
UpgFail(r, ok) ==
    /\ UpgAt(r, "fail")
    /\ IF ok THEN audit' = [audit EXCEPT ![r].status = "failed", ![r].doneAt = upgNow]
             ELSE UNCHANGED audit
    /\ UpgReply(r, IF job[r].of = Nobody THEN "failed"
                   ELSE IF job[r].restored THEN "rolled_back" ELSE "rollback_failed")
    /\ UNCHANGED <<upgNow, db, migrator>>

-----------------------------------------------------------------------------
(* executeRollback: of a failed run by its own id, or on an administrator's *)
(* request, of any upgrade or of the one completed last.                    *)

LastCompleted ==
    LET C == {q \in UpgReqs : audit[q].status = "completed"}
    IN  {q \in C : \A p \in C : audit[p].doneAt <= audit[q].doneAt}

\* The row is read; refused, not found or without a usable archive: it failed.
UpgRollback(r) ==
    /\ UpgAt(r, "rollback")
    /\ \/ /\ LiveRestore /\ audit[r].backup # NoBackup
          /\ job' = [job EXCEPT ![r].pc = "restore", ![r].of = r]
       \/ job' = [job EXCEPT ![r].pc = "fail", ![r].of = r]
    /\ UNCHANGED <<upgNow, db, audit, inFlight, migrator, seen>>

\* POST rollback: no look at whether an upgrade is running.
UpgManualRollback(r, i, q) ==
    /\ job[r].pc = "idle" /\ Free(i)
    /\ LiveRestore /\ audit[q].backup # NoBackup
    /\ job' = [job EXCEPT ![r] = [NoJob EXCEPT !.pc = "manual_restore", !.at = i, !.of = q]]
    /\ UNCHANGED <<upgNow, db, audit, inFlight, migrator, seen>>

\* The other case of the endpoint, without an id.
UpgRollbackLast(r, i) ==
    \E q \in LastCompleted : UpgManualRollback(r, i, q)

\* pg_restore --clean --if-exists drops and recreates what is in the archive
\* and nothing else: the tables and types made since the dump stay.
Leftover(archive) == db.made \ archive.made

(* restoreBackup, in a single transaction.  A leftover table that refers to *)
(* an archived one keeps it from being dropped, and the restore fails at    *)
(* the first error.                                                         *)
UpgRestore(r, ok) ==
    LET manual  == job[r].pc = "manual_restore"
        archive == audit[job[r].of].backup
    IN
    /\ UpgAt(r, "restore") \/ UpgAt(r, "manual_restore")
    /\ IF ok THEN /\ Leftover(archive) \cap Referencing = {}
                  /\ WriteDb(r, [archive EXCEPT !.made = @ \cup Leftover(archive)])
             ELSE UNCHANGED <<db, seen>>
    /\ job' = [job EXCEPT ![r].pc = IF manual THEN "manual_record" ELSE "record",
                          ![r].restored = ok]
    /\ UNCHANGED <<upgNow, audit, inFlight, migrator>>

\* recordRollbackAttempt: when the row cannot be written the rollback failed.
UpgRecordRollback(r, ok) ==
    LET done == job[r].restored /\ ok IN
    /\ \/ /\ UpgAt(r, "record")
          /\ job' = [job EXCEPT ![r].pc = "fail", ![r].restored = done]
       \/ /\ UpgAt(r, "manual_record")
          /\ job' = [job EXCEPT ![r] = [NoJob EXCEPT !.pc = "done"]]
    /\ UNCHANGED <<upgNow, db, audit, inFlight, migrator, seen>>

-----------------------------------------------------------------------------
\* A process dies; a migration it was running may be left recorded as failed.
UpgCrash(i) ==
    LET hit == {r \in UpgActive : job[r].at = i} IN
    /\ hit # {}
    /\ inFlight' = [inFlight EXCEPT ![i] = FALSE]
    /\ job' = [r \in UpgReqs |-> IF r \in hit THEN [NoJob EXCEPT !.pc = "dead"] ELSE job[r]]
    /\ IF migrator \in hit
         THEN /\ migrator' = Nobody
              /\ \E broken \in {db.failed, db.failed \/ db.applied < Target} :
                   WriteDb(migrator, [db EXCEPT !.failed = broken])
         ELSE UNCHANGED <<migrator, db, seen>>
    /\ UNCHANGED <<upgNow, audit>>

UpgTick ==
    /\ upgNow < UpgMaxTime
    /\ upgNow' = upgNow + 1
    /\ UNCHANGED <<db, audit, inFlight, job, migrator, seen>>

UpgStage(r) ==
    \/ UpgAdmit(r) \/ UpgMigrate(r) \/ UpgApply(r) \/ UpgMigrated(r) \/ UpgMigrationFails(r)
    \/ UpgRollback(r)
    \/ \E result \in {"pass", "checks", "error"} : UpgValidate(r, result)
    \/ \E ok \in BOOLEAN :
         \/ UpgInitialize(r, ok) \/ UpgDump(r, ok) \/ UpgRecordDump(r, ok) \/ UpgConfig(r, ok)
         \/ UpgHealth(r, ok) \/ UpgComplete(r, ok) \/ UpgFail(r, ok)
         \/ UpgRestore(r, ok) \/ UpgRecordRollback(r, ok)

UpgNext ==
    \/ \E r \in UpgReqs : UpgStage(r)
    \/ \E r \in UpgReqs, i \in Instances :
         \/ \E dry, force \in BOOLEAN : UpgStart(r, i, dry, force)
         \/ \E q \in UpgReqs : UpgManualRollback(r, i, q)
         \/ UpgRollbackLast(r, i)
    \/ \E i \in Instances : UpgCrash(i)
    \/ UpgTick

UpgSpec == UpgInit /\ [][UpgNext]_upgVars

-----------------------------------------------------------------------------
(* Properties. *)

\* The audit rows, the requests and the database have their shapes.
UpgTypeOK ==
    /\ upgNow \in Nat
    /\ db \in Databases
    /\ \A r \in UpgReqs :
         /\ audit[r].status \in {"none", "running", "completed", "failed"}
         /\ audit[r].backup \in Databases \cup {NoBackup}
         /\ job[r].at \in Instances \cup {Nobody}
         /\ job[r].of \in UpgReqs \cup {Nobody}
    /\ inFlight \in [Instances -> BOOLEAN]
    /\ migrator \in UpgReqs \cup {Nobody}

(* Database d is a again, but for new tables and types of the migrations    *)
(* after a, none of which refers to a table or type from before.            *)
BackTo(a, d) ==
    /\ d.applied = a.applied /\ d.failed = a.failed /\ a.made \subseteq d.made
    /\ d.made \ a.made \subseteq (Creating \ Referencing) \cap (a.applied + 1)..Target

(* What a run reports is true of the database, if no other request changed  *)
(* it meanwhile: success means migrated (or, dry, untouched), a failure     *)
(* without a rollback as before the run.  "rollbackSucceeded: true" means   *)
(* that the tables, the data and the list of migrations are those of before *)
(* the run, and that at most some free-standing tables and types of its own *)
(* migrations are left over.  When the rollback failed, the archive on the  *)
(* audit row is the database as it was before the run.                      *)
UpgAnswerTruthful ==
    \A r \in UpgReqs : LET h == seen[r] IN
      job[r].pc = "done" /\ ~h.disturbed =>
        CASE job[r].answer = "success" ->
               IF job[r].dry THEN h.end = h.before ELSE h.end.applied = Target /\ ~h.end.failed
          [] job[r].answer = "failed" -> h.end = h.before
          [] job[r].answer = "rolled_back" -> BackTo(h.before, h.end)
          [] job[r].answer = "rollback_failed" -> audit[r].backup = h.before
          [] OTHER -> TRUE

(* Whenever a run has changed the database, by one migration or more, also  *)
(* if its process died since, the way back is on its audit row: an archive  *)
(* of the database as it was before, unless another request interfered.     *)
UpgWayBack ==
    \A r \in UpgReqs : seen[r].migrated =>
        /\ audit[r].backup # NoBackup
        /\ ~seen[r].disturbed => audit[r].backup = seen[r].before

(* inFlight is only up while an upgrade runs on the instance: no exit path  *)
(* of runUpgrade wedges the instance until it restarts.                     *)
UpgFlagMeansRunning ==
    \A i \in Instances : inFlight[i] => \E r \in UpgRunning : job[r].at = i /\ ~job[r].dry

(* "Only one upgrade at a time: a second concurrent upgrade is refused"     *)
(* (within the two hours after which the lock expires).                     *)
UpgOneAtATime ==
    \A r, q \in UpgReqs :
        /\ {r, q} \subseteq UpgActive /\ r # q
        /\ \A p \in {r, q} : /\ audit[p].status = "running" /\ ~job[p].dry
                             /\ audit[p].startedAt >= upgNow - ProgressTTL
        => FALSE
==============================================================================
