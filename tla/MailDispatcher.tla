--------------------------- MODULE MailDispatcher ---------------------------
(***************************************************************************)
(* mail-dispatcher.service.ts: the background worker each backend          *)
(* container runs.  A step is what happens between two awaits: one SQL     *)
(* statement, or one answer of the SMTP server.  The `running` flag makes  *)
(* a container's ticks sequential: it is idle or inside one tick.          *)
(***************************************************************************)
EXTENDS MailOutbox

CONSTANTS
  Dispatcher,    \* the backend containers
  Enabled,       \* MAIL_ENABLED
  Credentialed,  \* slots whose mailbox has an app password
  DailyCap,      \* MAIL_DAILY_CAP_PER_IDENTITY; the slots share one mailbox
  BatchSize      \* BATCH_SIZE

ASSUME DispatcherAssumption == IsFiniteSet(Dispatcher) /\ Dispatcher # {}
ASSUME ConfigAssumption ==
  /\ Enabled \in BOOLEAN
  /\ Credentialed \subseteq Slot
  /\ DailyCap \in Nat
  /\ BatchSize \in Nat \ {0}

VARIABLES
  worker,     \* [Dispatcher -> Worker]
  contactLog  \* rows written to the record's contact activity

dispatcherVars == <<worker, contactLog>>

(* The row's columns the dispatcher read after its claim, when in hand.    *)
Worker == [at       : {"idle", "recover", "purge", "select", "batch", "reread",
                       "record", "suppression", "quota", "smtp", "mark", "log"},
           batch    : SUBSET RowId,
           row      : RowId,
           attempts : Nat,
           body     : BOOLEAN]

IdleWorker == [at |-> "idle", batch |-> {}, row |-> 1, attempts |-> 0, body |-> FALSE]

At(d, place) == worker[d].at = place
Goto(d, place) == worker' = [worker EXCEPT ![d].at = place]

(* Done with the row in hand: on to the next one of the batch.             *)
NextInBatch(d) ==
  worker' = [worker EXCEPT ![d] = [IdleWorker EXCEPT !.at = "batch", !.batch = worker[d].batch]]

(* The container holds a row it claimed.                                   *)
Delivering(d) ==
  worker[d].at \in {"reread", "record", "suppression", "quota", "smtp", "mark"}

(* It holds one the SMTP server has not accepted from it.                  *)
Unaccepted(d) == Delivering(d) /\ ~At(d, "mark")
Holders(r) == {d \in Dispatcher : Unaccepted(d) /\ worker[d].row = r}

Due == {r \in RowsWith("pending") : outbox[r].timer = "elapsed"}
SentToday == {r \in RowsWith("sent") : outbox[r].timer = "running"}

(* this.outbox.update(row.id, ...): an UPDATE by id that looks at nothing. *)
Write(r, status, timer, reason) ==
  outbox' = [outbox EXCEPT ![r].status = status, ![r].timer = timer, ![r].reason = reason]

DispatcherInit ==
  /\ worker = [d \in Dispatcher |-> IdleWorker]
  /\ contactLog = {}

-----------------------------------------------------------------------------
(* tick(): housekeeping.                                                   *)

(* expireDrafts: both its statements.                                      *)
ExpireDrafts(d) ==
  /\ At(d, "idle")
  /\ outbox' = [r \in RowId |->
       IF outbox[r].status \in {"draft", "pending"} /\ outbox[r].expires = "past"
       THEN [outbox[r] EXCEPT !.status = "cancelled", !.reason = "expired"]
       ELSE outbox[r]]
  /\ Goto(d, "recover")
  /\ UNCHANGED <<record, gone, suppressed, copies, grants, faults, contactLog>>

(* Mutant: rows of a dead container are left alone.                        *)
RecoverNothing(d) ==
  /\ At(d, "recover")
  /\ Goto(d, "purge")
  /\ UNCHANGED <<outboxVars, contactLog>>

(* recoverStuck: next_attempt_at keeps the value that made the row due.    *)
RecoverStuck(d) ==
  /\ At(d, "recover")
  /\ LET stuck == {r \in RowsWith("sending") : outbox[r].timer = "elapsed"}
     IN  /\ outbox' = [r \in RowId |-> IF r \in stuck
                                       THEN [outbox[r] EXCEPT !.status = "pending"]
                                       ELSE outbox[r]]
         /\ Grant(stuck)
  /\ Goto(d, "purge")
  /\ UNCHANGED <<record, gone, suppressed, copies, faults, contactLog>>

(* purgeOldBodies: once every PURGE_EVERY_MS, whatever the row's status.   *)
(* Which rows are past retention (180 days) is the clock's choice, but a   *)
(* draft never is: it expires after draftTtlDays (7).  The UPDATE touches  *)
(* updated_at, from which a delivery's being stuck is reckoned.            *)
PurgeOldBodies(d) ==
  /\ At(d, "purge")
  /\ \/ UNCHANGED <<outbox, faults>>
     \/ \E old \in SUBSET {r \in RowId : outbox[r].status \notin {"none", "draft"} /\ outbox[r].body} :
          /\ old # {}
          /\ Spend("retention")
          /\ outbox' = [r \in RowId |-> IF r \in old
                                        THEN [outbox[r] EXCEPT !.body = FALSE,
                                                !.timer = IF outbox[r].status = "sending"
                                                          THEN "running" ELSE @]
                                        ELSE outbox[r]]
  /\ Goto(d, IF Enabled THEN "select" ELSE "idle")
  /\ UNCHANGED <<record, gone, suppressed, copies, grants, contactLog>>

-----------------------------------------------------------------------------
(* processBatch()                                                          *)

(* ORDER BY id ASC LIMIT BATCH_SIZE.                                       *)
SelectDue(d) ==
  /\ At(d, "select")
  /\ worker' = [worker EXCEPT ![d].at = "batch",
       ![d].batch = {r \in Due : Cardinality({q \in Due : q < r}) < BatchSize}]
  /\ UNCHANGED <<outboxVars, contactLog>>

EndBatch(d) ==
  /\ At(d, "batch")
  /\ worker[d].batch = {}
  /\ Goto(d, "idle")
  /\ UNCHANGED <<outboxVars, contactLog>>

(* Mutant: the claim is an UPDATE by id, without its status condition.     *)
ClaimUnconditionally(d, r) ==
  /\ At(d, "batch")
  /\ r \in worker[d].batch
  /\ \A q \in worker[d].batch : r <= q
  /\ outbox' = [outbox EXCEPT ![r].status = "sending",
                              ![r].attempts = @ + 1,
                              ![r].timer = "running"]
  /\ worker' = [worker EXCEPT ![d].at = "reread", ![d].row = r, ![d].batch = @ \ {r}]
  /\ UNCHANGED <<record, gone, suppressed, copies, grants, faults, contactLog>>

(* The conditional UPDATE; a row another container took is skipped.        *)
Claim(d, r) ==
  /\ At(d, "batch")
  /\ r \in worker[d].batch
  /\ \A q \in worker[d].batch : r <= q
  /\ IF outbox[r].status = "pending"
     THEN /\ outbox' = [outbox EXCEPT ![r].status = "sending",
                                      ![r].attempts = @ + 1,
                                      ![r].timer = "running"]
          /\ worker' = [worker EXCEPT ![d].at = "reread", ![d].row = r,
                                      ![d].batch = @ \ {r}]
     ELSE /\ worker' = [worker EXCEPT ![d].batch = @ \ {r}]
          /\ UNCHANGED outbox
  /\ UNCHANGED <<record, gone, suppressed, copies, grants, faults, contactLog>>

(* findOneBy after the claim: the row as it now is.                        *)
Reread(d) ==
  /\ At(d, "reread")
  /\ LET r == worker[d].row
     IN  worker' = [worker EXCEPT ![d].at = "record",
                                  ![d].attempts = outbox[r].attempts,
                                  ![d].body = outbox[r].body]
  /\ UNCHANGED <<outboxVars, contactLog>>

-----------------------------------------------------------------------------
(* deliver()                                                               *)

CheckRecord(d) ==
  /\ At(d, "record")
  /\ LET r == worker[d].row
     IN  IF outbox[r].slot \in gone
         THEN Write(r, "cancelled", "elapsed", "deleted") /\ NextInBatch(d)
         ELSE UNCHANGED outbox /\ Goto(d, "suppression")
  /\ UNCHANGED <<record, gone, suppressed, copies, grants, faults, contactLog>>

CheckSuppression(d) ==
  /\ At(d, "suppression")
  /\ LET r == worker[d].row
     IN  IF outbox[r].slot \in suppressed
         THEN Write(r, "suppressed", "elapsed", "none") /\ NextInBatch(d)
         ELSE UNCHANGED outbox /\ Goto(d, "quota")
  /\ UNCHANGED <<record, gone, suppressed, copies, grants, faults, contactLog>>

(* Mutants of CheckQuota: the cap compared with > instead of >=, and the   *)
(* attempt given back without Math.max.                                    *)
CheckQuotaAbove(d) ==
  /\ At(d, "quota")
  /\ LET r == worker[d].row
     IN  IF outbox[r].slot \notin Credentialed \/ Cardinality(SentToday) > DailyCap
         THEN /\ Write(r, "pending", "running", "none")
              /\ NextInBatch(d)
         ELSE UNCHANGED outbox /\ Goto(d, "smtp")
  /\ UNCHANGED <<record, gone, suppressed, copies, grants, faults, contactLog>>

(* Missing credentials or a full day: defer() gives the attempt back.      *)
CheckQuota(d) ==
  /\ At(d, "quota")
  /\ LET r == worker[d].row
         refund == IF worker[d].attempts = 0 THEN 0 ELSE worker[d].attempts - 1
     IN  IF outbox[r].slot \notin Credentialed \/ Cardinality(SentToday) >= DailyCap
         THEN /\ outbox' = [outbox EXCEPT ![r].status = "pending",
                                          ![r].attempts = refund,
                                          ![r].timer = "running",
                                          ![r].reason = "none"]
              /\ NextInBatch(d)
         ELSE UNCHANGED outbox /\ Goto(d, "smtp")
  /\ UNCHANGED <<record, gone, suppressed, copies, grants, faults, contactLog>>

SmtpAccepts(d) ==
  /\ At(d, "smtp")
  /\ copies' = [copies EXCEPT ![worker[d].row] = @ + 1]
  /\ Goto(d, "mark")
  /\ UNCHANGED <<outbox, record, gone, suppressed, grants, faults, contactLog>>

(* The catch block: failed for good, or back in the queue after a delay.   *)
AfterError(d, permanent) ==
  /\ IF permanent \/ GivesUp(worker[d].attempts)
     THEN Write(worker[d].row, "failed", "elapsed", "none")
     ELSE Write(worker[d].row, "pending", "running", "none")
  /\ NextInBatch(d)

(* Mutant: an error of the SMTP server is swallowed.                       *)
SmtpErrorSwallowed(d) ==
  /\ At(d, "smtp")
  /\ Goto(d, "mark")
  /\ UNCHANGED <<outboxVars, contactLog>>

(* The server refuses the mail, or it cannot be reached or logged in to.   *)
SmtpRejects(d) ==
  /\ At(d, "smtp")
  /\ \E permanent \in BOOLEAN : AfterError(d, permanent)
  /\ UNCHANGED <<record, gone, suppressed, copies, grants, faults, contactLog>>

MarkSent(d) ==
  /\ At(d, "mark")
  /\ Write(worker[d].row, "sent", "running", "none")
  /\ Goto(d, "log")
  /\ UNCHANGED <<record, gone, suppressed, copies, grants, faults, contactLog>>

(* The UPDATE to 'sent' is inside the try: when it fails, the catch block  *)
(* treats the delivered mail as one that could not be sent.                *)
MarkSentFails(d) ==
  /\ At(d, "mark")
  /\ Spend("database")
  /\ AfterError(d, FALSE)
  /\ Grant(IF GivesUp(worker[d].attempts) THEN {} ELSE {worker[d].row})
  /\ UNCHANGED <<record, gone, suppressed, copies, contactLog>>

(* logContact: keyed mail:<id>, and a failure is swallowed.                *)
LogContact(d) ==
  /\ At(d, "log")
  /\ contactLog' \in {contactLog, contactLog \union {worker[d].row}}
  /\ NextInBatch(d)
  /\ UNCHANGED outboxVars

(* The container dies, or a query outside the try fails and ends the tick. *)
Crash(d) ==
  /\ ~At(d, "idle")
  /\ Spend("crash")
  /\ worker' = [worker EXCEPT ![d] = IdleWorker]
  /\ UNCHANGED <<outbox, record, gone, suppressed, copies, grants, contactLog>>

DispatcherProgress(d) ==
  \/ ExpireDrafts(d)
  \/ RecoverStuck(d)
  \/ PurgeOldBodies(d)
  \/ SelectDue(d)
  \/ EndBatch(d)
  \/ \E r \in RowId : Claim(d, r)
  \/ Reread(d)
  \/ CheckRecord(d)
  \/ CheckSuppression(d)
  \/ CheckQuota(d)
  \/ SmtpAccepts(d)
  \/ SmtpRejects(d)
  \/ MarkSent(d)
  \/ LogContact(d)

DispatcherStep(d) == DispatcherProgress(d) \/ MarkSentFails(d) \/ Crash(d)

-----------------------------------------------------------------------------
(* The clock.  A backoff or a day passes; a row being sent becomes stuck   *)
(* once its container is gone, or, as a misfortune, while the container    *)
(* still works on it (a suspended host, a stalled database).               *)
TimerElapses(r) ==
  /\ outbox[r].timer = "running"
  /\ IF outbox[r].status = "sending" /\ \E d \in Dispatcher : Delivering(d) /\ worker[d].row = r
     THEN Spend("slow")
     ELSE UNCHANGED faults
  /\ outbox' = [outbox EXCEPT ![r].timer = "elapsed"]
  /\ UNCHANGED <<record, gone, suppressed, copies, grants, dispatcherVars>>

ExpiryPasses(r) ==
  /\ outbox[r].expires = "ahead"
  /\ outbox' = [outbox EXCEPT ![r].expires = "past"]
  /\ UNCHANGED <<record, gone, suppressed, copies, grants, faults, dispatcherVars>>

DispatcherTypeOK ==
  /\ worker \in [Dispatcher -> Worker]
  /\ contactLog \subseteq RowId

=============================================================================
