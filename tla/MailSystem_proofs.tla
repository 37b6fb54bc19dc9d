------------------------- MODULE MailSystem_proofs -------------------------
(***************************************************************************)
(* Theorems about MailSystem, for any number of containers, requests,      *)
(* triggers, rows and misfortunes.                                         *)
(***************************************************************************)
EXTENDS MailSystem, FiniteSetTheorems, TLAPS

-----------------------------------------------------------------------------
(* Type correctness.                                                       *)

LEMMA BlankRowType == BlankRow \in Row /\ AnySlot \in Slot /\ 1 \in RowId
  <1>1. AnySlot \in Slot
    BY SlotAssumption DEF AnySlot
  <1>. QED
    BY <1>1, ContentAssumption, RowsAssumption
    DEF BlankRow, Row, Status, Key, OwnKey, RowId

LEMMA InsertedType ==
  ASSUME NEW s \in Slot, NEW c \in Content, NEW k \in Key,
         NEW status \in Status, NEW expires \in {"never", "ahead", "past"},
         NEW reason \in {"none", "user", "newer", "expired", "deleted", "issues"}
  PROVE  Inserted(status, s, k, c, expires, reason) \in Row
  BY DEF Inserted, Row

LEMMA OwnKeyType ==
  ASSUME NEW s \in Slot, NEW c \in Content
  PROVE  OwnKey(s, c) \in Key /\ \A r \in RowId : [OwnKey(s, c) EXCEPT !.resend = r] \in Key
  BY RowsAssumption DEF OwnKey, Key, RowId

LEMMA GrantType ==
  ASSUME TypeOK, NEW S, Grant(S)
  PROVE  grants' \in [RowId -> Nat]
  BY DEF Grant, TypeOK, OutboxTypeOK

LEMMA SpendType ==
  ASSUME TypeOK, NEW kind \in FaultKind, Spend(kind)
  PROVE  faults' \in [FaultKind -> Nat]
  BY DEF Spend, TypeOK, OutboxTypeOK

(* What the UPDATE statements set leaves a row a row.                      *)
LEMMA RowStatus ==
  ASSUME NEW row \in Row, NEW status \in Status
  PROVE  [row EXCEPT !.status = status] \in Row
  BY DEF Row

LEMMA RowReason ==
  ASSUME NEW row \in Row,
         NEW reason \in {"none", "user", "newer", "expired", "deleted", "issues"}
  PROVE  [row EXCEPT !.reason = reason] \in Row
  BY DEF Row

LEMMA RowTimer ==
  ASSUME NEW row \in Row, NEW timer \in {"running", "elapsed"}
  PROVE  [row EXCEPT !.timer = timer] \in Row
  BY DEF Row

LEMMA RowAttempts ==
  ASSUME NEW row \in Row, NEW attempts \in Nat
  PROVE  [row EXCEPT !.attempts = attempts] \in Row
  BY DEF Row

LEMMA RowPurged ==
  ASSUME NEW row \in Row
  PROVE  [row EXCEPT !.body = FALSE,
            !.timer = IF row.status = "sending" THEN "running" ELSE @] \in Row
  BY DEF Row

(* An UPDATE by id keeps the table well-typed.                             *)
LEMMA WriteType ==
  ASSUME TypeOK, NEW r \in RowId, NEW status \in Status,
         NEW timer \in {"running", "elapsed"},
         NEW reason \in {"none", "user", "newer", "expired", "deleted", "issues"},
         Write(r, status, timer, reason)
  PROVE  outbox' \in [RowId -> Row]
  <1>. DEFINE new == [outbox[r] EXCEPT !.status = status, !.timer = timer, !.reason = reason]
  <1>1. new \in Row
    BY DEF TypeOK, OutboxTypeOK, Row
  <1>2. outbox' = [outbox EXCEPT ![r] = new]
    BY DEF Write, TypeOK, OutboxTypeOK
  <1>. QED
    BY <1>1, <1>2 DEF TypeOK, OutboxTypeOK

LEMMA GotoType ==
  ASSUME TypeOK, NEW d \in Dispatcher,
         NEW place \in {"idle", "recover", "purge", "select", "batch", "reread",
                        "record", "suppression", "quota", "smtp", "mark", "log"},
         Goto(d, place)
  PROVE  worker' \in [Dispatcher -> Worker]
  BY DEF Goto, TypeOK, DispatcherTypeOK, Worker

LEMMA NextInBatchType ==
  ASSUME TypeOK, NEW d \in Dispatcher, NextInBatch(d)
  PROVE  worker' \in [Dispatcher -> Worker]
  BY BlankRowType DEF NextInBatch, IdleWorker, TypeOK, DispatcherTypeOK, Worker

LEMMA InitType == Init => TypeOK
  <1>. SUFFICES ASSUME Init PROVE TypeOK
    OBVIOUS
  <1>1. OutboxTypeOK
    BY BlankRowType, ContentAssumption, FaultAssumption
    DEF Init, OutboxInit, OutboxTypeOK
  <1>2. DispatcherTypeOK
    BY BlankRowType DEF Init, DispatcherInit, DispatcherTypeOK, Worker, IdleWorker
  <1>3. ServiceTypeOK
    BY BlankRowType, ContentAssumption, EditsAssumption
    DEF Init, ServiceInit, ServiceTypeOK, Request, TriggerRun, IdleRequest, IdleTrigger
  <1>. QED
    BY <1>1, <1>2, <1>3 DEF TypeOK

LEMMA DispatcherType ==
  ASSUME TypeOK, NEW d \in Dispatcher, DispatcherStep(d), UNCHANGED serviceVars
  PROVE  TypeOK'
  <1>. USE DEF TypeOK, OutboxTypeOK, DispatcherTypeOK
  <1>0. ServiceTypeOK'
    BY DEF ServiceTypeOK, serviceVars
  <1>r. worker[d] \in Worker /\ worker[d].row \in RowId
    BY DEF Worker
  <1>1. CASE ExpireDrafts(d)
    <2>1. outbox' \in [RowId -> Row]
      <3>1. \A r \in RowId :
              [outbox[r] EXCEPT !.status = "cancelled", !.reason = "expired"] \in Row
        BY RowReason, RowStatus DEF Status
      <3>. QED
        BY <3>1, <1>1 DEF ExpireDrafts
    <2>. QED
      BY <2>1, <1>0, <1>1, GotoType, NextInBatchType DEF ExpireDrafts
  <1>2. CASE RecoverStuck(d)
    <2>1. outbox' \in [RowId -> Row]
      <3>1. \A r \in RowId : [outbox[r] EXCEPT !.status = "pending"] \in Row
        BY RowStatus DEF Status
      <3>. QED
        BY <3>1, <1>2 DEF RecoverStuck
    <2>2. grants' \in [RowId -> Nat]
      BY <1>2, GrantType DEF RecoverStuck
    <2>. QED
      BY <2>1, <2>2, <1>0, <1>2, GotoType, NextInBatchType DEF RecoverStuck
  <1>3. CASE PurgeOldBodies(d)
    <2>1. outbox' \in [RowId -> Row]
      <3>1. \A r \in RowId :
              [outbox[r] EXCEPT !.body = FALSE,
                 !.timer = IF outbox[r].status = "sending" THEN "running" ELSE @] \in Row
        BY RowPurged
      <3>. QED
        BY <3>1, <1>3 DEF PurgeOldBodies
    <2>3. faults' \in [FaultKind -> Nat]
      BY <1>3, SpendType, FaultAssumption DEF PurgeOldBodies
    <2>2. worker' \in [Dispatcher -> Worker]
      BY <1>3, GotoType, NextInBatchType DEF PurgeOldBodies
    <2>. QED
      BY <2>1, <2>2, <2>3, <1>0, <1>3 DEF PurgeOldBodies
  <1>4. CASE SelectDue(d)
    <2>. DEFINE batch == {r \in Due : Cardinality({q \in Due : q < r}) < BatchSize}
                new   == [worker[d] EXCEPT !.at = "batch", !.batch = batch]
    <2>1. batch \in SUBSET RowId
      BY DEF Due, RowsWith
    <2>2. new \in Worker
      BY <2>1 DEF Worker
    <2>3. worker' = [worker EXCEPT ![d] = new]
      BY <1>4 DEF SelectDue
    <2>. QED
      BY <2>2, <2>3, <1>0, <1>4 DEF SelectDue, outboxVars
  <1>5. CASE EndBatch(d)
    BY <1>0, <1>5, GotoType, NextInBatchType DEF EndBatch, outboxVars
  <1>6. ASSUME NEW r \in RowId, Claim(d, r) PROVE TypeOK'
    <2>1. outbox' \in [RowId -> Row]
      BY <1>6 DEF Claim, Row, Status
    <2>2. worker' \in [Dispatcher -> Worker]
      BY <1>6 DEF Claim, Worker
    <2>. QED
      BY <2>1, <2>2, <1>0, <1>6 DEF Claim
  <1>7. CASE Reread(d)
    <2>1. worker' \in [Dispatcher -> Worker]
      BY <1>7, <1>r DEF Reread, Worker, Row
    <2>. QED
      BY <2>1, <1>0, <1>7 DEF Reread, outboxVars
  <1>8. CASE CheckRecord(d)
    BY <1>0, <1>r, <1>8, GotoType, NextInBatchType, WriteType DEF CheckRecord, Status
  <1>9. CASE CheckSuppression(d)
    BY <1>0, <1>r, <1>9, GotoType, NextInBatchType, WriteType DEF CheckSuppression, Status
  <1>10. CASE CheckQuota(d)
    <2>1. outbox' \in [RowId -> Row]
      <3>. DEFINE r      == worker[d].row
                  refund == IF worker[d].attempts = 0 THEN 0 ELSE worker[d].attempts - 1
                  new    == [outbox[r] EXCEPT !.status = "pending", !.attempts = refund,
                                              !.timer = "running", !.reason = "none"]
      <3>1. refund \in Nat
        BY DEF Worker
      <3>2. new \in Row
        BY <1>r, <3>1, RowStatus, RowAttempts, RowTimer, RowReason DEF Status
      <3>3. outbox' = outbox \/ outbox' = [outbox EXCEPT ![r] = new]
        BY <1>r, <1>10 DEF CheckQuota
      <3>. QED
        BY <1>r, <3>2, <3>3
    <2>. QED
      BY <2>1, <1>0, <1>10, GotoType, NextInBatchType DEF CheckQuota
  <1>11. CASE SmtpAccepts(d)
    <2>1. copies' \in [RowId -> Nat]
      BY <1>r, <1>11 DEF SmtpAccepts
    <2>. QED
      BY <2>1, <1>0, <1>11, GotoType, NextInBatchType DEF SmtpAccepts
  <1>12. CASE SmtpRejects(d)
    BY <1>0, <1>r, <1>12, GotoType, NextInBatchType, WriteType DEF SmtpRejects, AfterError, Status
  <1>13. CASE MarkSent(d)
    BY <1>0, <1>r, <1>13, GotoType, NextInBatchType, WriteType DEF MarkSent, Status
  <1>14. CASE LogContact(d)
    BY <1>0, <1>r, <1>14, GotoType, NextInBatchType DEF LogContact, outboxVars
  <1>15. CASE MarkSentFails(d)
    <2>1. outbox' \in [RowId -> Row] /\ worker' \in [Dispatcher -> Worker]
      BY <1>r, <1>15, GotoType, NextInBatchType, WriteType DEF MarkSentFails, AfterError, Status
    <2>2. grants' \in [RowId -> Nat] /\ faults' \in [FaultKind -> Nat]
      BY <1>15, GrantType, SpendType, FaultAssumption DEF MarkSentFails
    <2>. QED
      BY <2>1, <2>2, <1>0, <1>15 DEF MarkSentFails
  <1>16. CASE Crash(d)
    <2>1. worker' \in [Dispatcher -> Worker]
      BY <1>16, BlankRowType DEF Crash, IdleWorker, Worker
    <2>2. faults' \in [FaultKind -> Nat]
      BY <1>16, SpendType, FaultAssumption DEF Crash
    <2>. QED
      BY <2>1, <2>2, <1>0, <1>16 DEF Crash
  <1>. QED
    BY <1>1, <1>2, <1>3, <1>4, <1>5, <1>6, <1>7, <1>8, <1>9, <1>10, <1>11, <1>12,
       <1>13, <1>14, <1>15, <1>16
    DEF DispatcherStep, DispatcherProgress

LEMMA ClockType ==
  ASSUME TypeOK, NEW r \in RowId, TimerElapses(r) \/ ExpiryPasses(r), UNCHANGED serviceVars
  PROVE  TypeOK'
  <1>. USE DEF TypeOK, OutboxTypeOK, DispatcherTypeOK
  <1>0. ServiceTypeOK'
    BY DEF ServiceTypeOK, serviceVars
  <1>1. outbox' \in [RowId -> Row]
    <2>1. [outbox[r] EXCEPT !.timer = "elapsed"] \in Row /\ [outbox[r] EXCEPT !.expires = "past"] \in Row
      BY DEF Row
    <2>. QED
      BY <2>1 DEF TimerElapses, ExpiryPasses
  <1>2. faults' \in [FaultKind -> Nat]
    BY SpendType, FaultAssumption DEF TimerElapses, ExpiryPasses
  <1>. QED
    BY <1>0, <1>1, <1>2 DEF TimerElapses, ExpiryPasses, dispatcherVars

LEMMA RowQueued ==
  ASSUME NEW row \in Row, NEW c \in Content
  PROVE  [row EXCEPT !.status = "pending", !.content = c, !.body = TRUE,
                     !.expires = "never", !.reason = "none"] \in Row
  BY DEF Row, Status

LEMMA RequestPreviewed ==
  ASSUME NEW q \in Request, NEW via \in {"send", "draft", "compose"}, NEW s \in Slot,
         NEW r \in RowId, NEW c \in Content
  PROVE  [q EXCEPT !.at = "previewed", !.via = via, !.slot = s, !.row = r, !.content = c] \in Request
  BY DEF Request

LEMMA RequestMoved ==
  ASSUME NEW q \in Request, NEW r \in RowId, NEW again \in BOOLEAN,
         NEW at \in {"idle", "previewed", "composed", "queue", "insert", "retry"}
  PROVE  /\ [q EXCEPT !.at = at, !.row = r] \in Request
         /\ [q EXCEPT !.at = at, !.again = again] \in Request
  BY DEF Request

LEMMA RequestType ==
  ASSUME TypeOK, NEW c \in Clerk, NEW new \in Request, request' = [request EXCEPT ![c] = new]
  PROVE  request' \in [Clerk -> Request]
  BY DEF TypeOK, ServiceTypeOK

LEMMA AnswerType ==
  ASSUME TypeOK, NEW c \in Clerk, Answer(c)
  PROVE  request' \in [Clerk -> Request]
  BY BlankRowType, ContentAssumption
  DEF Answer, IdleRequest, TypeOK, ServiceTypeOK, Request

LEMMA ReturnType ==
  ASSUME TypeOK, NEW t \in Trigger, Return(t)
  PROVE  trigger' \in [Trigger -> TriggerRun]
  BY BlankRowType, ContentAssumption
  DEF Return, IdleTrigger, TypeOK, ServiceTypeOK, TriggerRun

LEMMA ClerkType ==
  ASSUME TypeOK, NEW c \in Clerk, UNCHANGED dispatcherVars,
         \/ \E s \in Slot, via \in {"send", "compose"} : Preview(c, s, via)
         \/ \E r \in RowId : PreviewDraft(c, r)
         \/ Compose(c)
         \/ FindDraft(c)
         \/ QueueDraft(c)
         \/ CheckKey(c)
         \/ InsertPending(c)
         \/ \E r \in RowId : Cancel(c, r) \/ RetryRead(c, r)
         \/ RetryWrite(c)
  PROVE  TypeOK'
  <1>0. DispatcherTypeOK'
    BY DEF TypeOK, DispatcherTypeOK, dispatcherVars
  <1>r. /\ request[c] \in Request
        /\ request[c].row \in RowId
        /\ request[c].slot \in Slot
        /\ request[c].content \in Content
    BY DEF TypeOK, ServiceTypeOK, Request
  <1>u. ASSUME UNCHANGED <<outboxVars, trigger, edits, past, overtaken>>, request' \in [Clerk -> Request]
        PROVE  TypeOK'
    BY <1>u, <1>0 DEF TypeOK, OutboxTypeOK, ServiceTypeOK, outboxVars
  <1>w. ASSUME outbox' \in [RowId -> Row], grants' \in [RowId -> Nat],
               request' \in [Clerk -> Request],
               overtaken' \subseteq RowId,
               UNCHANGED <<record, gone, suppressed, copies, faults, trigger, edits, past>>
        PROVE  TypeOK'
    BY <1>w, <1>0 DEF TypeOK, OutboxTypeOK, ServiceTypeOK
  <1>o. overtaken \subseteq RowId
    BY DEF TypeOK, ServiceTypeOK
  <1>1. ASSUME NEW s \in Slot, NEW via \in {"send", "compose"}, Preview(c, s, via)
        PROVE  TypeOK'
    <2>1. record[s] \in Content
      BY DEF TypeOK, OutboxTypeOK
    <2>2. request' \in [Clerk -> Request]
      <3>. DEFINE new == [request[c] EXCEPT !.at = "previewed", !.via = via, !.slot = s,
                                            !.row = request[c].row, !.content = record[s]]
      <3>1. new \in Request
        BY <1>r, <2>1, RequestPreviewed
      <3>2. request' = [request EXCEPT ![c] = new]
        BY <1>1, <1>r DEF Preview, Request
      <3>. QED
        BY <3>1, <3>2, RequestType
    <2>. QED
      BY <1>1, <1>u, <2>2 DEF Preview
  <1>2. ASSUME NEW r \in RowId, PreviewDraft(c, r) PROVE TypeOK'
    <2>1. outbox[r].slot \in Slot /\ record[outbox[r].slot] \in Content
      BY DEF TypeOK, OutboxTypeOK, Row
    <2>2. request' \in [Clerk -> Request]
      <3>. DEFINE s   == outbox[r].slot
                  new == [request[c] EXCEPT !.at = "previewed", !.via = "draft", !.slot = s,
                                            !.row = r, !.content = record[s]]
      <3>1. new \in Request
        BY <1>r, <2>1, RequestPreviewed
      <3>2. request' = [request EXCEPT ![c] = new]
        BY <1>2, <1>r DEF PreviewDraft
      <3>. QED
        BY <3>1, <3>2, RequestType
    <2>. QED
      BY <1>2, <1>u, <2>2 DEF PreviewDraft
  <1>3. CASE Compose(c)
    <2>1. request' \in [Clerk -> Request]
      <3>1. CASE Answer(c)
        BY <3>1, AnswerType
      <3>2. CASE request' = [request EXCEPT ![c].at =
                               IF request[c].via = "draft" THEN "queue" ELSE "composed"]
        BY <3>2 DEF TypeOK, ServiceTypeOK, Request
      <3>. QED
        BY <3>1, <3>2, <1>3 DEF Compose
    <2>. QED
      BY <1>3, <1>u, <2>1 DEF Compose
  <1>4. CASE FindDraft(c)
    <2>1. PICK r \in RowId : request' = [request EXCEPT ![c].at = "queue", ![c].row = r]
      BY <1>4 DEF FindDraft, Drafts, RowsWith
    <2>. DEFINE new == [request[c] EXCEPT !.at = "queue", !.row = r]
    <2>2. new \in Request /\ request' = [request EXCEPT ![c] = new]
      BY <1>r, <2>1, RequestMoved
    <2>3. request' \in [Clerk -> Request]
      BY <2>2, RequestType
    <2>. QED
      BY <1>4, <1>u, <2>3 DEF FindDraft
  <1>5. CASE QueueDraft(c)
    <2>. DEFINE r   == request[c].row
                new == [outbox[r] EXCEPT !.status = "pending", !.content = request[c].content,
                                         !.body = TRUE, !.expires = "never", !.reason = "none"]
    <2>1. new \in Row
      BY <1>r, RowQueued DEF TypeOK, OutboxTypeOK
    <2>2. outbox' = outbox \/ outbox' = [outbox EXCEPT ![r] = new]
      BY <1>r, <1>5 DEF QueueDraft
    <2>3. outbox' \in [RowId -> Row]
      BY <1>r, <2>1, <2>2 DEF TypeOK, OutboxTypeOK
    <2>4. grants' \in [RowId -> Nat]
      BY <1>5, GrantType DEF QueueDraft, TypeOK, OutboxTypeOK
    <2>. QED
      BY <1>5, <1>o, <1>w, <2>3, <2>4, AnswerType DEF QueueDraft
  <1>6. CASE CheckKey(c)
    <2>1. KeyTaken(OwnKey(request[c].slot, request[c].content)) \in BOOLEAN
      BY DEF KeyTaken
    <2>2. request' \in [Clerk -> Request]
      <3>. DEFINE new == [request[c] EXCEPT !.at = "insert",
                            !.again = KeyTaken(OwnKey(request[c].slot, request[c].content))]
      <3>1. new \in Request
        BY <1>r, <2>1, RequestMoved
      <3>2. request' = [request EXCEPT ![c] = new]
        BY <1>6 DEF CheckKey
      <3>. QED
        BY <3>1, <3>2, RequestType
    <2>. QED
      BY <1>6, <1>u, <2>2 DEF CheckKey
  <1>7. CASE InsertPending(c)
    <2>. DEFINE own == OwnKey(request[c].slot, request[c].content)
    <2>1. outbox' \in [RowId -> Row]
      <3>1. CASE UNCHANGED outbox
        BY <3>1 DEF TypeOK, OutboxTypeOK
      <3>2. ASSUME NEW r \in RowId,
                   outbox' = [outbox EXCEPT ![r] = Inserted("pending", request[c].slot,
                      IF request[c].again THEN [own EXCEPT !.resend = r] ELSE own,
                      request[c].content, "never", "none")]
            PROVE  outbox' \in [RowId -> Row]
        <4>. DEFINE k == IF request[c].again THEN [own EXCEPT !.resend = r] ELSE own
        <4>1. k \in Key
          BY <1>r, OwnKeyType
        <4>2. Inserted("pending", request[c].slot, k, request[c].content, "never", "none") \in Row
          BY <1>r, <4>1, InsertedType DEF Status
        <4>. QED
          BY <3>2, <4>2 DEF TypeOK, OutboxTypeOK
      <3>. QED
        BY <3>1, <3>2, <1>7 DEF InsertPending
    <2>2. grants' \in [RowId -> Nat]
      BY <1>7, GrantType DEF InsertPending, TypeOK, OutboxTypeOK
    <2>. QED
      BY <1>7, <1>o, <1>w, <2>1, <2>2, AnswerType DEF InsertPending
  <1>8. ASSUME NEW r \in RowId, Cancel(c, r) PROVE TypeOK'
    <2>1. Write(r, "cancelled", "elapsed", "user")
      BY <1>8 DEF Cancel, Write
    <2>2. outbox' \in [RowId -> Row]
      BY <2>1, WriteType DEF Status
    <2>3. request' \in [Clerk -> Request] /\ grants' \in [RowId -> Nat]
      BY <1>8 DEF Cancel, serviceVars, TypeOK, ServiceTypeOK, OutboxTypeOK
    <2>. QED
      BY <1>8, <1>o, <1>w, <2>2, <2>3 DEF Cancel, serviceVars
  <1>9. ASSUME NEW r \in RowId, RetryRead(c, r) PROVE TypeOK'
    <2>1. request' \in [Clerk -> Request]
      BY <1>9 DEF RetryRead, TypeOK, ServiceTypeOK, Request
    <2>. QED
      BY <1>9, <1>u, <2>1 DEF RetryRead
  <1>10. CASE RetryWrite(c)
    <2>. DEFINE r   == request[c].row
                new == [outbox[r] EXCEPT !.status = "pending", !.attempts = 0,
                                         !.timer = "elapsed", !.reason = "none"]
    <2>1. new \in Row
      BY <1>r, RowStatus, RowAttempts, RowTimer, RowReason DEF TypeOK, OutboxTypeOK, Status
    <2>2. outbox' = [outbox EXCEPT ![r] = new]
      BY <1>r, <1>10 DEF RetryWrite
    <2>3. outbox' \in [RowId -> Row]
      BY <1>r, <2>1, <2>2 DEF TypeOK, OutboxTypeOK
    <2>4. grants' \in [RowId -> Nat]
      BY <1>10, GrantType DEF RetryWrite
    <2>5. overtaken' \subseteq RowId
      BY <1>10, <1>o, <1>r DEF RetryWrite
    <2>. QED
      BY <1>10, <1>w, <2>3, <2>4, <2>5, AnswerType DEF RetryWrite
  <1>. QED
    BY <1>1, <1>2, <1>3, <1>4, <1>5, <1>6, <1>7, <1>8, <1>9, <1>10

LEMMA TriggerType ==
  ASSUME TypeOK, NEW t \in Trigger, UNCHANGED dispatcherVars,
         \/ \E s \in Slot, c \in Content : EditRecord(t, s, c)
         \/ TriggerCompose(t)
         \/ TriggerCheckKey(t)
         \/ ReplaceDrafts(t)
         \/ TriggerInsert(t)
         \/ TriggerFails(t)
  PROVE  TypeOK'
  <1>0. DispatcherTypeOK'
    BY DEF TypeOK, DispatcherTypeOK, dispatcherVars
  <1>t. trigger[t] \in TriggerRun /\ trigger[t].slot \in Slot /\ trigger[t].content \in Content
    BY DEF TypeOK, ServiceTypeOK, TriggerRun
  <1>u. ASSUME UNCHANGED <<outboxVars, request, edits, past, overtaken>>, trigger' \in [Trigger -> TriggerRun]
        PROVE  TypeOK'
    BY <1>u, <1>0 DEF TypeOK, OutboxTypeOK, ServiceTypeOK, outboxVars
  <1>1. ASSUME NEW s \in Slot, NEW c \in Content, EditRecord(t, s, c) PROVE TypeOK'
    <2>1. record' \in [Slot -> Content]
      BY <1>1 DEF EditRecord, TypeOK, OutboxTypeOK
    <2>4. edits \in 0..MaxEdits /\ edits > 0 /\ edits' = edits - 1
      BY <1>1 DEF EditRecord, TypeOK, ServiceTypeOK
    <2>3. edits' \in 0..MaxEdits
      BY <2>4, EditsAssumption
    <2>2. trigger' \in [Trigger -> TriggerRun]
      BY <1>1 DEF EditRecord, TypeOK, ServiceTypeOK, TriggerRun
    <2>5. past' \in [Slot -> SUBSET Content]
      <3>1. past \in [Slot -> SUBSET Content] /\ record[s] \in Content
        BY DEF TypeOK, OutboxTypeOK, ServiceTypeOK
      <3>2. (IF c = record[s] THEN past[s] ELSE past[s] \union {record[s]}) \in SUBSET Content
        BY <3>1
      <3>. QED
        BY <1>1, <3>1, <3>2 DEF EditRecord
    <2>. QED
      BY <1>0, <1>1, <2>1, <2>2, <2>3, <2>5 DEF EditRecord, TypeOK, OutboxTypeOK, ServiceTypeOK
  <1>2. CASE TriggerCompose(t)
    <2>1. trigger' \in [Trigger -> TriggerRun]
      <3>1. CASE Return(t)
        BY <3>1, ReturnType
      <3>2. CASE trigger' = [trigger EXCEPT ![t].at = "composed",
                               ![t].content = record[trigger[t].slot],
                               ![t].clean = Sendable(trigger[t].slot, record[trigger[t].slot])]
        <4>1. record[trigger[t].slot] \in Content
          BY <1>t DEF TypeOK, OutboxTypeOK
        <4>2. Sendable(trigger[t].slot, record[trigger[t].slot]) \in BOOLEAN
          BY DEF Sendable
        <4>. QED
          BY <3>2, <4>1, <4>2 DEF TypeOK, ServiceTypeOK, TriggerRun
      <3>. QED
        BY <3>1, <3>2, <1>2 DEF TriggerCompose
    <2>. QED
      BY <1>2, <1>u, <2>1 DEF TriggerCompose
  <1>3. CASE TriggerCheckKey(t)
    <2>1. trigger' \in [Trigger -> TriggerRun]
      <3>1. CASE Return(t)
        BY <3>1, ReturnType
      <3>2. CASE trigger' = [trigger EXCEPT ![t].at = "new"]
        BY <3>2 DEF TypeOK, ServiceTypeOK, TriggerRun
      <3>. QED
        BY <3>1, <3>2, <1>3 DEF TriggerCheckKey
    <2>. QED
      BY <1>3, <1>u, <2>1 DEF TriggerCheckKey
  <1>4. CASE ReplaceDrafts(t)
    <2>1. outbox' \in [RowId -> Row]
      <3>1. \A r \in RowId :
              [outbox[r] EXCEPT !.status = "cancelled", !.reason = "newer"] \in Row
        BY RowStatus, RowReason DEF TypeOK, OutboxTypeOK, Status
      <3>. QED
        BY <3>1, <1>4 DEF ReplaceDrafts, TypeOK, OutboxTypeOK
    <2>2. trigger' \in [Trigger -> TriggerRun]
      BY <1>4 DEF ReplaceDrafts, TypeOK, ServiceTypeOK, TriggerRun
    <2>. QED
      BY <1>0, <1>4, <2>1, <2>2 DEF ReplaceDrafts, TypeOK, OutboxTypeOK, ServiceTypeOK
  <1>5. CASE TriggerInsert(t)
    <2>1. outbox' \in [RowId -> Row]
      <3>1. \A expires \in {"never", "ahead"} : TriggerRow(t, expires) \in Row
        BY <1>t, OwnKeyType, InsertedType DEF TriggerRow, Status, TriggerRun
      <3>. QED
        BY <3>1, <1>5 DEF TriggerInsert, TypeOK, OutboxTypeOK
    <2>2. grants' \in [RowId -> Nat]
      BY <1>5, GrantType DEF TriggerInsert, TypeOK, OutboxTypeOK
    <2>3. trigger' \in [Trigger -> TriggerRun]
      BY <1>5, ReturnType DEF TriggerInsert
    <2>. QED
      BY <1>0, <1>5, <2>1, <2>2, <2>3 DEF TriggerInsert, TypeOK, OutboxTypeOK, ServiceTypeOK
  <1>6. CASE TriggerFails(t)
    <2>1. faults' \in [FaultKind -> Nat]
      BY <1>6, SpendType, FaultAssumption DEF TriggerFails
    <2>2. trigger' \in [Trigger -> TriggerRun]
      BY <1>6, ReturnType DEF TriggerFails
    <2>. QED
      BY <1>0, <1>6, <2>1, <2>2 DEF TriggerFails, TypeOK, OutboxTypeOK, ServiceTypeOK
  <1>. QED
    BY <1>1, <1>2, <1>3, <1>4, <1>5, <1>6

LEMMA SlotType ==
  ASSUME TypeOK, NEW s \in Slot, UNCHANGED dispatcherVars,
         AddSuppression(s) \/ RemoveSuppression(s) \/ DeleteRecord(s)
  PROVE  TypeOK'
  <1>1. DispatcherTypeOK' /\ ServiceTypeOK'
    BY DEF AddSuppression, RemoveSuppression, DeleteRecord, serviceVars, dispatcherVars,
           TypeOK, DispatcherTypeOK, ServiceTypeOK
  <1>2. faults' \in [FaultKind -> Nat]
    BY SpendType, FaultAssumption
    DEF AddSuppression, RemoveSuppression, DeleteRecord, TypeOK, OutboxTypeOK
  <1>. QED
    BY <1>1, <1>2
    DEF AddSuppression, RemoveSuppression, DeleteRecord, TypeOK, OutboxTypeOK

LEMMA NextType == TypeOK /\ [Next]_vars => TypeOK'
  <1>. SUFFICES ASSUME TypeOK, [Next]_vars PROVE TypeOK'
    OBVIOUS
  <1>1. CASE UNCHANGED vars
    BY <1>1 DEF vars, outboxVars, dispatcherVars, serviceVars, TypeOK, OutboxTypeOK,
                DispatcherTypeOK, ServiceTypeOK
  <1>2. CASE Next
    BY <1>2, DispatcherType, ClockType, ClerkType, TriggerType, SlotType DEF Next, ServiceStep
  <1>. QED
    BY <1>1, <1>2

(* The mail pipeline's state always has its type: no attempt count goes    *)
(* below zero, and no bookkeeping points at a row that cannot exist.       *)
THEOREM TypesOK == Spec => []TypeOK
  BY InitType, NextType, PTL DEF Spec

-----------------------------------------------------------------------------
(* Copies against grants.  A copy is made by a container that holds the    *)
(* row, the row is held by a container that claimed it, and claimed when   *)
(* it was pending: a grant is therefore spent once at most, as a copy, as  *)
(* a delivery in progress, or as a place in the queue.                     *)

Mine(d, r) == IF Unaccepted(d) /\ worker[d].row = r THEN 1 ELSE 0

LEMMA HoldersFinite ==
  \A r : IsFiniteSet(Holders(r)) /\ Cardinality(Holders(r)) \in Nat
  BY DispatcherAssumption, FS_Subset, FS_CardinalityType DEF Holders

(* A step of one container changes the number of a row's holders by that   *)
(* container's part only.                                                  *)
LEMMA HoldersChange ==
  ASSUME NEW d \in Dispatcher, NEW r \in RowId,
         \A e \in Dispatcher \ {d} : worker'[e] = worker[e]
  PROVE  Cardinality(Holders(r))' = Cardinality(Holders(r)) - Mine(d, r) + Mine(d, r)'
  <1>. DEFINE others == Holders(r) \ {d}
  <1>1. others = Holders(r)' \ {d}
    BY DEF Holders, Unaccepted, Delivering, At
  <1>2. IsFiniteSet(Holders(r)) /\ IsFiniteSet(Holders(r)')
    BY DispatcherAssumption, FS_Subset DEF Holders
  <1>3. Cardinality(Holders(r)) = Cardinality(others) + Mine(d, r)
    <2>0. Cardinality(Holders(r)) \in Nat
      BY <1>2, FS_CardinalityType
    <2>1. CASE d \in Holders(r)
      <3>1. Mine(d, r) = 1
        BY <2>1 DEF Mine, Holders
      <3>2. Cardinality(Holders(r) \ {d}) = Cardinality(Holders(r)) - 1
        BY <1>2, <2>1, FS_RemoveElement
      <3>. QED
        BY <2>0, <3>1, <3>2
    <2>2. CASE d \notin Holders(r)
      <3>1. Mine(d, r) = 0
        BY <2>2 DEF Mine, Holders
      <3>2. Holders(r) \ {d} = Holders(r)
        BY <2>2
      <3>. QED
        BY <2>0, <3>1, <3>2
    <2>. QED
      BY <2>1, <2>2
  <1>4. Cardinality(Holders(r)') = Cardinality(Holders(r)' \ {d}) + Mine(d, r)'
    <2>0. Cardinality(Holders(r)') \in Nat
      BY <1>2, FS_CardinalityType
    <2>1. CASE d \in Holders(r)'
      <3>1. Mine(d, r)' = 1
        BY <2>1 DEF Mine, Holders
      <3>2. Cardinality(Holders(r)' \ {d}) = Cardinality(Holders(r)') - 1
        BY <1>2, <2>1, FS_RemoveElement
      <3>. QED
        BY <2>0, <3>1, <3>2
    <2>2. CASE d \notin Holders(r)'
      <3>1. Mine(d, r)' = 0
        BY <2>2 DEF Mine, Holders
      <3>2. Holders(r)' \ {d} = Holders(r)'
        BY <2>2
      <3>. QED
        BY <2>0, <3>1, <3>2
    <2>. QED
      BY <2>1, <2>2
  <1>5. Cardinality(others) \in Nat
    BY <1>2, FS_Subset, FS_CardinalityType
  <1>6. Mine(d, r) \in {0, 1} /\ Mine(d, r)' \in {0, 1}
    BY DEF Mine
  <1>. QED
    BY <1>1, <1>3, <1>4, <1>5, <1>6

(* What a step of container d must respect, row by row.                    *)
LEMMA BalanceKept ==
  ASSUME TypeOK, TypeOK', WithinGrants, NEW d \in Dispatcher,
         \A e \in Dispatcher \ {d} : worker'[e] = worker[e],
         \A r \in RowId :
           copies'[r] + Mine(d, r)' + Queued(r)' - grants'[r]
             <= copies[r] + Mine(d, r) + Queued(r) - grants[r]
  PROVE  WithinGrants'
  <1>. SUFFICES ASSUME NEW r \in RowId
                PROVE  copies'[r] + Cardinality(Holders(r))' + Queued(r)' <= grants'[r]
    BY DEF WithinGrants
  <1>1. Cardinality(Holders(r))' = Cardinality(Holders(r)) - Mine(d, r) + Mine(d, r)'
    BY HoldersChange
  <1>2. /\ Cardinality(Holders(r)) \in Nat
        /\ copies[r] \in Nat /\ copies'[r] \in Nat
        /\ grants[r] \in Nat /\ grants'[r] \in Nat
    BY HoldersFinite DEF TypeOK, OutboxTypeOK
  <1>3. /\ Mine(d, r) \in {0, 1} /\ Mine(d, r)' \in {0, 1}
        /\ Queued(r) \in {0, 1} /\ Queued(r)' \in {0, 1}
    BY DEF Mine, Queued
  <1>4. copies[r] + Cardinality(Holders(r)) + Queued(r) <= grants[r]
    BY DEF WithinGrants
  <1>5. copies'[r] + Mine(d, r)' + Queued(r)' - grants'[r]
          <= copies[r] + Mine(d, r) + Queued(r) - grants[r]
    OBVIOUS
  <1>. QED
    BY <1>1, <1>2, <1>3, <1>4, <1>5

(* The same for a step that leaves the containers alone.                   *)
LEMMA QueueKept ==
  ASSUME TypeOK, TypeOK', WithinGrants, UNCHANGED <<worker, copies>>,
         \A r \in RowId : Queued(r)' - grants'[r] <= Queued(r) - grants[r]
  PROVE  WithinGrants'
  <1>. SUFFICES ASSUME NEW r \in RowId
                PROVE  copies'[r] + Cardinality(Holders(r))' + Queued(r)' <= grants'[r]
    BY DEF WithinGrants
  <1>1. Cardinality(Holders(r))' = Cardinality(Holders(r))
    BY DEF Holders, Unaccepted, Delivering, At
  <1>2. /\ Cardinality(Holders(r)) \in Nat
        /\ copies[r] \in Nat /\ grants[r] \in Nat /\ grants'[r] \in Nat
        /\ Queued(r) \in {0, 1} /\ Queued(r)' \in {0, 1}
    BY HoldersFinite DEF TypeOK, OutboxTypeOK, Queued
  <1>3. copies[r] + Cardinality(Holders(r)) + Queued(r) <= grants[r]
    BY DEF WithinGrants
  <1>4. Queued(r)' - grants'[r] <= Queued(r) - grants[r]
    OBVIOUS
  <1>. QED
    BY <1>1, <1>2, <1>3, <1>4

(* Where a container is tells whether it holds the row in its hands.       *)
LEMMA HoldsByPlace ==
  ASSUME NEW d \in Dispatcher
  PROVE  /\ Unaccepted(d) <=> worker[d].at \in {"reread", "record", "suppression", "quota", "smtp"}
         /\ Unaccepted(d)' <=> worker'[d].at \in {"reread", "record", "suppression", "quota", "smtp"}
  BY DEF Unaccepted, Delivering, At

LEMMA Moves ==
  ASSUME TypeOK, NEW d \in Dispatcher
  PROVE  /\ \A place : Goto(d, place) =>
              /\ worker'[d].at = place
              /\ worker'[d].row = worker[d].row
              /\ \A e \in Dispatcher \ {d} : worker'[e] = worker[e]
         /\ NextInBatch(d) =>
              /\ worker'[d].at = "batch"
              /\ \A e \in Dispatcher \ {d} : worker'[e] = worker[e]
  <1>1. ASSUME NEW place, Goto(d, place)
        PROVE  /\ worker'[d].at = place
               /\ worker'[d].row = worker[d].row
               /\ \A e \in Dispatcher \ {d} : worker'[e] = worker[e]
    <2>1. worker' = [worker EXCEPT ![d] = [worker[d] EXCEPT !.at = place]]
      BY <1>1 DEF Goto
    <2>2. worker[d] \in Worker
      BY DEF TypeOK, DispatcherTypeOK
    <2>. QED
      BY <2>1, <2>2 DEF TypeOK, DispatcherTypeOK, Worker
  <1>2. ASSUME NextInBatch(d)
        PROVE  /\ worker'[d].at = "batch"
               /\ \A e \in Dispatcher \ {d} : worker'[e] = worker[e]
    BY <1>2 DEF NextInBatch, IdleWorker, TypeOK, DispatcherTypeOK
  <1>. QED
    BY <1>1, <1>2

LEMMA Granted ==
  ASSUME TypeOK, NEW S, Grant(S), NEW r \in RowId
  PROVE  grants'[r] = IF r \in S THEN grants[r] + 1 ELSE grants[r]
  BY DEF Grant

(* An UPDATE by id sets one row's place in the queue.                      *)
LEMMA Written ==
  ASSUME TypeOK, NEW q \in RowId, NEW status, NEW timer, NEW reason,
         Write(q, status, timer, reason), NEW r \in RowId
  PROVE  outbox'[r].status = IF r = q THEN status ELSE outbox[r].status
  BY DEF Write, TypeOK, OutboxTypeOK, Row

LEMMA DispatcherWithin ==
  ASSUME TypeOK, TypeOK', WithinGrants, NEW d \in Dispatcher, DispatcherStep(d)
  PROVE  WithinGrants'
  <1>t. /\ worker[d].row \in RowId
        /\ \A r \in RowId : copies[r] \in Nat /\ grants[r] \in Nat
    BY DEF TypeOK, OutboxTypeOK, DispatcherTypeOK, Worker
  <1>q. \A r \in RowId : Queued(r) \in {0, 1} /\ Queued(r)' \in {0, 1}
    BY DEF Queued
  (* A step after which d does not hold a row it did not hold before.      *)
  <1>s. ASSUME \A e \in Dispatcher \ {d} : worker'[e] = worker[e],
               Unaccepted(d)' => Unaccepted(d) /\ worker'[d].row = worker[d].row,
               UNCHANGED copies,
               \A r \in RowId : Queued(r)' - grants'[r] <= Queued(r) - grants[r]
        PROVE  WithinGrants'
    <2>1. \A r \in RowId : /\ Mine(d, r) \in {0, 1} /\ Mine(d, r)' \in {0, 1}
                           /\ Mine(d, r)' <= Mine(d, r)
      BY <1>s DEF Mine
    <2>2. \A r \in RowId : grants'[r] \in Nat
      BY DEF TypeOK, OutboxTypeOK
    <2>3. \A r \in RowId :
            copies'[r] + Mine(d, r)' + Queued(r)' - grants'[r]
              <= copies[r] + Mine(d, r) + Queued(r) - grants[r]
      BY <1>s, <1>t, <1>q, <2>1, <2>2
    <2>. QED
      BY <1>s, <2>3, BalanceKept
  (* A step with which d puts the row it holds back into the queue, or     *)
  (* out of it.                                                            *)
  <1>r. ASSUME \A e \in Dispatcher \ {d} : worker'[e] = worker[e],
               Unaccepted(d), ~Unaccepted(d)',
               UNCHANGED <<copies, grants>>,
               \A r \in RowId \ {worker[d].row} : Queued(r)' = Queued(r)
        PROVE  WithinGrants'
    <2>1. \A r \in RowId : Mine(d, r)' = 0 /\ Mine(d, r) = IF r = worker[d].row THEN 1 ELSE 0
      BY <1>r DEF Mine
    <2>3. \A r \in RowId :
            copies'[r] + Mine(d, r)' + Queued(r)' - grants'[r]
              <= copies[r] + Mine(d, r) + Queued(r) - grants[r]
      BY <1>r, <1>t, <1>q, <2>1
    <2>. QED
      BY <1>r, <2>3, BalanceKept
  <1>1. CASE ExpireDrafts(d)
    <2>0. Goto(d, "recover") /\ UNCHANGED <<copies, grants>>
      BY <1>1 DEF ExpireDrafts
    <2>1. \A r \in RowId : Queued(r)' <= Queued(r)
      <3>. SUFFICES ASSUME NEW r \in RowId PROVE Queued(r)' <= Queued(r)
        OBVIOUS
      <3>1. outbox[r] \in Row
        BY DEF TypeOK, OutboxTypeOK
      <3>2. outbox'[r].status \in {outbox[r].status, "cancelled"}
        BY <1>1, <3>1 DEF ExpireDrafts, Row
      <3>. QED
        BY <3>2 DEF Queued
    <2>2. \A r \in RowId : Queued(r)' - grants'[r] <= Queued(r) - grants[r]
      BY <2>0, <1>t, <1>q, <2>1
    <2>3. ~Unaccepted(d)' /\ \A e \in Dispatcher \ {d} : worker'[e] = worker[e]
      BY <2>0, Moves, HoldsByPlace
    <2>. QED
      BY <2>0, <1>s, <2>2, <2>3
  <1>2. CASE RecoverStuck(d)
    <2>. DEFINE stuck == {r \in RowsWith("sending") : outbox[r].timer = "elapsed"}
    <2>1. \A r \in RowId : r \notin stuck => Queued(r)' = Queued(r)
      BY <1>2 DEF RecoverStuck, Queued, TypeOK, OutboxTypeOK, Row
    <2>2. \A r \in RowId : Queued(r)' - grants'[r] <= Queued(r) - grants[r]
      <3>. SUFFICES ASSUME NEW r \in RowId
                    PROVE  Queued(r)' - grants'[r] <= Queued(r) - grants[r]
        OBVIOUS
      <3>1. grants'[r] = IF r \in stuck THEN grants[r] + 1 ELSE grants[r]
        BY <1>2, Granted DEF RecoverStuck
      <3>. QED
        BY <1>t, <1>q, <2>1, <3>1
    <2>. QED
      BY <1>2, <1>s, <2>2, Moves, HoldsByPlace DEF RecoverStuck
  <1>3. CASE PurgeOldBodies(d)
    <2>0. UNCHANGED <<copies, grants>> /\ \E place \in {"select", "idle"} : Goto(d, place)
      BY <1>3 DEF PurgeOldBodies
    <2>1. \A r \in RowId : outbox'[r].status = outbox[r].status
      <3>1. CASE outbox' = outbox
        BY <3>1
      <3>2. ASSUME NEW old,
                   outbox' = [r \in RowId |-> IF r \in old
                                             THEN [outbox[r] EXCEPT !.body = FALSE,
                                                     !.timer = IF outbox[r].status = "sending"
                                                               THEN "running" ELSE @]
                                             ELSE outbox[r]]
            PROVE  \A r \in RowId : outbox'[r].status = outbox[r].status
        <4>1. \A r \in RowId : outbox[r] \in Row
          BY DEF TypeOK, OutboxTypeOK
        <4>. QED
          BY <3>2, <4>1 DEF Row
      <3>. QED
        BY <1>3, <3>1, <3>2 DEF PurgeOldBodies
    <2>2. \A r \in RowId : Queued(r)' - grants'[r] <= Queued(r) - grants[r]
      BY <2>0, <2>1, <1>t, <1>q DEF Queued
    <2>3. ~Unaccepted(d)' /\ \A e \in Dispatcher \ {d} : worker'[e] = worker[e]
      BY <2>0, Moves, HoldsByPlace
    <2>. QED
      BY <2>0, <2>2, <2>3, <1>s
  <1>4. CASE SelectDue(d) \/ EndBatch(d) \/ LogContact(d)
    <2>1. UNCHANGED <<outbox, copies, grants>>
      BY <1>4 DEF SelectDue, EndBatch, LogContact, outboxVars
    <2>2. \A r \in RowId : Queued(r)' - grants'[r] <= Queued(r) - grants[r]
      BY <2>1, <1>t, <1>q DEF Queued
    <2>3. /\ \A e \in Dispatcher \ {d} : worker'[e] = worker[e]
          /\ worker'[d].at \in {"batch", "idle"}
      BY <1>4, Moves DEF SelectDue, EndBatch, LogContact, TypeOK, DispatcherTypeOK, Worker
    <2>. QED
      BY <2>1, <2>2, <2>3, <1>s, HoldsByPlace
  <1>5. ASSUME NEW q \in RowId, Claim(d, q) PROVE WithinGrants'
    <2>1. \A e \in Dispatcher \ {d} : worker'[e] = worker[e]
      BY <1>5 DEF Claim, TypeOK, DispatcherTypeOK
    <2>2. ~Unaccepted(d)
      BY <1>5, HoldsByPlace DEF Claim, At
    <2>3. CASE outbox[q].status = "pending"
      <3>1. Unaccepted(d)' /\ worker'[d].row = q
        BY <1>5, <2>3, HoldsByPlace DEF Claim, TypeOK, DispatcherTypeOK, Worker
      <3>2. \A r \in RowId : Mine(d, r) = 0 /\ Mine(d, r)' = IF r = q THEN 1 ELSE 0
        BY <2>2, <3>1 DEF Mine
      <3>3. Queued(q) = 1 /\ Queued(q)' = 0 /\ \A r \in RowId \ {q} : Queued(r)' = Queued(r)
        BY <1>5, <2>3 DEF Claim, Queued, TypeOK, OutboxTypeOK, Row
      <3>4. \A r \in RowId :
              copies'[r] + Mine(d, r)' + Queued(r)' - grants'[r]
                <= copies[r] + Mine(d, r) + Queued(r) - grants[r]
        BY <1>5, <1>t, <1>q, <3>2, <3>3 DEF Claim
      <3>. QED
        BY <2>1, <3>4, BalanceKept
    <2>4. CASE outbox[q].status # "pending"
      <3>1. UNCHANGED <<outbox, copies, grants>> /\ ~Unaccepted(d)'
        BY <1>5, <2>4, HoldsByPlace DEF Claim, At, TypeOK, DispatcherTypeOK, Worker
      <3>2. \A r \in RowId : Queued(r)' - grants'[r] <= Queued(r) - grants[r]
        BY <3>1, <1>t, <1>q DEF Queued
      <3>. QED
        BY <2>1, <3>1, <3>2, <1>s
    <2>. QED
      BY <2>3, <2>4
  <1>6. CASE Reread(d)
    <2>1. UNCHANGED <<outbox, copies, grants>>
      BY <1>6 DEF Reread, outboxVars
    <2>2. \A r \in RowId : Queued(r)' - grants'[r] <= Queued(r) - grants[r]
      BY <2>1, <1>t, <1>q DEF Queued
    <2>3. /\ \A e \in Dispatcher \ {d} : worker'[e] = worker[e]
          /\ worker[d].at = "reread" /\ worker'[d].row = worker[d].row
      BY <1>6 DEF Reread, At, TypeOK, DispatcherTypeOK, Worker
    <2>. QED
      BY <2>1, <2>2, <2>3, <1>s, HoldsByPlace
  <1>p. ASSUME UNCHANGED <<outbox, copies, grants>>,
               worker[d].at \in {"record", "suppression", "quota"},
               \E place : Goto(d, place)
        PROVE  WithinGrants'
    <2>1. \A r \in RowId : Queued(r)' - grants'[r] <= Queued(r) - grants[r]
      BY <1>p, <1>t, <1>q DEF Queued
    <2>. QED
      BY <1>p, <2>1, <1>s, Moves, HoldsByPlace
  <1>w. ASSUME NEW status, NEW timer, NEW reason,
               Write(worker[d].row, status, timer, reason), NextInBatch(d),
               worker[d].at \in {"record", "suppression", "smtp"},
               UNCHANGED <<copies, grants>>
        PROVE  WithinGrants'
    <2>1. \A r \in RowId \ {worker[d].row} : Queued(r)' = Queued(r)
      BY <1>w, <1>t, Written DEF Queued
    <2>2. Unaccepted(d) /\ ~Unaccepted(d)'
      BY <1>w, Moves, HoldsByPlace
    <2>. QED
      BY <1>w, <2>1, <2>2, <1>r, Moves
  <1>7. CASE CheckRecord(d)
    BY <1>7, <1>p, <1>w DEF CheckRecord, At
  <1>8. CASE CheckSuppression(d)
    BY <1>8, <1>p, <1>w DEF CheckSuppression, At
  <1>9. CASE CheckQuota(d)
    <2>1. CASE outbox' = outbox /\ Goto(d, "smtp")
      BY <1>9, <2>1, <1>p DEF CheckQuota, At
    <2>2. CASE NextInBatch(d)
      <3>1. \A r \in RowId \ {worker[d].row} : Queued(r)' = Queued(r)
        BY <1>9, <1>t DEF CheckQuota, Queued, TypeOK, OutboxTypeOK
      <3>2. Unaccepted(d) /\ ~Unaccepted(d)'
        BY <1>9, <2>2, Moves, HoldsByPlace DEF CheckQuota, At
      <3>. QED
        BY <1>9, <2>2, <3>1, <3>2, <1>r, Moves DEF CheckQuota
    <2>. QED
      BY <1>9, <2>1, <2>2 DEF CheckQuota
  <1>10. CASE SmtpAccepts(d)
    <2>1. Unaccepted(d) /\ ~Unaccepted(d)' /\ \A e \in Dispatcher \ {d} : worker'[e] = worker[e]
      BY <1>10, Moves, HoldsByPlace DEF SmtpAccepts, At
    <2>2. \A r \in RowId : Mine(d, r)' = 0 /\ Mine(d, r) = IF r = worker[d].row THEN 1 ELSE 0
      BY <2>1 DEF Mine
    <2>3. \A r \in RowId : copies'[r] = IF r = worker[d].row THEN copies[r] + 1 ELSE copies[r]
      BY <1>10, <1>t DEF SmtpAccepts, TypeOK, OutboxTypeOK
    <2>4. \A r \in RowId : Queued(r)' = Queued(r) /\ grants'[r] = grants[r]
      BY <1>10 DEF SmtpAccepts, Queued
    <2>5. \A r \in RowId :
            copies'[r] + Mine(d, r)' + Queued(r)' - grants'[r]
              <= copies[r] + Mine(d, r) + Queued(r) - grants[r]
      BY <1>t, <1>q, <2>2, <2>3, <2>4
    <2>. QED
      BY <2>1, <2>5, BalanceKept
  <1>11. CASE SmtpRejects(d)
    BY <1>11, <1>w DEF SmtpRejects, AfterError, At
  <1>12. CASE MarkSent(d)
    <2>1. \A r \in RowId : Queued(r)' <= Queued(r) /\ grants'[r] = grants[r]
      BY <1>12, <1>t, Written DEF MarkSent, Queued
    <2>2. \A r \in RowId : Queued(r)' - grants'[r] <= Queued(r) - grants[r]
      BY <2>1, <1>t, <1>q
    <2>. QED
      BY <1>12, <2>2, <1>s, Moves, HoldsByPlace DEF MarkSent
  <1>13. CASE MarkSentFails(d)
    <2>. DEFINE S == IF GivesUp(worker[d].attempts) THEN {} ELSE {worker[d].row}
    <2>1. \A r \in RowId : r \notin S => Queued(r)' <= Queued(r)
      BY <1>13, <1>t, Written DEF MarkSentFails, AfterError, Queued
    <2>2. \A r \in RowId : grants'[r] = IF r \in S THEN grants[r] + 1 ELSE grants[r]
      BY <1>13, Granted DEF MarkSentFails
    <2>3. \A r \in RowId : Queued(r)' - grants'[r] <= Queued(r) - grants[r]
      BY <2>1, <2>2, <1>t, <1>q
    <2>4. NextInBatch(d) /\ UNCHANGED copies
      BY <1>13 DEF MarkSentFails, AfterError
    <2>. QED
      BY <2>3, <2>4, <1>s, Moves, HoldsByPlace
  <1>14. CASE Crash(d)
    <2>1. /\ \A e \in Dispatcher \ {d} : worker'[e] = worker[e]
          /\ worker'[d].at = "idle"
      BY <1>14 DEF Crash, IdleWorker, TypeOK, DispatcherTypeOK
    <2>2. \A r \in RowId : Queued(r)' - grants'[r] <= Queued(r) - grants[r]
      BY <1>14, <1>t, <1>q DEF Crash, Queued
    <2>. QED
      BY <1>14, <2>1, <2>2, <1>s, HoldsByPlace DEF Crash
  <1>. QED
    BY <1>1, <1>2, <1>3, <1>4, <1>5, <1>6, <1>7, <1>8, <1>9, <1>10, <1>11, <1>12, <1>13, <1>14
    DEF DispatcherStep, DispatcherProgress

LEMMA ServiceWithin ==
  ASSUME TypeOK, TypeOK', WithinGrants, ServiceStep, UNCHANGED dispatcherVars
  PROVE  WithinGrants'
  <1>t. \A r \in RowId : outbox[r] \in Row /\ grants[r] \in Nat /\ grants'[r] \in Nat
    BY DEF TypeOK, OutboxTypeOK
  <1>q. \A r \in RowId : Queued(r) \in {0, 1} /\ Queued(r)' \in {0, 1}
    BY DEF Queued
  <1>v. UNCHANGED <<worker, copies>>
    <2>1. ASSUME NEW c \in Clerk,
                 \/ \E s \in Slot, via \in {"send", "compose"} : Preview(c, s, via)
                 \/ \E r \in RowId : PreviewDraft(c, r) \/ Cancel(c, r) \/ RetryRead(c, r)
                 \/ Compose(c) \/ FindDraft(c) \/ QueueDraft(c) \/ CheckKey(c)
                 \/ InsertPending(c) \/ RetryWrite(c)
          PROVE  UNCHANGED copies
      BY <2>1 DEF Preview, PreviewDraft, Compose, FindDraft, QueueDraft, CheckKey,
                  InsertPending, Cancel, RetryRead, RetryWrite, outboxVars
    <2>2. ASSUME NEW t \in Trigger,
                 \/ \E s \in Slot, c \in Content : EditRecord(t, s, c)
                 \/ TriggerCompose(t) \/ TriggerCheckKey(t) \/ ReplaceDrafts(t)
                 \/ TriggerInsert(t) \/ TriggerFails(t)
          PROVE  UNCHANGED copies
      BY <2>2 DEF EditRecord, TriggerCompose, TriggerCheckKey, ReplaceDrafts, TriggerInsert,
                  TriggerFails, outboxVars
    <2>3. ASSUME NEW s \in Slot, AddSuppression(s) \/ RemoveSuppression(s) \/ DeleteRecord(s)
          PROVE  UNCHANGED copies
      BY <2>3 DEF AddSuppression, RemoveSuppression, DeleteRecord
    <2>. QED
      BY <2>1, <2>2, <2>3 DEF ServiceStep, dispatcherVars
  (* What is put in the queue is granted ...                               *)
  <1>g. ASSUME NEW q \in RowId, Grant({q}),
               \A r \in RowId \ {q} : Queued(r)' = Queued(r)
        PROVE  WithinGrants'
    <2>1. \A r \in RowId : grants'[r] = IF r = q THEN grants[r] + 1 ELSE grants[r]
      BY <1>g, Granted
    <2>2. \A r \in RowId : Queued(r)' - grants'[r] <= Queued(r) - grants[r]
      BY <1>g, <1>t, <1>q, <2>1
    <2>. QED
      BY <2>2, <1>v, QueueKept
  (* ... and nothing else is put there.                                    *)
  <1>n. ASSUME UNCHANGED grants, \A r \in RowId : Queued(r)' <= Queued(r)
        PROVE  WithinGrants'
    <2>1. \A r \in RowId : Queued(r)' - grants'[r] <= Queued(r) - grants[r]
      BY <1>n, <1>t, <1>q
    <2>. QED
      BY <2>1, <1>v, QueueKept
  <1>u. ASSUME UNCHANGED <<outbox, grants>> PROVE WithinGrants'
    <2>1. \A r \in RowId : Queued(r)' <= Queued(r)
      BY <1>u, <1>q DEF Queued
    <2>. QED
      BY <1>u, <2>1, <1>n
  <1>c. ASSUME NEW c \in Clerk
        PROVE  request[c].row \in RowId
    BY <1>c DEF TypeOK, ServiceTypeOK, Request
  <1>1. ASSUME NEW c \in Clerk, QueueDraft(c) PROVE WithinGrants'
    <2>. DEFINE r == request[c].row
    <2>1. CASE UNCHANGED <<outbox, grants>>
      BY <2>1, <1>u
    <2>2. CASE outbox[r].status = "draft"
      <3>1. \A q \in RowId \ {r} : Queued(q)' = Queued(q)
        BY <1>1, <2>2, <1>c DEF QueueDraft, Queued, TypeOK, OutboxTypeOK
      <3>2. Grant({r})
        BY <1>1, <2>2 DEF QueueDraft
      <3>. QED
        BY <3>1, <3>2, <1>c, <1>g
    <2>. QED
      BY <1>1, <2>1, <2>2 DEF QueueDraft
  <1>2. ASSUME NEW c \in Clerk, InsertPending(c) PROVE WithinGrants'
    <2>1. CASE UNCHANGED <<outbox, grants>>
      BY <2>1, <1>u
    <2>2. ASSUME NEW r \in RowId, NEW row, outbox' = [outbox EXCEPT ![r] = row], Grant({r})
          PROVE  WithinGrants'
      <3>1. \A q \in RowId \ {r} : Queued(q)' = Queued(q)
        BY <2>2 DEF Queued, TypeOK, OutboxTypeOK
      <3>. QED
        BY <3>1, <2>2, <1>g
    <2>. QED
      BY <1>2, <2>1, <2>2 DEF InsertPending
  <1>3. ASSUME NEW c \in Clerk, NEW q \in RowId, Cancel(c, q) PROVE WithinGrants'
    <2>1. Write(q, "cancelled", "elapsed", "user") /\ UNCHANGED grants
      BY <1>3 DEF Cancel, Write
    <2>2. \A r \in RowId : Queued(r)' <= Queued(r)
      BY <2>1, Written DEF Queued
    <2>. QED
      BY <2>1, <2>2, <1>n
  <1>4. ASSUME NEW c \in Clerk, RetryWrite(c) PROVE WithinGrants'
    <2>1. \A q \in RowId \ {request[c].row} : Queued(q)' = Queued(q)
      BY <1>4, <1>c DEF RetryWrite, Queued, TypeOK, OutboxTypeOK
    <2>2. Grant({request[c].row})
      BY <1>4 DEF RetryWrite
    <2>. QED
      BY <2>1, <2>2, <1>c, <1>g
  <1>5. ASSUME NEW t \in Trigger, ReplaceDrafts(t) PROVE WithinGrants'
    <2>1. \A r \in RowId : Queued(r)' <= Queued(r)
      <3>. SUFFICES ASSUME NEW r \in RowId PROVE Queued(r)' <= Queued(r)
        OBVIOUS
      <3>1. outbox'[r].status \in {outbox[r].status, "cancelled"}
        BY <1>5, <1>t DEF ReplaceDrafts, Row
      <3>. QED
        BY <3>1 DEF Queued
    <2>2. UNCHANGED grants
      BY <1>5 DEF ReplaceDrafts
    <2>. QED
      BY <2>1, <2>2, <1>n
  <1>6. ASSUME NEW t \in Trigger, TriggerInsert(t) PROVE WithinGrants'
    <2>1. CASE UNCHANGED <<outbox, grants>>
      BY <2>1, <1>u
    <2>2. ASSUME NEW r \in RowId, NEW row, outbox' = [outbox EXCEPT ![r] = row],
                 Grant(IF row.status = "pending" THEN {r} ELSE {})
          PROVE  WithinGrants'
      <3>1. \A q \in RowId \ {r} : Queued(q)' = Queued(q)
        BY <2>2 DEF Queued, TypeOK, OutboxTypeOK
      <3>2. CASE row.status = "pending"
        BY <2>2, <3>1, <3>2, <1>g
      <3>3. CASE row.status # "pending"
        <4>1. Queued(r)' = 0
          BY <2>2, <3>3 DEF Queued, TypeOK, OutboxTypeOK
        <4>2. \A q \in RowId : grants'[q] = grants[q]
          BY <2>2, <3>3, Granted
        <4>3. \A q \in RowId : Queued(q)' - grants'[q] <= Queued(q) - grants[q]
          BY <3>1, <4>1, <4>2, <1>t, <1>q
        <4>. QED
          BY <4>3, <1>v, QueueKept
      <3>. QED
        BY <3>2, <3>3
    <2>. QED
      BY <1>6, <2>1, <2>2 DEF TriggerInsert
  <1>7. ASSUME NEW c \in Clerk,
               \/ \E s \in Slot, via \in {"send", "compose"} : Preview(c, s, via)
               \/ \E r \in RowId : PreviewDraft(c, r) \/ RetryRead(c, r)
               \/ Compose(c) \/ FindDraft(c) \/ CheckKey(c)
        PROVE  WithinGrants'
    BY <1>7, <1>u DEF Preview, PreviewDraft, RetryRead, Compose, FindDraft, CheckKey, outboxVars
  <1>8. ASSUME NEW t \in Trigger,
               \/ \E s \in Slot, c \in Content : EditRecord(t, s, c)
               \/ TriggerCompose(t) \/ TriggerCheckKey(t) \/ TriggerFails(t)
        PROVE  WithinGrants'
    BY <1>8, <1>u DEF EditRecord, TriggerCompose, TriggerCheckKey, TriggerFails, outboxVars
  <1>9. ASSUME NEW s \in Slot, AddSuppression(s) \/ RemoveSuppression(s) \/ DeleteRecord(s)
        PROVE  WithinGrants'
    BY <1>9, <1>u DEF AddSuppression, RemoveSuppression, DeleteRecord
  <1>. QED
    BY <1>1, <1>2, <1>3, <1>4, <1>5, <1>6, <1>7, <1>8, <1>9 DEF ServiceStep

LEMMA InitWithin == Init => WithinGrants
  <1>. SUFFICES ASSUME Init, NEW r \in RowId
                PROVE  copies[r] + Cardinality(Holders(r)) + Queued(r) <= grants[r]
    BY DEF WithinGrants
  <1>1. Holders(r) = {}
    BY DEF Init, DispatcherInit, IdleWorker, Holders, Unaccepted, Delivering, At
  <1>2. Cardinality(Holders(r)) = 0
    BY <1>1, FS_EmptySet
  <1>3. copies[r] = 0 /\ grants[r] = 0 /\ Queued(r) = 0
    BY DEF Init, OutboxInit, Queued, BlankRow
  <1>. QED
    BY <1>2, <1>3

LEMMA NextWithin == TypeOK /\ TypeOK' /\ WithinGrants /\ [Next]_vars => WithinGrants'
  <1>. SUFFICES ASSUME TypeOK, TypeOK', WithinGrants, [Next]_vars PROVE WithinGrants'
    OBVIOUS
  <1>1. CASE UNCHANGED vars
    <2>1. UNCHANGED <<worker, copies, grants, outbox>>
      BY <1>1 DEF vars, outboxVars, dispatcherVars
    <2>2. \A r \in RowId : Queued(r)' - grants'[r] <= Queued(r) - grants[r]
      BY <2>1 DEF Queued, TypeOK, OutboxTypeOK
    <2>. QED
      BY <2>1, <2>2, QueueKept
  <1>2. CASE \E r \in RowId : TimerElapses(r) \/ ExpiryPasses(r)
    <2>1. UNCHANGED <<worker, copies, grants>>
      BY <1>2 DEF TimerElapses, ExpiryPasses, dispatcherVars
    <2>2. \A r \in RowId : outbox'[r].status = outbox[r].status
      BY <1>2 DEF TimerElapses, ExpiryPasses, TypeOK, OutboxTypeOK, Row
    <2>3. \A r \in RowId : Queued(r)' - grants'[r] <= Queued(r) - grants[r]
      BY <2>1, <2>2 DEF Queued, TypeOK, OutboxTypeOK
    <2>. QED
      BY <2>1, <2>3, QueueKept
  <1>. QED
    BY <1>1, <1>2, DispatcherWithin, ServiceWithin DEF Next

(* However many containers run, whatever staff and triggers do, and        *)
(* wherever a container dies or stalls, the SMTP server accepts a row no   *)
(* more often than the row was put in the queue: the conditional UPDATE of *)
(* processBatch is claim enough.                                           *)
THEOREM CopiesAreGranted == Spec => []NoCopyWithoutGrant
  <1>1. TypeOK /\ WithinGrants => NoCopyWithoutGrant
    <2>. SUFFICES ASSUME TypeOK, WithinGrants, NEW r \in RowId PROVE copies[r] <= grants[r]
      BY DEF NoCopyWithoutGrant
    <2>1. copies[r] \in Nat /\ grants[r] \in Nat /\ Cardinality(Holders(r)) \in Nat
      BY HoldersFinite DEF TypeOK, OutboxTypeOK
    <2>2. Queued(r) \in {0, 1} /\ copies[r] + Cardinality(Holders(r)) + Queued(r) <= grants[r]
      BY DEF Queued, WithinGrants
    <2>. QED
      BY <2>1, <2>2
  <1>2. Init /\ [][Next]_vars => [](TypeOK /\ WithinGrants)
    BY InitType, NextType, InitWithin, NextWithin, PTL
  <1>. QED
    BY <1>1, <1>2, PTL DEF Spec

(* Why: each entry into the queue is spent at most once, as a copy, as a   *)
(* delivery some container has in hand, or as a place in the queue.        *)
THEOREM QueueIsGranted == Spec => []WithinGrants
  <1>1. Init /\ [][Next]_vars => [](TypeOK /\ WithinGrants)
    BY InitType, NextType, InitWithin, NextWithin, PTL
  <1>. QED
    BY <1>1, PTL DEF Spec

-----------------------------------------------------------------------------
(* Keys, and what 'sent' means.                                            *)

(* What is about to be written by id is a row that exists.                 *)
HeldExists ==
  /\ \A d \in Dispatcher : Delivering(d) => Exists(worker[d].row)
  /\ \A c \in Clerk : request[c].at = "retry" => Exists(request[c].row)

MarkedAccepted == \A d \in Dispatcher : At(d, "mark") => copies[worker[d].row] > 0

(* A #resend- key ends with the id of its own row.                         *)
ResendsOwnId == \A r \in RowId : Exists(r) => outbox[r].key.resend \in {0, r}

RowInv == HeldExists /\ MarkedAccepted /\ SentWasAccepted /\ KeysUnique /\ ResendsOwnId

(* What a step that inserts nothing does to a row.                         *)
RowEvolves(r) ==
  /\ outbox'[r].status = "none" <=> outbox[r].status = "none"
  /\ outbox'[r].key = outbox[r].key
  /\ outbox'[r].status = "sent" => outbox[r].status = "sent" \/ copies[r] > 0

LEMMA Evolved ==
  ASSUME TypeOK, TypeOK', RowInv, \A r \in RowId : RowEvolves(r), HeldExists', MarkedAccepted',
         \A r \in RowId : copies[r] <= copies'[r]
  PROVE  RowInv'
  <1>1. \A r \in RowId : Exists(r)' <=> Exists(r)
    BY DEF Exists, RowEvolves
  <1>2. SentWasAccepted'
    <2>1. \A r \in RowId : copies[r] \in Nat /\ copies'[r] \in Nat
      BY DEF TypeOK, OutboxTypeOK
    <2>. QED
      BY <2>1 DEF RowInv, SentWasAccepted, RowsWith, RowEvolves
  <1>3. KeysUnique'
    BY <1>1 DEF RowInv, KeysUnique, RowEvolves
  <1>4. ResendsOwnId'
    BY <1>1 DEF RowInv, ResendsOwnId, RowEvolves
  <1>. QED
    BY <1>2, <1>3, <1>4 DEF RowInv

LEMMA WriteEvolves ==
  ASSUME TypeOK, NEW q \in RowId, Exists(q), NEW status, status # "none",
         status = "sent" => copies[q] > 0, NEW timer, NEW reason, Write(q, status, timer, reason)
  PROVE  \A r \in RowId : RowEvolves(r)
  <1>. SUFFICES ASSUME NEW r \in RowId PROVE RowEvolves(r)
    OBVIOUS
  <1>1. outbox[r] \in Row
    BY DEF TypeOK, OutboxTypeOK
  <1>2. /\ outbox'[r].status = IF r = q THEN status ELSE outbox[r].status
        /\ outbox'[r].key = outbox[r].key
    BY <1>1 DEF Write, TypeOK, OutboxTypeOK, Row
  <1>. QED
    BY <1>2 DEF RowEvolves, Exists

LEMMA RequeueEvolves ==
  ASSUME TypeOK, NEW q \in RowId, Exists(q), NEW attempts, NEW timer,
         outbox' = [outbox EXCEPT ![q].status = "pending", ![q].attempts = attempts,
                                  ![q].timer = timer, ![q].reason = "none"]
  PROVE  \A r \in RowId : RowEvolves(r)
  <1>. SUFFICES ASSUME NEW r \in RowId PROVE RowEvolves(r)
    OBVIOUS
  <1>1. outbox[r] \in Row
    BY DEF TypeOK, OutboxTypeOK
  <1>2. /\ outbox'[r].status = IF r = q THEN "pending" ELSE outbox[r].status
        /\ outbox'[r].key = outbox[r].key
    BY <1>1 DEF TypeOK, OutboxTypeOK, Row
  <1>. QED
    BY <1>2 DEF RowEvolves, Exists

LEMMA DispatcherRows ==
  ASSUME TypeOK, TypeOK', RowInv, NEW d \in Dispatcher, DispatcherStep(d), UNCHANGED serviceVars
  PROVE  RowInv'
  <1>t. worker[d].row \in RowId /\ \A r \in RowId : outbox[r] \in Row /\ copies[r] \in Nat
    BY DEF TypeOK, OutboxTypeOK, DispatcherTypeOK, Worker
  <1>r. Delivering(d) => Exists(worker[d].row)
    BY DEF RowInv, HeldExists
  <1>p. \A e \in Dispatcher :
          /\ Delivering(e)' <=> worker'[e].at \in {"reread", "record", "suppression", "quota", "smtp", "mark"}
          /\ Delivering(e) <=> worker[e].at \in {"reread", "record", "suppression", "quota", "smtp", "mark"}
    BY DEF Delivering
  (* The other containers hold what they held.                             *)
  <1>e. ASSUME \A e \in Dispatcher \ {d} : worker'[e] = worker[e],
               \A r \in RowId : RowEvolves(r), \A r \in RowId : copies[r] <= copies'[r],
               Delivering(d)' => worker'[d].row \in RowId /\ Exists(worker'[d].row),
               At(d, "mark")' => copies'[worker'[d].row] > 0
        PROVE  RowInv'
    <2>1. \A r \in RowId : Exists(r)' <=> Exists(r)
      BY <1>e DEF Exists, RowEvolves
    <2>t. \A e \in Dispatcher : worker[e].row \in RowId
      BY DEF TypeOK, DispatcherTypeOK, Worker
    <2>2. HeldExists'
      <3>r. \A r \in RowId : outbox[r].status # "none" => outbox'[r].status # "none"
        BY <1>e DEF RowEvolves
      <3>1. ASSUME NEW e \in Dispatcher,
                   worker'[e].at \in {"reread", "record", "suppression", "quota", "smtp", "mark"}
            PROVE  outbox'[worker'[e].row].status # "none"
        <4>1. CASE e = d
          <5>1. worker'[d].row \in RowId /\ Exists(worker'[d].row)
            BY <1>e, <1>p, <3>1, <4>1
          <5>. QED
            BY <3>r, <4>1, <5>1 DEF Exists
        <4>2. CASE e # d
          <5>1. worker'[e] = worker[e]
            BY <1>e, <4>2
          <5>2. Delivering(e)
            BY <1>p, <3>1, <5>1
          <5>3. Exists(worker[e].row)
            BY <5>2 DEF RowInv, HeldExists
          <5>. QED
            BY <2>t, <3>r, <5>1, <5>3 DEF Exists
        <4>. QED
          BY <4>1, <4>2
      <3>2. ASSUME NEW c \in Clerk, request'[c].at = "retry"
            PROVE  outbox'[request'[c].row].status # "none"
        <4>1. request'[c] = request[c]
          BY DEF serviceVars
        <4>2. request[c].row \in RowId
          BY DEF TypeOK, ServiceTypeOK, Request
        <4>3. Exists(request[c].row)
          BY <3>2, <4>1 DEF RowInv, HeldExists
        <4>. QED
          BY <3>r, <4>1, <4>2, <4>3 DEF Exists
      <3>. QED
        BY <1>p, <3>1, <3>2 DEF HeldExists, Exists, Delivering
    <2>3. MarkedAccepted'
      <3>. SUFFICES ASSUME NEW e \in Dispatcher, At(e, "mark")' PROVE copies'[worker'[e].row] > 0
        BY DEF MarkedAccepted
      <3>1. CASE e = d
        BY <1>e, <3>1
      <3>2. CASE e # d
        <4>1. worker'[e] = worker[e] /\ At(e, "mark")
          BY <1>e, <3>2 DEF At
        <4>2. copies[worker[e].row] > 0
          BY <4>1 DEF RowInv, MarkedAccepted
        <4>3. copies'[worker[e].row] \in Nat
          BY <2>t DEF TypeOK, OutboxTypeOK
        <4>. QED
          BY <1>e, <1>t, <2>t, <4>1, <4>2, <4>3
      <3>. QED
        BY <3>1, <3>2
    <2>. QED
      BY <1>e, <2>2, <2>3, Evolved
  (* A step to a place where d holds what it held, or nothing.             *)
  <1>g. ASSUME NEW place, Goto(d, place), place # "mark",
               place \in {"record", "suppression", "quota", "smtp", "reread"} => Delivering(d),
               \A r \in RowId : RowEvolves(r), UNCHANGED copies
        PROVE  RowInv'
    BY <1>g, <1>r, <1>t, <1>p, <1>e, Moves DEF At
  <1>n. ASSUME NextInBatch(d), \A r \in RowId : RowEvolves(r), UNCHANGED copies
        PROVE  RowInv'
    BY <1>n, <1>t, <1>p, <1>e, Moves DEF At
  <1>u. UNCHANGED outbox => \A r \in RowId : RowEvolves(r)
    BY DEF RowEvolves
  <1>w. ASSUME Delivering(d), NEW status, status \in {"cancelled", "suppressed", "failed", "pending"},
               NEW timer, NEW reason, Write(worker[d].row, status, timer, reason)
        PROVE  \A r \in RowId : RowEvolves(r)
    BY <1>w, <1>r, <1>t, WriteEvolves
  <1>1. CASE ExpireDrafts(d)
    <2>1. \A r \in RowId : RowEvolves(r)
      BY <1>1, <1>t DEF ExpireDrafts, RowEvolves, Row
    <2>. QED
      BY <1>1, <2>1, <1>g DEF ExpireDrafts
  <1>2. CASE RecoverStuck(d)
    <2>1. \A r \in RowId : RowEvolves(r)
      BY <1>2, <1>t DEF RecoverStuck, RowEvolves, Row, RowsWith
    <2>. QED
      BY <1>2, <2>1, <1>g DEF RecoverStuck
  <1>3. CASE PurgeOldBodies(d)
    <2>1. \A r \in RowId : RowEvolves(r)
      <3>1. ASSUME NEW old \in SUBSET RowId,
                   outbox' = [r \in RowId |-> IF r \in old
                              THEN [outbox[r] EXCEPT !.body = FALSE,
                                      !.timer = IF outbox[r].status = "sending"
                                                THEN "running" ELSE @]
                              ELSE outbox[r]],
                   NEW r \in RowId
            PROVE  RowEvolves(r)
        BY <3>1, <1>t DEF RowEvolves, Row
      <3>. QED
        BY <1>3, <1>u, <3>1 DEF PurgeOldBodies
    <2>2. \E place \in {"select", "idle"} : Goto(d, place)
      BY <1>3 DEF PurgeOldBodies
    <2>. QED
      BY <1>3, <2>1, <2>2, <1>g DEF PurgeOldBodies
  <1>4. CASE SelectDue(d)
    <2>1. /\ \A e \in Dispatcher \ {d} : worker'[e] = worker[e]
          /\ worker'[d].at = "batch" /\ UNCHANGED <<outbox, copies>>
      BY <1>4 DEF SelectDue, TypeOK, DispatcherTypeOK, Worker, outboxVars
    <2>. QED
      BY <2>1, <1>t, <1>u, <1>p, <1>e DEF At
  <1>5. CASE EndBatch(d)
    BY <1>5, <1>g, <1>u DEF EndBatch, outboxVars
  <1>6. ASSUME NEW q \in RowId, Claim(d, q) PROVE RowInv'
    <2>1. \A e \in Dispatcher \ {d} : worker'[e] = worker[e]
      BY <1>6 DEF Claim, TypeOK, DispatcherTypeOK
    <2>2. CASE outbox[q].status = "pending"
      <3>1. \A r \in RowId : RowEvolves(r)
        BY <1>6, <2>2, <1>t DEF Claim, RowEvolves, TypeOK, OutboxTypeOK, Row
      <3>2. worker'[d].at = "reread" /\ worker'[d].row = q /\ UNCHANGED copies /\ Exists(q)
        BY <1>6, <2>2 DEF Claim, TypeOK, DispatcherTypeOK, Worker, Exists
      <3>. QED
        BY <2>1, <3>1, <3>2, <1>t, <1>e DEF At
    <2>3. CASE outbox[q].status # "pending"
      <3>1. worker'[d].at = "batch" /\ UNCHANGED <<outbox, copies>>
        BY <1>6, <2>3 DEF Claim, At, TypeOK, DispatcherTypeOK, Worker
      <3>. QED
        BY <2>1, <3>1, <1>t, <1>u, <1>p, <1>e DEF At
    <2>. QED
      BY <2>2, <2>3
  <1>7. CASE Reread(d)
    <2>1. /\ \A e \in Dispatcher \ {d} : worker'[e] = worker[e]
          /\ worker'[d].at = "record" /\ worker'[d].row = worker[d].row
          /\ UNCHANGED <<outbox, copies>> /\ Delivering(d)
      BY <1>7 DEF Reread, At, Delivering, TypeOK, DispatcherTypeOK, Worker, outboxVars
    <2>. QED
      BY <2>1, <1>t, <1>r, <1>u, <1>e DEF At
  <1>8. CASE CheckRecord(d)
    <2>1. Delivering(d) /\ UNCHANGED copies
      BY <1>8 DEF CheckRecord, At, Delivering
    <2>. QED
      BY <1>8, <2>1, <1>w, <1>g, <1>n, <1>u DEF CheckRecord
  <1>9. CASE CheckSuppression(d)
    <2>1. Delivering(d) /\ UNCHANGED copies
      BY <1>9 DEF CheckSuppression, At, Delivering
    <2>. QED
      BY <1>9, <2>1, <1>w, <1>g, <1>n, <1>u DEF CheckSuppression
  <1>10. CASE CheckQuota(d)
    <2>1. Delivering(d) /\ UNCHANGED copies
      BY <1>10 DEF CheckQuota, At, Delivering
    <2>2. CASE outbox' = outbox /\ Goto(d, "smtp")
      BY <2>1, <2>2, <1>g, <1>u
    <2>3. CASE NextInBatch(d) /\ outbox' # outbox
      <3>. DEFINE refund == IF worker[d].attempts = 0 THEN 0 ELSE worker[d].attempts - 1
      <3>1. outbox' = [outbox EXCEPT ![worker[d].row].status = "pending",
                                     ![worker[d].row].attempts = refund,
                                     ![worker[d].row].timer = "running",
                                     ![worker[d].row].reason = "none"]
        BY <1>10, <2>3 DEF CheckQuota
      <3>. HIDE DEF refund
      <3>2. \A r \in RowId : RowEvolves(r)
        BY <2>1, <3>1, <1>t, <1>r, RequeueEvolves
      <3>. QED
        BY <2>1, <2>3, <3>2, <1>n
    <2>4. CASE NextInBatch(d) /\ outbox' = outbox
      BY <2>1, <2>4, <1>n, <1>u
    <2>. QED
      BY <1>10, <2>2, <2>3, <2>4 DEF CheckQuota
  <1>11. CASE SmtpAccepts(d)
    <2>1. Delivering(d) /\ UNCHANGED outbox /\ Goto(d, "mark")
      BY <1>11 DEF SmtpAccepts, At, Delivering
    <2>2. \A r \in RowId : copies'[r] = IF r = worker[d].row THEN copies[r] + 1 ELSE copies[r]
      BY <1>11, <1>t DEF SmtpAccepts, TypeOK, OutboxTypeOK
    <2>3. worker'[d].row = worker[d].row /\ \A e \in Dispatcher \ {d} : worker'[e] = worker[e]
      BY <2>1, Moves
    <2>4. copies'[worker'[d].row] > 0 /\ \A r \in RowId : copies[r] <= copies'[r]
      BY <2>2, <2>3, <1>t
    <2>. QED
      BY <2>1, <2>3, <2>4, <1>t, <1>r, <1>u, <1>e
  <1>12. CASE SmtpRejects(d)
    <2>1. Delivering(d) /\ UNCHANGED copies
      BY <1>12 DEF SmtpRejects, At, Delivering
    <2>. QED
      BY <1>12, <2>1, <1>w, <1>n DEF SmtpRejects, AfterError
  <1>13. CASE MarkSent(d)
    <2>1. Delivering(d) /\ UNCHANGED copies /\ copies[worker[d].row] > 0
      BY <1>13 DEF MarkSent, At, Delivering, RowInv, MarkedAccepted
    <2>2. \A r \in RowId : RowEvolves(r)
      BY <1>13, <2>1, <1>r, <1>t, WriteEvolves DEF MarkSent
    <2>. QED
      BY <1>13, <2>1, <2>2, <1>g DEF MarkSent
  <1>14. CASE LogContact(d)
    BY <1>14, <1>n, <1>u DEF LogContact, outboxVars
  <1>15. CASE MarkSentFails(d)
    <2>1. Delivering(d) /\ UNCHANGED copies
      BY <1>15 DEF MarkSentFails, At, Delivering
    <2>. QED
      BY <1>15, <2>1, <1>w, <1>n DEF MarkSentFails, AfterError
  <1>16. CASE Crash(d)
    <2>1. /\ \A e \in Dispatcher \ {d} : worker'[e] = worker[e]
          /\ worker'[d].at = "idle" /\ UNCHANGED <<outbox, copies>>
      BY <1>16 DEF Crash, IdleWorker, TypeOK, DispatcherTypeOK
    <2>. QED
      BY <2>1, <1>t, <1>u, <1>p, <1>e DEF At
  <1>. QED
    BY <1>1, <1>2, <1>3, <1>4, <1>5, <1>6, <1>7, <1>8, <1>9, <1>10, <1>11, <1>12, <1>13,
       <1>14, <1>15, <1>16 DEF DispatcherStep, DispatcherProgress

(* A new row: its key is one no row has.                                   *)
LEMMA InsertKeeps ==
  ASSUME TypeOK, TypeOK', RowInv, NEW q \in RowId, IsNextId(q), NEW row \in Row,
         outbox' = [outbox EXCEPT ![q] = row], row.status \notin {"none", "sent"},
         \/ row.key.resend = 0 /\ ~KeyTaken(row.key)
         \/ row.key.resend = q,
         UNCHANGED <<copies, worker>>,
         \A c \in Clerk : request'[c].at = "retry" =>
           request[c].at = "retry" /\ request'[c].row = request[c].row
  PROVE  RowInv'
  <1>1. ~Exists(q) /\ \A r \in RowId \ {q} : outbox'[r] = outbox[r]
    BY DEF IsNextId, TypeOK, OutboxTypeOK
  <1>2. outbox'[q] = row
    BY DEF TypeOK, OutboxTypeOK
  <1>3. \A r \in RowId : Exists(r) => r # q /\ Exists(r)' /\ outbox'[r].key = outbox[r].key
    BY <1>1 DEF Exists
  <1>4. \A r \in RowId : Exists(r)' => r = q \/ (Exists(r) /\ outbox'[r] = outbox[r])
    BY <1>1 DEF Exists
  <1>5. HeldExists'
    <2>1. /\ \A d \in Dispatcher : worker[d].row \in RowId
          /\ \A c \in Clerk : request[c].row \in RowId
      BY DEF TypeOK, DispatcherTypeOK, Worker, ServiceTypeOK, Request
    <2>. QED
      BY <1>3, <2>1 DEF RowInv, HeldExists, Delivering
  <1>6. MarkedAccepted'
    BY DEF RowInv, MarkedAccepted, At
  <1>7. SentWasAccepted'
    BY <1>1, <1>2 DEF RowInv, SentWasAccepted, RowsWith
  <1>8. KeysUnique'
    <2>1. ASSUME NEW r \in RowId, Exists(r) PROVE outbox[r].key # row.key
      <3>0. q # 0
        BY DEF RowId
      <3>1. CASE row.key.resend = 0 /\ ~KeyTaken(row.key)
        BY <2>1, <3>1 DEF KeyTaken
      <3>2. CASE row.key.resend = q
        BY <1>3, <2>1, <3>0, <3>2 DEF RowInv, ResendsOwnId
      <3>. QED
        BY <3>1, <3>2
    <2>. QED
      BY <1>2, <1>4, <2>1 DEF RowInv, KeysUnique
  <1>9. ResendsOwnId'
    BY <1>2, <1>4 DEF RowInv, ResendsOwnId
  <1>. QED
    BY <1>5, <1>6, <1>7, <1>8, <1>9 DEF RowInv

LEMMA ServiceRows ==
  ASSUME TypeOK, TypeOK', RowInv, ServiceStep, UNCHANGED dispatcherVars
  PROVE  RowInv'
  <1>t. /\ \A r \in RowId : outbox[r] \in Row /\ copies[r] \in Nat
        /\ \A c \in Clerk : request[c] \in Request /\ request[c].row \in RowId
    BY DEF TypeOK, OutboxTypeOK, ServiceTypeOK, Request
  <1>e. ASSUME \A r \in RowId : RowEvolves(r), UNCHANGED copies,
               \A c \in Clerk : request'[c].at = "retry" =>
                 /\ request'[c].row \in RowId
                 /\ Exists(request'[c].row)
        PROVE  RowInv'
    <2>1. \A r \in RowId : Exists(r)' <=> Exists(r)
      BY <1>e DEF Exists, RowEvolves
    <2>2. \A d \in Dispatcher : worker[d].row \in RowId
      BY DEF TypeOK, DispatcherTypeOK, Worker
    <2>3. HeldExists'
      BY <1>e, <2>1, <2>2 DEF dispatcherVars, RowInv, HeldExists, Delivering
    <2>4. MarkedAccepted'
      BY <1>e DEF dispatcherVars, RowInv, MarkedAccepted, At
    <2>5. \A r \in RowId : copies[r] <= copies'[r]
      BY <1>e, <1>t
    <2>. QED
      BY <1>e, <2>3, <2>4, <2>5, Evolved
  <1>k. \A c \in Clerk : request[c].at = "retry" => Exists(request[c].row)
    BY DEF RowInv, HeldExists
  <1>u. UNCHANGED outbox => \A r \in RowId : RowEvolves(r)
    BY DEF RowEvolves
  (* A request that moves on, or is answered.                              *)
  <1>a. ASSUME NEW c \in Clerk, NEW state, request' = [request EXCEPT ![c] = state],
               state.at # "retry"
        PROVE  \A b \in Clerk : request'[b].at = "retry" =>
                 /\ request[b].at = "retry" /\ request'[b].row = request[b].row
                 /\ request'[b].row \in RowId /\ Exists(request'[b].row)
    BY <1>a, <1>t, <1>k DEF TypeOK, ServiceTypeOK
  <1>b. ASSUME NEW c \in Clerk, Answer(c)
        PROVE  \A b \in Clerk : request'[b].at = "retry" =>
                 /\ request[b].at = "retry" /\ request'[b].row = request[b].row
                 /\ request'[b].row \in RowId /\ Exists(request'[b].row)
    <2>1. IdleRequest.at # "retry"
      BY DEF IdleRequest
    <2>. QED
      BY <1>b, <2>1, <1>a DEF Answer
  <1>1. ASSUME NEW c \in Clerk, QueueDraft(c) PROVE RowInv'
    <2>1. \A r \in RowId : RowEvolves(r)
      <3>1. CASE outbox[request[c].row].status = "draft"
        BY <1>1, <1>t, <3>1 DEF QueueDraft, RowEvolves, TypeOK, OutboxTypeOK, Row
      <3>2. CASE outbox[request[c].row].status # "draft"
        BY <1>1, <1>u, <3>2 DEF QueueDraft
      <3>. QED
        BY <3>1, <3>2
    <2>. QED
      BY <1>1, <2>1, <1>b, <1>e DEF QueueDraft
  <1>2. ASSUME NEW c \in Clerk, InsertPending(c) PROVE RowInv'
    <2>. DEFINE own == OwnKey(request[c].slot, request[c].content)
    <2>1. CASE UNCHANGED outbox
      BY <1>2, <2>1, <1>u, <1>b, <1>e DEF InsertPending
    <2>2. ASSUME NEW q \in RowId, IsNextId(q), request[c].again \/ ~KeyTaken(own),
                 outbox' = [outbox EXCEPT ![q] = Inserted("pending", request[c].slot,
                   IF request[c].again THEN [own EXCEPT !.resend = q] ELSE own,
                   request[c].content, "never", "none")]
          PROVE  RowInv'
      <3>. DEFINE key == IF request[c].again THEN [own EXCEPT !.resend = q] ELSE own
      <3>. DEFINE row == Inserted("pending", request[c].slot, key, request[c].content,
                                  "never", "none")
      <3>1. /\ request[c].slot \in Slot /\ request[c].content \in Content
            /\ own \in Key /\ [own EXCEPT !.resend = q] \in Key
        BY <1>t, OwnKeyType DEF Request
      <3>2. key \in Key /\ \/ key.resend = 0 /\ ~KeyTaken(key)
                           \/ key.resend = q
        BY <2>2, <3>1 DEF OwnKey
      <3>. HIDE DEF key
      <3>3. row \in Row
        BY <3>1, <3>2, InsertedType DEF Status
      <3>4. row.status = "pending" /\ row.key = key /\ outbox' = [outbox EXCEPT ![q] = row]
        BY <2>2 DEF Inserted, key
      <3>. HIDE DEF row
      <3>5. UNCHANGED <<copies, worker>>
        BY <1>2 DEF InsertPending, dispatcherVars
      <3>6. \A b \in Clerk : request'[b].at = "retry" =>
              request[b].at = "retry" /\ request'[b].row = request[b].row
        BY <1>2, <1>b DEF InsertPending
      <3>. QED
        BY <2>2, <3>2, <3>3, <3>4, <3>5, <3>6, InsertKeeps
    <2>. QED
      BY <1>2, <2>1, <2>2 DEF InsertPending
  <1>3. ASSUME NEW c \in Clerk, NEW q \in RowId, Cancel(c, q) PROVE RowInv'
    <2>1. Write(q, "cancelled", "elapsed", "user") /\ Exists(q) /\ UNCHANGED <<copies, request>>
      BY <1>3 DEF Cancel, Write, Exists, serviceVars
    <2>2. \A r \in RowId : RowEvolves(r)
      BY <2>1, WriteEvolves
    <2>. QED
      BY <2>1, <2>2, <1>t, <1>k, <1>e
  <1>4. ASSUME NEW c \in Clerk, NEW q \in RowId, RetryRead(c, q) PROVE RowInv'
    <2>1. UNCHANGED <<outbox, copies>> /\ Exists(q)
      BY <1>4 DEF RetryRead, outboxVars, Exists
    <2>2. \A b \in Clerk : request'[b].at = "retry" =>
            request'[b].row \in RowId /\ Exists(request'[b].row)
      BY <1>4, <2>1, <1>t, <1>k DEF RetryRead, TypeOK, ServiceTypeOK, Request
    <2>. QED
      BY <2>1, <2>2, <1>u, <1>e
  <1>5. ASSUME NEW c \in Clerk, RetryWrite(c) PROVE RowInv'
    <2>1. Exists(request[c].row)
      BY <1>5, <1>k DEF RetryWrite
    <2>2. \A r \in RowId : RowEvolves(r)
      BY <1>5, <2>1, <1>t, RequeueEvolves DEF RetryWrite
    <2>3. UNCHANGED copies /\ Answer(c)
      BY <1>5 DEF RetryWrite
    <2>. QED
      BY <2>2, <2>3, <1>b, <1>e
  <1>6. ASSUME NEW t \in Trigger, ReplaceDrafts(t) PROVE RowInv'
    <2>1. \A r \in RowId : RowEvolves(r)
      BY <1>6, <1>t DEF ReplaceDrafts, Drafts, RowsWith, RowEvolves, Row
    <2>. QED
      BY <1>6, <2>1, <1>t, <1>k, <1>e DEF ReplaceDrafts
  <1>7. ASSUME NEW t \in Trigger, TriggerInsert(t) PROVE RowInv'
    <2>. DEFINE k == OwnKey(trigger[t].slot, trigger[t].content)
    <2>1. CASE UNCHANGED outbox
      BY <1>7, <2>1, <1>u, <1>t, <1>k, <1>e DEF TriggerInsert
    <2>2. ASSUME NEW q \in RowId, NEW expires \in {"never", "ahead"}, IsNextId(q), ~KeyTaken(k),
                 outbox' = [outbox EXCEPT ![q] = TriggerRow(t, expires)]
          PROVE  RowInv'
      <3>. DEFINE row == TriggerRow(t, expires)
      <3>1. trigger[t].slot \in Slot /\ trigger[t].content \in Content /\ k \in Key
            /\ trigger[t].clean \in BOOLEAN
        BY OwnKeyType DEF TypeOK, ServiceTypeOK, TriggerRun
      <3>2. row.key = k /\ row.status \in {"draft", "pending", "failed"}
        BY <3>1 DEF TriggerRow, Inserted
      <3>3. row \in Row
        BY <2>2, <3>1 DEF TriggerRow, Inserted, Row, Status
      <3>4. k.resend = 0
        BY DEF OwnKey
      <3>5. UNCHANGED <<copies, worker, request>>
        BY <1>7 DEF TriggerInsert, dispatcherVars
      <3>. HIDE DEF row
      <3>6. outbox' = [outbox EXCEPT ![q] = row]
        BY <2>2 DEF row
      <3>. QED
        BY <2>2, <3>2, <3>3, <3>4, <3>5, <3>6, InsertKeeps
    <2>. QED
      BY <1>7, <2>1, <2>2 DEF TriggerInsert
  <1>8. ASSUME NEW c \in Clerk,
               \/ \E s \in Slot, via \in {"send", "compose"} : Preview(c, s, via)
               \/ \E r \in RowId : PreviewDraft(c, r)
               \/ Compose(c) \/ FindDraft(c) \/ CheckKey(c)
        PROVE  RowInv'
    <2>1. UNCHANGED <<outbox, copies>>
      BY <1>8 DEF Preview, PreviewDraft, Compose, FindDraft, CheckKey, outboxVars
    <2>2. /\ \A b \in Clerk \ {c} : request'[b] = request[b]
          /\ request'[c].at \in {"idle", "previewed", "composed", "queue", "insert"}
      <3>t. request \in [Clerk -> Request]
        BY DEF TypeOK, ServiceTypeOK
      <3>1. CASE Answer(c)
        BY <3>1, <3>t DEF Answer, IdleRequest
      <3>2. ASSUME NEW s \in Slot, NEW via \in {"send", "compose"}, Preview(c, s, via)
            PROVE  request'[c].at = "previewed" /\ \A b \in Clerk \ {c} : request'[b] = request[b]
        BY <3>2, <3>t DEF Preview, Request
      <3>3. ASSUME NEW r \in RowId, PreviewDraft(c, r)
            PROVE  request'[c].at = "previewed" /\ \A b \in Clerk \ {c} : request'[b] = request[b]
        BY <3>3, <3>t DEF PreviewDraft, Request
      <3>4. ASSUME Compose(c), ~Answer(c)
            PROVE  /\ request'[c].at \in {"queue", "composed"}
                   /\ \A b \in Clerk \ {c} : request'[b] = request[b]
        <4>. PICK place \in {"queue", "composed"} :
               request' = [request EXCEPT ![c].at = place]
          BY <3>4 DEF Compose
        <4>. QED
          BY <3>t DEF Request
      <3>5. ASSUME FindDraft(c)
            PROVE  request'[c].at = "queue" /\ \A b \in Clerk \ {c} : request'[b] = request[b]
        BY <3>5, <3>t DEF FindDraft, Request
      <3>6. ASSUME CheckKey(c)
            PROVE  request'[c].at = "insert" /\ \A b \in Clerk \ {c} : request'[b] = request[b]
        <4>. PICK again : request' = [request EXCEPT ![c].at = "insert", ![c].again = again]
          BY <3>6 DEF CheckKey
        <4>. QED
          BY <3>t DEF Request
      <3>. QED
        BY <1>8, <3>1, <3>2, <3>3, <3>4, <3>5, <3>6
    <2>. QED
      BY <2>1, <2>2, <1>t, <1>k, <1>u, <1>e
  <1>9. ASSUME UNCHANGED <<outbox, copies, request>> PROVE RowInv'
    BY <1>9, <1>t, <1>k, <1>u, <1>e
  <1>10. ASSUME NEW t \in Trigger,
                \/ \E s \in Slot, c \in Content : EditRecord(t, s, c)
                \/ TriggerCompose(t) \/ TriggerCheckKey(t) \/ TriggerFails(t)
         PROVE  RowInv'
    BY <1>10, <1>9 DEF EditRecord, TriggerCompose, TriggerCheckKey, TriggerFails, outboxVars
  <1>11. ASSUME NEW s \in Slot, AddSuppression(s) \/ RemoveSuppression(s) \/ DeleteRecord(s)
         PROVE  RowInv'
    BY <1>11, <1>9 DEF AddSuppression, RemoveSuppression, DeleteRecord, serviceVars
  <1>. QED
    BY <1>1, <1>2, <1>3, <1>4, <1>5, <1>6, <1>7, <1>8, <1>10, <1>11 DEF ServiceStep

LEMMA InitRows == Init => RowInv
  BY DEF Init, OutboxInit, DispatcherInit, ServiceInit, IdleWorker, IdleRequest, BlankRow, RowInv,
         HeldExists, MarkedAccepted, SentWasAccepted, KeysUnique, ResendsOwnId, Exists, RowsWith,
         Delivering, At

LEMMA NextRows == TypeOK /\ TypeOK' /\ RowInv /\ [Next]_vars => RowInv'
  <1>. SUFFICES ASSUME TypeOK, TypeOK', RowInv, [Next]_vars PROVE RowInv'
    OBVIOUS
  <1>e. ASSUME UNCHANGED <<worker, copies, request>>, \A r \in RowId : RowEvolves(r)
        PROVE  RowInv'
    <2>1. \A r \in RowId : Exists(r)' <=> Exists(r)
      BY <1>e DEF Exists, RowEvolves
    <2>2. /\ \A d \in Dispatcher : worker[d].row \in RowId
          /\ \A c \in Clerk : request[c].row \in RowId
          /\ \A r \in RowId : copies[r] \in Nat
      BY DEF TypeOK, OutboxTypeOK, DispatcherTypeOK, Worker, ServiceTypeOK, Request
    <2>3. HeldExists' /\ MarkedAccepted'
      BY <1>e, <2>1, <2>2 DEF RowInv, HeldExists, MarkedAccepted, Delivering, At
    <2>. QED
      BY <1>e, <2>2, <2>3, Evolved
  <1>1. CASE UNCHANGED vars
    BY <1>1, <1>e DEF vars, outboxVars, dispatcherVars, serviceVars, RowEvolves
  <1>2. ASSUME NEW q \in RowId, TimerElapses(q) \/ ExpiryPasses(q), UNCHANGED serviceVars
        PROVE  RowInv'
    <2>1. UNCHANGED <<worker, copies, request>>
      BY <1>2 DEF TimerElapses, ExpiryPasses, dispatcherVars, serviceVars
    <2>2. \A r \in RowId : RowEvolves(r)
      BY <1>2 DEF TimerElapses, ExpiryPasses, RowEvolves, TypeOK, OutboxTypeOK, Row
    <2>. QED
      BY <2>1, <2>2, <1>e
  <1>. QED
    BY <1>1, <1>2, DispatcherRows, ServiceRows DEF Next

LEMMA RowInvariant == Spec => [](TypeOK /\ RowInv)
  BY InitType, NextType, InitRows, NextRows, PTL DEF Spec

(* A row that says 'sent' was accepted by the SMTP server: deliver writes  *)
(* it only after sendMail has returned, and nothing else does.             *)
THEOREM SentWasAcceptedBefore == Spec => []SentWasAccepted
  <1>1. RowInv => SentWasAccepted
    BY DEF RowInv
  <1>. QED
    BY <1>1, RowInvariant, PTL

(* No two mails have the same idempotency key: the index refuses a key     *)
(* that is taken, and a #resend- key ends with its own row's id.           *)
THEOREM KeysStayUnique == Spec => []KeysUnique
  <1>1. RowInv => KeysUnique
    BY DEF RowInv
  <1>. QED
    BY <1>1, RowInvariant, PTL

=============================================================================
