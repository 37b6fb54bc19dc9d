---------------------------- MODULE MailService ----------------------------
(***************************************************************************)
(* mail.service.ts: what staff do with an email (preview, send, confirm,   *)
(* compose, cancel, retry, the do-not-mail list) and createFromTrigger,    *)
(* which domain events and the scheduler call.  A request's reads and      *)
(* writes are separate steps wherever something can happen in between.     *)
(***************************************************************************)
EXTENDS MailOutbox

CONSTANTS
  Clerk,    \* requests of staff that can be in progress at once
  Trigger,  \* trigger or scheduler runs that can be in progress at once
  MaxEdits  \* bound: how often records change

ASSUME EditsAssumption == MaxEdits \in Nat
ASSUME TriggerAssumption == IsFiniteSet(Trigger)

VARIABLES
  request,  \* [Clerk -> Request]
  trigger,  \* [Trigger -> TriggerRun]
  edits,    \* how many record changes are left
  past,     \* [Slot -> SUBSET Content], history: what a record once said,
            \* and was then changed
  overtaken \* history: rows retry() put back though they were failed no more

serviceVars == <<request, trigger, edits, past, overtaken>>

(* via is the endpoint: send, confirm (or composeSend) of a draft, or      *)
(* composeSend of an event.  content is what staff previewed, which is     *)
(* what compose() rendered once assertSendable() has compared the hashes;  *)
(* a call without a hash is a preview and a compose() with nothing in      *)
(* between.  again: the new row takes a #resend- key.                      *)
Request == [at      : {"idle", "previewed", "composed", "queue", "insert", "retry"},
            via     : {"send", "draft", "compose"},
            slot    : Slot,
            row     : RowId,
            content : Content,
            again   : BOOLEAN]

(* clean: compose() reported no issues.                                    *)
TriggerRun == [at      : {"idle", "changed", "composed", "new", "replaced"},
               slot    : Slot,
               content : Content,
               clean   : BOOLEAN]

IdleRequest == [at |-> "idle", via |-> "send", slot |-> AnySlot, row |-> 1,
                content |-> FirstContent, again |-> FALSE]
IdleTrigger == [at |-> "idle", slot |-> AnySlot, content |-> FirstContent,
                clean |-> FALSE]

(* Bound: what may insert a row starts only while the table has room for   *)
(* it and for everything in progress.                                      *)
Room ==
  Cardinality(RowsWith("none")) > Cardinality({c \in Clerk : request[c].at # "idle"})
                                + Cardinality({t \in Trigger : trigger[t].at # "idle"})

Drafts(s) == {r \in RowsWith("draft") : outbox[r].slot = s}

(* compose() finds nothing that keeps the mail from going out.             *)
Sendable(s, c) == c \notin Incomplete \union Unaddressed /\ s \notin suppressed

Answer(c) == request' = [request EXCEPT ![c] = IdleRequest]
Return(t) == trigger' = [trigger EXCEPT ![t] = IdleTrigger]

ServiceInit ==
  /\ request = [c \in Clerk |-> IdleRequest]
  /\ trigger = [t \in Trigger |-> IdleTrigger]
  /\ edits = MaxEdits
  /\ past = [s \in Slot |-> {}]
  /\ overtaken = {}

-----------------------------------------------------------------------------
(* Manual sending                                                          *)

(* preview / composePreview: staff see the mail of a slot as it is now.    *)
Preview(c, s, via) ==
  /\ request[c].at = "idle"
  /\ Room
  /\ s \notin gone
  /\ request' = [request EXCEPT ![c].at = "previewed", ![c].via = via, ![c].slot = s,
                                ![c].content = record[s]]
  /\ UNCHANGED <<outboxVars, trigger, edits, past, overtaken>>

(* previewDraft: the same, for one draft.                                  *)
PreviewDraft(c, r) ==
  /\ request[c].at = "idle"
  /\ outbox[r].status = "draft"
  /\ outbox[r].slot \notin gone
  /\ request' = [request EXCEPT ![c].at = "previewed", ![c].via = "draft",
                                ![c].slot = outbox[r].slot, ![c].row = r,
                                ![c].content = record[outbox[r].slot]]
  /\ UNCHANGED <<outboxVars, trigger, edits, past, overtaken>>

(* confirm and composeSend of a draft, send and composeSend of an event:   *)
(* the status check, compose() and assertSendable() with the preview's     *)
(* hash.  A refusal answers the request and changes nothing.               *)
Compose(c) ==
  LET s == request[c].slot
      r == request[c].row
  IN  /\ request[c].at = "previewed"
      /\ IF /\ request[c].via = "draft" => outbox[r].status = "draft"
            /\ s \notin gone
            /\ Sendable(s, record[s])
            /\ request[c].content = record[s]
         THEN request' = [request EXCEPT ![c].at =
                            IF request[c].via = "draft" THEN "queue" ELSE "composed"]
         ELSE Answer(c)
      /\ UNCHANGED <<outboxVars, trigger, edits, past, overtaken>>

(* send: the slot's newest draft when it has one.                          *)
FindDraft(c) ==
  LET drafts == Drafts(request[c].slot)
  IN  /\ request[c].at = "composed"
      /\ request[c].via = "send"
      /\ \E r \in drafts :
           /\ \A q \in drafts : q <= r
           /\ request' = [request EXCEPT ![c].at = "queue", ![c].row = r]
      /\ UNCHANGED <<outboxVars, trigger, edits, past, overtaken>>

(* Otherwise a new row, under a #resend- key when the event's own is taken.*)
(* composeSend never looks for a draft.                                    *)
CheckKey(c) ==
  LET s == request[c].slot
  IN  /\ request[c].at = "composed"
      /\ request[c].via = "send" => Drafts(s) = {}
      /\ request' = [request EXCEPT ![c].at = "insert",
           ![c].again = KeyTaken(OwnKey(s, request[c].content))]
      /\ UNCHANGED <<outboxVars, trigger, edits, past, overtaken>>

(* queueRow and composeSend's UPDATE: only a row that is still a draft.    *)
QueueDraft(c) ==
  LET r == request[c].row
  IN  /\ request[c].at = "queue"
      /\ IF outbox[r].status = "draft"
         THEN /\ outbox' = [outbox EXCEPT ![r].status = "pending",
                                          ![r].content = request[c].content,
                                          ![r].body = TRUE,
                                          ![r].expires = "never",
                                          ![r].reason = "none"]
              /\ Grant({r})
         ELSE UNCHANGED <<outbox, grants>>
      /\ Answer(c)
      /\ UNCHANGED <<record, gone, suppressed, copies, faults, trigger, edits, past, overtaken>>

(* The INSERT of a pending row; the unique index refuses a taken key.      *)
InsertPending(c) ==
  LET s   == request[c].slot
      own == OwnKey(s, request[c].content)
  IN  /\ request[c].at = "insert"
      /\ \/ /\ ~request[c].again
            /\ KeyTaken(own)
            /\ UNCHANGED <<outbox, grants>>
         \/ /\ request[c].again \/ ~KeyTaken(own)
            /\ \E r \in RowId :
                 /\ IsNextId(r)
                 /\ outbox' = [outbox EXCEPT ![r] = Inserted("pending", s,
                      IF request[c].again THEN [own EXCEPT !.resend = r] ELSE own,
                      request[c].content, "never", "none")]
                 /\ Grant({r})
      /\ Answer(c)
      /\ UNCHANGED <<record, gone, suppressed, copies, faults, trigger, edits, past, overtaken>>

(* Mutant: cancel does not look whether the row is being sent.             *)
CancelSending(c, r) ==
  /\ request[c].at = "idle"
  /\ outbox[r].status \in {"draft", "pending", "sending", "failed"}
  /\ outbox' = [outbox EXCEPT ![r].status = "cancelled", ![r].timer = "elapsed",
                              ![r].reason = "user"]
  /\ UNCHANGED <<record, gone, suppressed, copies, grants, faults, serviceVars>>

(* cancel: its first read refuses what its conditional UPDATE would not    *)
(* match either, so the two are one step.                                  *)
Cancel(c, r) ==
  /\ request[c].at = "idle"
  /\ outbox[r].status \in {"draft", "pending", "failed"}
  /\ outbox' = [outbox EXCEPT ![r].status = "cancelled", ![r].timer = "elapsed",
                              ![r].reason = "user"]
  /\ UNCHANGED <<record, gone, suppressed, copies, grants, faults, serviceVars>>

(* retry: reads the status ...                                             *)
RetryRead(c, r) ==
  /\ request[c].at = "idle"
  /\ outbox[r].status = "failed"
  /\ grants[r] < MaxGrants
  /\ request' = [request EXCEPT ![c].at = "retry", ![c].row = r]
  /\ UNCHANGED <<outboxVars, trigger, edits, past, overtaken>>

(* ... and then writes, whatever the status has become.                    *)
RetryWrite(c) ==
  /\ request[c].at = "retry"
  /\ outbox' = [outbox EXCEPT ![request[c].row].status = "pending",
                              ![request[c].row].attempts = 0,
                              ![request[c].row].timer = "elapsed",
                              ![request[c].row].reason = "none"]
  /\ Grant({request[c].row})
  /\ overtaken' = IF outbox[request[c].row].status = "failed" THEN overtaken
                  ELSE overtaken \union {request[c].row}
  /\ Answer(c)
  /\ UNCHANGED <<record, gone, suppressed, copies, faults, trigger, edits, past>>

AddSuppression(s) ==
  /\ s \notin suppressed
  /\ Spend("suppress")
  /\ suppressed' = suppressed \union {s}
  /\ UNCHANGED <<outbox, record, gone, copies, grants, serviceVars>>

RemoveSuppression(s) ==
  /\ s \in suppressed
  /\ suppressed' = suppressed \ {s}
  /\ UNCHANGED <<outbox, record, gone, copies, grants, faults, serviceVars>>

-----------------------------------------------------------------------------
(* createFromTrigger                                                       *)

(* A record is saved and its domain event emitted, or the scheduler finds  *)
(* the record due.                                                         *)
EditRecord(t, s, c) ==
  /\ trigger[t].at = "idle"
  /\ Room
  /\ s \notin gone
  /\ edits > 0
  /\ edits' = edits - 1
  /\ past' = [past EXCEPT ![s] = IF c = record[s] THEN @ ELSE @ \union {record[s]}]
  /\ record' = [record EXCEPT ![s] = c]
  /\ trigger' = [trigger EXCEPT ![t].at = "changed", ![t].slot = s]
  /\ UNCHANGED <<outbox, gone, suppressed, copies, grants, faults, request, overtaken>>

DeleteRecord(s) ==
  /\ s \notin gone
  /\ Spend("delete")
  /\ gone' = gone \union {s}
  /\ UNCHANGED <<outbox, record, suppressed, copies, grants, serviceVars>>

(* compose(): without a record or a recipient there is nothing to suggest. *)
TriggerCompose(t) ==
  LET s == trigger[t].slot
  IN  /\ trigger[t].at = "changed"
      /\ IF s \in gone \/ record[s] \in Unaddressed
         THEN Return(t)
         ELSE trigger' = [trigger EXCEPT ![t].at = "composed", ![t].content = record[s],
                                         ![t].clean = Sendable(s, record[s])]
      /\ UNCHANGED <<outboxVars, request, edits, past, overtaken>>

TriggerCheckKey(t) ==
  /\ trigger[t].at = "composed"
  /\ IF KeyTaken(OwnKey(trigger[t].slot, trigger[t].content))
     THEN Return(t)
     ELSE trigger' = [trigger EXCEPT ![t].at = "new"]
  /\ UNCHANGED <<outboxVars, request, edits, past, overtaken>>

(* Mutant: the older drafts stay.                                          *)
KeepDrafts(t) ==
  /\ trigger[t].at = "new"
  /\ trigger' = [trigger EXCEPT ![t].at = "replaced"]
  /\ UNCHANGED <<outboxVars, request, edits, past, overtaken>>

(* "Replaced by a newer version".                                          *)
ReplaceDrafts(t) ==
  /\ trigger[t].at = "new"
  /\ outbox' = [r \in RowId |-> IF r \in Drafts(trigger[t].slot)
                                THEN [outbox[r] EXCEPT !.status = "cancelled", !.reason = "newer"]
                                ELSE outbox[r]]
  /\ trigger' = [trigger EXCEPT ![t].at = "replaced"]
  /\ UNCHANGED <<record, gone, suppressed, copies, grants, faults, request, edits, past, overtaken>>

(* What the INSERT stores: a draft that expires after draftTtlDays, or for *)
(* an auto event a queued row, or a failed one when compose() reported     *)
(* issues.  The scheduler's rows expire with their occasion.               *)
TriggerRow(t, expires) ==
  LET s == trigger[t].slot
      c == trigger[t].content
      k == OwnKey(s, c)
  IN  CASE s \notin AutoSlot      -> Inserted("draft", s, k, c, "ahead", "none")
        [] s \in AutoSlot /\ trigger[t].clean  -> Inserted("pending", s, k, c, expires, "none")
        [] s \in AutoSlot /\ ~trigger[t].clean -> Inserted("failed", s, k, c, expires, "issues")

(* ER_DUP_ENTRY, "raced with an identical trigger", is swallowed.          *)
TriggerInsert(t) ==
  LET k == OwnKey(trigger[t].slot, trigger[t].content)
  IN  /\ trigger[t].at = "replaced"
      /\ \/ /\ KeyTaken(k)
            /\ UNCHANGED <<outbox, grants>>
         \/ /\ ~KeyTaken(k)
            /\ \E r \in RowId, expires \in {"never", "ahead"} :
                 /\ IsNextId(r)
                 /\ outbox' = [outbox EXCEPT ![r] = TriggerRow(t, expires)]
                 /\ Grant(IF TriggerRow(t, expires).status = "pending" THEN {r} ELSE {})
      /\ Return(t)
      /\ UNCHANGED <<record, gone, suppressed, copies, faults, request, edits, past, overtaken>>

(* An error is logged and dropped, or the container dies half-way.         *)
TriggerFails(t) ==
  /\ trigger[t].at # "idle"
  /\ Spend("crash") \/ Spend("database")
  /\ Return(t)
  /\ UNCHANGED <<outbox, record, gone, suppressed, copies, grants, request, edits, past, overtaken>>

ServiceStep ==
  \/ \E c \in Clerk :
       \/ \E s \in Slot, via \in {"send", "compose"} : Preview(c, s, via)
       \/ \E r \in RowId : PreviewDraft(c, r)
       \/ Compose(c)
       \/ FindDraft(c)
       \/ QueueDraft(c)
       \/ CheckKey(c)
       \/ InsertPending(c)
       \/ \E r \in RowId : Cancel(c, r) \/ RetryRead(c, r)
       \/ RetryWrite(c)
  \/ \E s \in Slot : AddSuppression(s) \/ RemoveSuppression(s) \/ DeleteRecord(s)
  \/ \E t \in Trigger :
       \/ \E s \in Slot, c \in Content : EditRecord(t, s, c)
       \/ TriggerCompose(t)
       \/ TriggerCheckKey(t)
       \/ ReplaceDrafts(t)
       \/ TriggerInsert(t)
       \/ TriggerFails(t)

ServiceTypeOK ==
  /\ request \in [Clerk -> Request]
  /\ trigger \in [Trigger -> TriggerRun]
  /\ edits \in 0..MaxEdits
  /\ past \in [Slot -> SUBSET Content]
  /\ overtaken \subseteq RowId

=============================================================================
