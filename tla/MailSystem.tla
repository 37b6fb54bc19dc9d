----------------------------- MODULE MailSystem -----------------------------
(***************************************************************************)
(* The mail pipeline: staff requests, domain-event triggers and the        *)
(* dispatchers of all backend containers over one outbox table.            *)
(***************************************************************************)
EXTENDS MailDispatcher, MailService

vars == <<outboxVars, dispatcherVars, serviceVars>>

Init ==
  /\ OutboxInit
  /\ DispatcherInit
  /\ ServiceInit

Next ==
  \/ \E d \in Dispatcher : DispatcherStep(d) /\ UNCHANGED serviceVars
  \/ \E r \in RowId : (TimerElapses(r) \/ ExpiryPasses(r)) /\ UNCHANGED serviceVars
  \/ ServiceStep /\ UNCHANGED dispatcherVars

Spec == Init /\ [][Next]_vars

(* setInterval keeps ticking, every await settles (the SMTP connection has *)
(* timeouts), and time passes.  Nothing is asked of staff, of triggers, or *)
(* of misfortunes.                                                         *)
Fairness ==
  /\ \A d \in Dispatcher : WF_vars(DispatcherProgress(d) /\ UNCHANGED serviceVars)
  /\ \A r \in RowId : WF_vars(TimerElapses(r) /\ UNCHANGED serviceVars)

FairSpec == Spec /\ Fairness

TypeOK ==
  /\ OutboxTypeOK
  /\ DispatcherTypeOK
  /\ ServiceTypeOK

-----------------------------------------------------------------------------
(* Delivery.                                                               *)

(* The SMTP server accepts a row no more often than the row was put in the *)
(* queue: by its creation or confirmation, a retry, a recovery of a stuck  *)
(* delivery, or a delivered mail whose 'sent' could not be stored.  Claims *)
(* are exclusive however the containers interleave (processBatch's         *)
(* conditional UPDATE), so nothing else can duplicate a mail.              *)
NoCopyWithoutGrant == \A r \in RowId : copies[r] <= grants[r]

(* Why: a grant is spent once at most, as a copy, as a delivery in         *)
(* progress, or as a place in the queue.                                   *)
Queued(r) == IF outbox[r].status = "pending" THEN 1 ELSE 0

WithinGrants ==
  \A r \in RowId : copies[r] + Cardinality(Holders(r)) + Queued(r) <= grants[r]

(* A row says 'sent' only if the SMTP server accepted it (deliver).        *)
SentWasAccepted == \A r \in RowsWith("sent") : copies[r] > 0

(* The day's cap is read before the throttle and the send, without a lock: *)
(* the containers together overshoot it by at most one mail each but one.  *)
CapOvershootBounded ==
  Cardinality(SentToday) <= DailyCap + Cardinality(Dispatcher) - 1

(* One container does not try a row more than MAX_ATTEMPTS times, plus     *)
(* once for every delivery that was cut off and recovered, whichever       *)
(* retries and deferrals come in between (nextRetryAt, recoverStuck).      *)
AttemptsBounded ==
  \A r \in RowId :
    outbox[r].attempts <= MaxAttempts + (MaxFaults["crash"] - faults["crash"])
                                      + (MaxFaults["slow"] - faults["slow"])

(* The unique index on idempotency_key: the same key is the same mail.     *)
KeysUnique ==
  \A q, r \in RowId : Exists(q) /\ Exists(r) /\ outbox[q].key = outbox[r].key => q = r

(* Until the first crash, stall, database error, or retry that comes after *)
(* another one, every email keeps the promise of MailPromise: one copy at  *)
(* most, never after it was withdrawn, and sent or withdrawn mails stay so.*)
Calm ==
  /\ \A kind \in {"crash", "slow", "database"} : faults[kind] = MaxFaults[kind]
  /\ overtaken = {}

LetterStage ==
  [r \in RowId |->
     IF copies[r] > 0 THEN "delivered"
     ELSE CASE outbox[r].status = "none" -> "absent"
            [] outbox[r].status = "draft" -> "draft"
            [] outbox[r].status \in {"pending", "sending"} -> "queued"
            [] outbox[r].status = "sent" -> "delivered"
            [] outbox[r].status = "failed" -> "failed"
            [] outbox[r].status \in {"cancelled", "suppressed"} -> "withdrawn"]

Promise == INSTANCE MailPromise WITH Letter <- RowId, stage <- LetterStage, calm <- Calm

KeepsPromise == Promise!Spec

(* Whatever is queued is settled at last, crashes, full days and temporary *)
(* SMTP errors notwithstanding (recoverStuck, defer, nextRetryAt).         *)
QueueDrains ==
  \A r \in RowId : outbox[r].status \in {"pending", "sending"}
                     ~> outbox[r].status \notin {"pending", "sending"}

-----------------------------------------------------------------------------
(* Drafts.                                                                 *)

TriggersAtRest == \A t \in Trigger : trigger[t].at = "idle"

(* No run of a trigger can have been cut short.                            *)
NoneCutShort == \A kind \in {"crash", "database"} : faults[kind] = MaxFaults[kind]

(* Once an email was suggested for a record, the record's present data has *)
(* a row that no other one replaced: when no trigger runs, staff see a     *)
(* draft of it, or it went out, expired, or they dropped it, whatever they *)
(* do meanwhile (createFromTrigger).  Not so of data that changed and then *)
(* changed back: its key is taken by the row that was replaced.            *)
Suggested(s, c) ==
  \E r \in RowId : /\ Exists(r)
                   /\ outbox[r].slot = s
                   /\ outbox[r].key.content = c
                   /\ ~(outbox[r].status = "cancelled" /\ outbox[r].reason = "newer")

HasMail(s) == \E r \in RowId : Exists(r) /\ outbox[r].slot = s

CurrentIsSuggested ==
  TriggersAtRest /\ NoneCutShort => \A s \in Slot \ gone :
    HasMail(s) /\ record[s] \notin Unaddressed \union past[s] => Suggested(s, record[s])

(* An older draft of an email is withdrawn before a newer one is stored.   *)
(* Runs that race both withdraw and then both store theirs: a record never *)
(* has more open drafts than there are such runs, however often it changes *)
(* and whatever staff do in between (createFromTrigger).                   *)
OpenDraftsBounded == \A s \in Slot : Cardinality(Drafts(s)) <= Cardinality(Trigger)

=============================================================================
