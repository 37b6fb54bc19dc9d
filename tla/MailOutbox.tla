----------------------------- MODULE MailOutbox -----------------------------
(***************************************************************************)
(* The mail_outbox table (mail-outbox.entity.ts) and what its two users,   *)
(* MailService and MailDispatcher, share: the rows, the records the mails  *)
(* are about, and the SMTP server's side of a delivery.                    *)
(*                                                                         *)
(* A slot is an (event_key, entity_type, entity_id) triple.  The data of a *)
(* record that its mail is rendered from is one value of Content, and the  *)
(* idempotency key of an event is a function of the slot and that value    *)
(* (MailEventSpec.idempotencyKey); a #resend- suffix makes it fresh.       *)
(***************************************************************************)
EXTENDS Integers, FiniteSets

CONSTANTS
  MaxRows,      \* bound: how many rows the auto-increment id may hand out
  MaxGrants,    \* bound: staff retry a row only until it was queued so often
  Slot,
  AutoSlot,         \* the slots whose event has mode 'auto'; the rest: 'confirm'
  Content,
  FirstContent, \* what every record holds initially
  Incomplete,   \* contents for which compose() reports issues
  Unaddressed,  \* contents for which compose() finds no recipient
  MaxAttempts,  \* MAX_ATTEMPTS of mail-policy.ts
  FaultKind,    \* the environment's misfortunes, each with a bound:
  MaxFaults     \* [FaultKind -> Nat]

ASSUME RowsAssumption == MaxRows \in Nat \ {0} /\ MaxGrants \in Nat
ASSUME SlotAssumption == Slot # {} /\ AutoSlot \subseteq Slot
ASSUME ContentAssumption ==
  /\ FirstContent \in Content
  /\ Incomplete \subseteq Content
  /\ Unaddressed \subseteq Content
ASSUME AttemptsAssumption == MaxAttempts \in Nat \ {0}
ASSUME FaultAssumption ==
  /\ FaultKind = {"crash", "slow", "database", "retention", "delete", "suppress"}
  /\ MaxFaults \in [FaultKind -> Nat]

VARIABLES
  outbox,     \* [RowId -> Row], status "none" for an id not handed out yet
  record,     \* [Slot -> Content], what compose() would render now
  gone,       \* slots whose record was deleted
  suppressed, \* slots whose address is on the do-not-mail list
  copies,     \* [RowId -> Nat], how often the SMTP server accepted the row
  grants,     \* [RowId -> Nat], history: how often the row was put in the queue
  faults      \* [FaultKind -> Nat], what is left of MaxFaults

outboxVars == <<outbox, record, gone, suppressed, copies, grants, faults>>

RowId == 1..MaxRows

(* MailOutboxStatus, with "none" for an id that is not in the table. *)
Status == {"none", "draft", "pending", "sending", "sent", "failed",
           "cancelled", "suppressed"}

(* An idempotency_key: the event's own, or one made unique with #resend-.  *)
Key == [slot : Slot, content : Content, resend : 0..MaxRows]

(* The columns the behaviour depends on.  expires is expires_at; timer is  *)
(* the column the dispatcher compares with the clock for this status:      *)
(* next_attempt_at of a pending row, updated_at + STUCK_AFTER_MS of one    *)
(* being sent, sent_at + 24 h of a sent one.                               *)
Row == [status   : Status,
        slot     : Slot,
        key      : Key,
        content  : Content,          \* what subject, html and text say
        body     : BOOLEAN,          \* html and text are not NULL
        attempts : Nat,
        expires  : {"never", "ahead", "past"},
        timer    : {"running", "elapsed"},
        reason   : {"none", "user", "newer", "expired", "deleted", "issues"}]

(* Mutant: an event whose key leaves out what the mail says.               *)
KeyOfSlot(s, c) == [slot |-> s, content |-> FirstContent, resend |-> 0]

OwnKey(s, c) == [slot |-> s, content |-> c, resend |-> 0]

AnySlot == CHOOSE s \in Slot : TRUE

BlankRow ==
  [status |-> "none", slot |-> AnySlot, key |-> OwnKey(AnySlot, FirstContent),
   content |-> FirstContent, body |-> FALSE, attempts |-> 0,
   expires |-> "never", timer |-> "elapsed", reason |-> "none"]

Exists(r) == outbox[r].status # "none"
RowsWith(status) == {r \in RowId : outbox[r].status = status}
KeyTaken(k) == \E r \in RowId : Exists(r) /\ outbox[r].key = k

(* AUTO_INCREMENT: ids are handed out in order.                            *)
IsNextId(r) == ~Exists(r) /\ \A q \in 1..(r - 1) : Exists(q)

(* Mutant: one attempt too many.                                           *)
GivesUpLate(attempts) == attempts > MaxAttempts

(* mail-policy.ts: nextRetryAt returns null.                               *)
GivesUp(attempts) == attempts >= MaxAttempts

(* A row stored by INSERT: composed from content c under key k.            *)
Inserted(status, s, k, c, expires, reason) ==
  [status |-> status, slot |-> s, key |-> k, content |-> c, body |-> TRUE,
   attempts |-> 0, expires |-> expires, timer |-> "elapsed", reason |-> reason]

(* Every entry into the queue grants the dispatcher one delivery.          *)
Grant(S) == grants' = [r \in RowId |-> IF r \in S THEN grants[r] + 1 ELSE grants[r]]

Spend(kind) ==
  /\ faults[kind] > 0
  /\ faults' = [faults EXCEPT ![kind] = @ - 1]

OutboxInit ==
  /\ outbox = [r \in RowId |-> BlankRow]
  /\ record = [s \in Slot |-> FirstContent]
  /\ gone = {}
  /\ suppressed = {}
  /\ copies = [r \in RowId |-> 0]
  /\ grants = [r \in RowId |-> 0]
  /\ faults = MaxFaults

OutboxTypeOK ==
  /\ outbox \in [RowId -> Row]
  /\ record \in [Slot -> Content]
  /\ gone \subseteq Slot
  /\ suppressed \subseteq Slot
  /\ copies \in [RowId -> Nat]
  /\ grants \in [RowId -> Nat]
  /\ faults \in [FaultKind -> Nat]

=============================================================================
