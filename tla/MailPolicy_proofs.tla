------------------------- MODULE MailPolicy_proofs -------------------------
(***************************************************************************)
(* What the mail policy and the service promise beyond exclusive claims:   *)
(* the day's cap, the attempts of a row, one open draft of an email, and   *)
(* the promise of MailPromise while all is calm.                           *)
(***************************************************************************)
EXTENDS MailSystem_proofs

-----------------------------------------------------------------------------
(* The day's cap.                                                          *)

(* The containers that found room in the day and have not yet stored the   *)
(* outcome, and the rows that count against the cap or still may.          *)
PastQuota == {d \in Dispatcher : worker[d].at \in {"smtp", "mark"}}
InFlight == {worker[d].row : d \in PastQuota}
Booked == SentToday \union InFlight

(* A container that finds room adds one row to fewer than DailyCap sent    *)
(* ones and to what the others have in flight.                             *)
WithinOvershoot == Cardinality(Booked) <= DailyCap + Cardinality(Dispatcher) - 1

LEMMA DispatcherCount ==
  Cardinality(Dispatcher) \in Nat /\ Cardinality(Dispatcher) >= 1
  BY DispatcherAssumption, FS_CardinalityType, FS_EmptySet

LEMMA SentFinite ==
  IsFiniteSet(SentToday) /\ Cardinality(SentToday) \in Nat
  <1>1. SentToday \in SUBSET RowId
    BY DEF SentToday, RowsWith
  <1>2. IsFiniteSet(RowId)
    BY RowsAssumption, FS_Interval DEF RowId
  <1>. QED
    BY <1>1, <1>2, FS_Subset, FS_CardinalityType

(* As many rows are in flight as there are containers, at most.            *)
LEMMA InFlightFinite ==
  /\ IsFiniteSet(InFlight)
  /\ Cardinality(InFlight) \in Nat
  /\ Cardinality(InFlight) <= Cardinality(Dispatcher)
  <1>. DEFINE f == [d \in PastQuota |-> worker[d].row]
  <1>1. IsFiniteSet(PastQuota) /\ Cardinality(PastQuota) <= Cardinality(Dispatcher)
    <2>1. PastQuota \in SUBSET Dispatcher
      BY DEF PastQuota
    <2>. QED
      BY <2>1, DispatcherAssumption, FS_Subset
  <1>2. f \in Surjection(PastQuota, InFlight)
    BY DEF Surjection, InFlight
  <1>3. IsFiniteSet(InFlight) /\ Cardinality(InFlight) <= Cardinality(PastQuota)
    BY <1>1, <1>2, FS_Surjection
  <1>4. Cardinality(InFlight) \in Nat /\ Cardinality(PastQuota) \in Nat
    BY <1>1, <1>3, FS_CardinalityType
  <1>. QED
    BY <1>1, <1>3, <1>4, DispatcherCount

LEMMA BookedFinite ==
  /\ IsFiniteSet(Booked) /\ Cardinality(Booked) \in Nat
  /\ Cardinality(Booked) <= Cardinality(SentToday) + Cardinality(InFlight)
  <1>1. IsFiniteSet(Booked)
    BY SentFinite, InFlightFinite, FS_Union DEF Booked
  <1>2. /\ IsFiniteSet(SentToday \cap InFlight)
        /\ Cardinality(SentToday \cap InFlight) \in Nat
    BY SentFinite, FS_Intersection, FS_Subset, FS_CardinalityType
  <1>3. Cardinality(Booked)
          = Cardinality(SentToday) + Cardinality(InFlight) - Cardinality(SentToday \cap InFlight)
    BY SentFinite, InFlightFinite, FS_Union DEF Booked
  <1>4. Cardinality(Booked) \in Nat
    BY <1>1, FS_CardinalityType
  <1>. QED
    BY <1>1, <1>2, <1>3, <1>4, SentFinite, InFlightFinite

(* Most steps book no row.                                                 *)
LEMMA NothingBooked ==
  ASSUME WithinOvershoot, Booked' \subseteq Booked
  PROVE  WithinOvershoot'
  <1>1. Cardinality(Booked') <= Cardinality(Booked) /\ Cardinality(Booked') \in Nat
    BY BookedFinite, FS_Subset, FS_CardinalityType
  <1>2. Cardinality(Booked)' = Cardinality(Booked')
    OBVIOUS
  <1>. QED
    BY <1>1, <1>2, BookedFinite, DispatcherCount, ConfigAssumption DEF WithinOvershoot

(* A row counts as sent today because it did before: its status and its    *)
(* clock say so.                                                           *)
LEMMA SentByRows ==
  ASSUME \A r \in RowId : outbox'[r].status = "sent" /\ outbox'[r].timer = "running"
                            => outbox[r].status = "sent" /\ outbox[r].timer = "running"
  PROVE  SentToday' \subseteq SentToday
  BY DEF SentToday, RowsWith

(* A step of one container that does not take it past the quota.           *)
LEMMA DispatcherBooks ==
  ASSUME WithinOvershoot, NEW d \in Dispatcher,
         \A e \in Dispatcher \ {d} : worker'[e] = worker[e],
         worker'[d].at \in {"smtp", "mark"}
           => worker[d].at \in {"smtp", "mark"} /\ worker'[d].row = worker[d].row,
         SentToday' \subseteq Booked
  PROVE  WithinOvershoot'
  <1>1. InFlight' \subseteq InFlight
    BY DEF InFlight, PastQuota
  <1>. QED
    BY <1>1, NothingBooked DEF Booked

(* A step that leaves the containers where they are.                       *)
LEMMA OthersBook ==
  ASSUME WithinOvershoot, UNCHANGED worker, SentToday' \subseteq SentToday
  PROVE  WithinOvershoot'
  <1>1. InFlight' = InFlight
    BY DEF InFlight, PastQuota
  <1>. QED
    BY <1>1, NothingBooked DEF Booked

LEMMA RowTyped ==
  ASSUME TypeOK, NEW r \in RowId
  PROVE  outbox[r] \in Row
  BY DEF TypeOK, OutboxTypeOK

(* The UPDATE of queueRow makes one draft 'pending', or nothing at all.    *)
LEMMA QueuesOneDraft ==
  ASSUME TypeOK, NEW c \in Clerk, QueueDraft(c)
  PROVE  \/ UNCHANGED outbox
         \/ \E q \in RowId :
              /\ outbox[q].status = "draft"
              /\ outbox'[q].status = "pending"
              /\ outbox'[q].attempts = outbox[q].attempts
              /\ \A r \in RowId \ {q} : outbox'[r] = outbox[r]
  <1>1. CASE UNCHANGED outbox
    BY <1>1
  <1>2. CASE ~UNCHANGED outbox
    <2>1. request[c].row \in RowId
      BY DEF TypeOK, ServiceTypeOK, Request
    <2>. PICK q \in RowId : q = request[c].row
      BY <2>1
    <2>. DEFINE new == [outbox[q] EXCEPT !.status = "pending", !.content = request[c].content,
                                         !.body = TRUE, !.expires = "never",
                                         !.reason = "none"]
    <2>2. outbox' = [outbox EXCEPT ![q] = new] /\ outbox[q].status = "draft"
      BY <1>2 DEF QueueDraft
    <2>3. new.status = "pending" /\ new.attempts = outbox[q].attempts
      BY RowTyped DEF Row
    <2>. HIDE DEF new
    <2>4. /\ outbox'[q].status = "pending" /\ outbox'[q].attempts = outbox[q].attempts
          /\ \A r \in RowId \ {q} : outbox'[r] = outbox[r]
      BY <2>2, <2>3 DEF TypeOK, OutboxTypeOK
    <2>. QED
      BY <2>2, <2>4
  <1>. QED
    BY <1>1, <1>2

(* An UPDATE by id to anything but 'sent' takes the row out of the count.  *)
LEMMA WrittenOff ==
  ASSUME TypeOK, NEW q \in RowId, NEW status, NEW timer, NEW reason,
         Write(q, status, timer, reason), status # "sent"
  PROVE  SentToday' \subseteq SentToday
  <1>1. \A r \in RowId \ {q} : outbox'[r] = outbox[r]
    BY DEF Write, TypeOK, OutboxTypeOK
  <1>2. outbox'[q].status = status
    BY DEF Write, TypeOK, OutboxTypeOK, Row
  <1>. QED
    BY <1>1, <1>2, SentByRows

LEMMA DispatcherOvershoot ==
  ASSUME TypeOK, WithinOvershoot, NEW d \in Dispatcher, DispatcherStep(d)
  PROVE  WithinOvershoot'
  <1>w. worker[d].row \in RowId
    BY DEF TypeOK, DispatcherTypeOK, Worker
  <1>b. SentToday \subseteq Booked
    BY DEF Booked
  <1>u. UNCHANGED outbox => SentToday' = SentToday
    BY DEF SentToday, RowsWith
  (* A step to a place from where the quota is yet to be checked.          *)
  <1>g. ASSUME NEW place, Goto(d, place), place \notin {"smtp", "mark"},
               SentToday' \subseteq SentToday
        PROVE  WithinOvershoot'
    BY <1>g, <1>b, Moves, DispatcherBooks
  <1>n. ASSUME NextInBatch(d), SentToday' \subseteq SentToday
        PROVE  WithinOvershoot'
    BY <1>n, <1>b, Moves, DispatcherBooks
  <1>1. CASE ExpireDrafts(d)
    <2>1. \A r \in RowId : outbox'[r] = outbox[r] \/ outbox'[r].status = "cancelled"
      BY <1>1, RowTyped DEF ExpireDrafts, Row
    <2>. QED
      BY <1>1, <2>1, <1>g, SentByRows DEF ExpireDrafts
  <1>2. CASE RecoverStuck(d)
    <2>1. \A r \in RowId : outbox'[r] = outbox[r] \/ outbox'[r].status = "pending"
      BY <1>2, RowTyped DEF RecoverStuck, Row
    <2>. QED
      BY <1>2, <2>1, <1>g, SentByRows DEF RecoverStuck
  <1>3. CASE PurgeOldBodies(d)
    <2>1. \A r \in RowId : /\ outbox'[r].status = outbox[r].status
                           /\ \/ outbox'[r].timer = outbox[r].timer
                              \/ outbox'[r].status = "sending"
      <3>1. CASE UNCHANGED outbox
        BY <3>1
      <3>2. ASSUME NEW old \in SUBSET RowId,
                   outbox' = [r \in RowId |-> IF r \in old
                              THEN [outbox[r] EXCEPT !.body = FALSE,
                                      !.timer = IF outbox[r].status = "sending"
                                                THEN "running" ELSE @]
                              ELSE outbox[r]],
                   NEW r \in RowId
            PROVE  /\ outbox'[r].status = outbox[r].status
                   /\ outbox'[r].timer = outbox[r].timer \/ outbox'[r].status = "sending"
        BY <3>2, RowTyped DEF Row
      <3>. QED
        BY <1>3, <3>1, <3>2 DEF PurgeOldBodies
    <2>2. SentToday' \subseteq SentToday
      BY <2>1, SentByRows
    <2>. QED
      BY <1>3, <2>2, <1>g DEF PurgeOldBodies
  <1>4. CASE SelectDue(d)
    <2>1. /\ \A e \in Dispatcher \ {d} : worker'[e] = worker[e]
          /\ worker'[d].at = "batch" /\ UNCHANGED outbox
      BY <1>4 DEF SelectDue, TypeOK, DispatcherTypeOK, Worker, outboxVars
    <2>. QED
      BY <2>1, <1>b, <1>u, DispatcherBooks
  <1>5. CASE EndBatch(d)
    BY <1>5, <1>g, <1>u DEF EndBatch, outboxVars
  <1>6. ASSUME NEW r \in RowId, Claim(d, r) PROVE WithinOvershoot'
    <2>1. /\ \A e \in Dispatcher \ {d} : worker'[e] = worker[e]
          /\ worker'[d].at \in {"reread", "batch"}
      BY <1>6 DEF Claim, At, TypeOK, DispatcherTypeOK, Worker
    <2>2. \A q \in RowId : outbox'[q] = outbox[q] \/ outbox'[q].status = "sending"
      BY <1>6, RowTyped DEF Claim, TypeOK, OutboxTypeOK, Row
    <2>3. SentToday' \subseteq SentToday
      BY <2>2, SentByRows
    <2>. QED
      BY <2>1, <2>3, <1>b, DispatcherBooks
  <1>7. CASE Reread(d)
    <2>1. /\ \A e \in Dispatcher \ {d} : worker'[e] = worker[e]
          /\ worker'[d].at = "record" /\ UNCHANGED outbox
      BY <1>7 DEF Reread, TypeOK, DispatcherTypeOK, Worker, outboxVars
    <2>. QED
      BY <2>1, <1>b, <1>u, DispatcherBooks
  <1>8. CASE CheckRecord(d)
    BY <1>8, <1>w, <1>g, <1>n, <1>u, WrittenOff DEF CheckRecord
  <1>9. CASE CheckSuppression(d)
    BY <1>9, <1>w, <1>g, <1>n, <1>u, WrittenOff DEF CheckSuppression
  <1>10. CASE CheckQuota(d)
    <2>. DEFINE r == worker[d].row
    <2>1. ASSUME outbox[r].slot \notin Credentialed \/ Cardinality(SentToday) >= DailyCap
          PROVE  WithinOvershoot'
      <3>1. NextInBatch(d)
        BY <1>10, <2>1 DEF CheckQuota
      <3>2. \A q \in RowId : outbox'[q] = outbox[q] \/ outbox'[q].status = "pending"
        BY <1>10, <2>1, <1>w, RowTyped DEF CheckQuota, TypeOK, OutboxTypeOK, Row
      <3>. QED
        BY <3>1, <3>2, <1>n, SentByRows
    <2>2. ASSUME ~(outbox[r].slot \notin Credentialed \/ Cardinality(SentToday) >= DailyCap)
          PROVE  WithinOvershoot'
      <3>1. SentToday' = SentToday
        BY <1>10, <2>2, <1>u DEF CheckQuota
      <3>2. Cardinality(SentToday)' + 1 <= DailyCap
        BY <2>2, <3>1, SentFinite, ConfigAssumption
      <3>3. /\ (Cardinality(SentToday) \in Nat)'
            /\ (Cardinality(InFlight) \in Nat)'
            /\ (Cardinality(InFlight) <= Cardinality(Dispatcher))'
            /\ (Cardinality(Booked) \in Nat)'
            /\ (Cardinality(Booked) <= Cardinality(SentToday) + Cardinality(InFlight))'
        BY BookedFinite, InFlightFinite, SentFinite, PTL
      <3>. QED
        BY <3>2, <3>3, DispatcherCount, ConfigAssumption DEF WithinOvershoot
    <2>. QED
      BY <2>1, <2>2
  <1>11. CASE SmtpAccepts(d)
    BY <1>11, <1>b, <1>u, Moves, DispatcherBooks DEF SmtpAccepts, At
  <1>12. CASE SmtpRejects(d)
    BY <1>12, <1>w, <1>n, WrittenOff DEF SmtpRejects, AfterError
  <1>13. CASE MarkSent(d)
    <2>1. \A q \in RowId \ {worker[d].row} : outbox'[q] = outbox[q]
      BY <1>13 DEF MarkSent, Write, TypeOK, OutboxTypeOK
    <2>2. worker[d].row \in InFlight
      BY <1>13 DEF MarkSent, At, InFlight, PastQuota
    <2>3. SentToday' \subseteq Booked
      BY <2>1, <2>2 DEF SentToday, RowsWith, Booked
    <2>. QED
      BY <1>13, <2>3, Moves, DispatcherBooks DEF MarkSent
  <1>14. CASE LogContact(d)
    BY <1>14, <1>n, <1>u DEF LogContact, outboxVars
  <1>15. CASE MarkSentFails(d)
    BY <1>15, <1>w, <1>n, WrittenOff DEF MarkSentFails, AfterError
  <1>16. CASE Crash(d)
    <2>1. /\ \A e \in Dispatcher \ {d} : worker'[e] = worker[e]
          /\ worker'[d].at = "idle" /\ UNCHANGED outbox
      BY <1>16 DEF Crash, IdleWorker, TypeOK, DispatcherTypeOK
    <2>. QED
      BY <2>1, <1>b, <1>u, DispatcherBooks
  <1>. QED
    BY <1>1, <1>2, <1>3, <1>4, <1>5, <1>6, <1>7, <1>8, <1>9, <1>10, <1>11, <1>12, <1>13,
       <1>14, <1>15, <1>16 DEF DispatcherStep, DispatcherProgress

(* Nothing staff or triggers do makes a row 'sent'.                        *)
LEMMA ServiceOvershoot ==
  ASSUME TypeOK, WithinOvershoot, ServiceStep, UNCHANGED dispatcherVars
  PROVE  WithinOvershoot'
  <1>. SUFFICES SentToday' \subseteq SentToday
    BY OthersBook DEF dispatcherVars
  <1>u. UNCHANGED outbox => SentToday' \subseteq SentToday
    BY DEF SentToday, RowsWith
  <1>s. ASSUME NEW r \in RowId, NEW row, outbox' = [outbox EXCEPT ![r] = row],
               row.status # "sent"
        PROVE  SentToday' \subseteq SentToday
    <2>1. /\ outbox'[r] = row
          /\ \A q \in RowId \ {r} : outbox'[q] = outbox[q]
      BY <1>s DEF TypeOK, OutboxTypeOK
    <2>. QED
      BY <2>1, <1>s, SentByRows
  <1>1. ASSUME NEW c \in Clerk, QueueDraft(c) PROVE SentToday' \subseteq SentToday
    <2>1. CASE UNCHANGED outbox
      BY <2>1, <1>u
    <2>2. CASE ~UNCHANGED outbox
      <3>1. \A q \in RowId : outbox'[q] = outbox[q] \/ outbox'[q].status = "pending"
        BY <1>1, <2>2, QueuesOneDraft
      <3>. QED
        BY <3>1, SentByRows
    <2>. QED
      BY <2>1, <2>2
  <1>2. ASSUME NEW c \in Clerk, InsertPending(c) PROVE SentToday' \subseteq SentToday
    <2>1. CASE UNCHANGED outbox
      BY <2>1, <1>u
    <2>2. CASE ~UNCHANGED outbox
      <3>1. PICK r \in RowId :
              outbox' = [outbox EXCEPT ![r] = Inserted("pending", request[c].slot,
                IF request[c].again
                THEN [OwnKey(request[c].slot, request[c].content) EXCEPT !.resend = r]
                ELSE OwnKey(request[c].slot, request[c].content),
                request[c].content, "never", "none")]
        BY <1>2, <2>2 DEF InsertPending
      <3>2. \A s, k, content : Inserted("pending", s, k, content, "never", "none").status # "sent"
        BY DEF Inserted
      <3>. QED
        BY <3>1, <3>2, <1>s
    <2>. QED
      BY <2>1, <2>2
  <1>3. ASSUME NEW c \in Clerk, NEW q \in RowId, Cancel(c, q)
        PROVE  SentToday' \subseteq SentToday
    <2>1. Write(q, "cancelled", "elapsed", "user")
      BY <1>3 DEF Cancel, Write
    <2>. QED
      BY <2>1, WrittenOff
  <1>4. ASSUME NEW c \in Clerk, RetryWrite(c) PROVE SentToday' \subseteq SentToday
    <2>1. request[c].row \in RowId
      BY <1>4 DEF TypeOK, ServiceTypeOK, Request
    <2>2. \A q \in RowId : outbox'[q] = outbox[q] \/ outbox'[q].status = "pending"
      BY <1>4, <2>1, RowTyped DEF RetryWrite, TypeOK, OutboxTypeOK, Row
    <2>. QED
      BY <2>2, SentByRows
  <1>5. ASSUME NEW t \in Trigger, ReplaceDrafts(t) PROVE SentToday' \subseteq SentToday
    <2>1. \A q \in RowId : outbox'[q] = outbox[q] \/ outbox'[q].status = "cancelled"
      BY <1>5, RowTyped DEF ReplaceDrafts, Row
    <2>. QED
      BY <2>1, SentByRows
  <1>6. ASSUME NEW t \in Trigger, TriggerInsert(t) PROVE SentToday' \subseteq SentToday
    <2>1. \A expires : TriggerRow(t, expires).status # "sent"
      <3>1. trigger[t].clean \in BOOLEAN
        BY <1>6 DEF TypeOK, ServiceTypeOK, TriggerRun
      <3>. QED
        BY <3>1 DEF TriggerRow, Inserted
    <2>. QED
      BY <1>6, <2>1, <1>u, <1>s DEF TriggerInsert
  <1>7. ASSUME NEW c \in Clerk,
               \/ \E s \in Slot, via \in {"send", "compose"} : Preview(c, s, via)
               \/ \E r \in RowId : PreviewDraft(c, r) \/ RetryRead(c, r)
               \/ Compose(c) \/ FindDraft(c) \/ CheckKey(c)
        PROVE  SentToday' \subseteq SentToday
    BY <1>7, <1>u DEF Preview, PreviewDraft, RetryRead, Compose, FindDraft, CheckKey, outboxVars
  <1>8. ASSUME NEW t \in Trigger,
               \/ \E s \in Slot, c \in Content : EditRecord(t, s, c)
               \/ TriggerCompose(t) \/ TriggerCheckKey(t) \/ TriggerFails(t)
        PROVE  SentToday' \subseteq SentToday
    BY <1>8, <1>u DEF EditRecord, TriggerCompose, TriggerCheckKey, TriggerFails, outboxVars
  <1>9. ASSUME NEW s \in Slot, AddSuppression(s) \/ RemoveSuppression(s) \/ DeleteRecord(s)
        PROVE  SentToday' \subseteq SentToday
    BY <1>9, <1>u DEF AddSuppression, RemoveSuppression, DeleteRecord
  <1>. QED
    BY <1>1, <1>2, <1>3, <1>4, <1>5, <1>6, <1>7, <1>8, <1>9 DEF ServiceStep

LEMMA InitOvershoot == Init => WithinOvershoot
  <1>. SUFFICES ASSUME Init PROVE WithinOvershoot
    OBVIOUS
  <1>1. SentToday = {} /\ InFlight = {}
    BY DEF Init, OutboxInit, BlankRow, SentToday, RowsWith,
           DispatcherInit, IdleWorker, InFlight, PastQuota
  <1>2. Cardinality(Booked) = 0
    BY <1>1, FS_EmptySet DEF Booked
  <1>. QED
    BY <1>2, DispatcherCount, ConfigAssumption DEF WithinOvershoot

LEMMA NextOvershoot == TypeOK /\ WithinOvershoot /\ [Next]_vars => WithinOvershoot'
  <1>. SUFFICES ASSUME TypeOK, WithinOvershoot, [Next]_vars PROVE WithinOvershoot'
    OBVIOUS
  <1>1. CASE UNCHANGED vars
    <2>1. UNCHANGED <<worker, outbox>>
      BY <1>1 DEF vars, outboxVars, dispatcherVars
    <2>. QED
      BY <2>1, OthersBook DEF SentToday, RowsWith
  <1>2. ASSUME NEW r \in RowId, TimerElapses(r) \/ ExpiryPasses(r) PROVE WithinOvershoot'
    <2>1. UNCHANGED worker
      BY <1>2 DEF TimerElapses, ExpiryPasses, dispatcherVars
    <2>2. \A q \in RowId : /\ outbox'[q].status = outbox[q].status
                           /\ outbox'[q].timer \in {outbox[q].timer, "elapsed"}
      BY <1>2, RowTyped DEF TimerElapses, ExpiryPasses, TypeOK, OutboxTypeOK, Row
    <2>3. SentToday' \subseteq SentToday
      BY <2>2, SentByRows
    <2>. QED
      BY <2>1, <2>3, OthersBook
  <1>. QED
    BY <1>1, <1>2, DispatcherOvershoot, ServiceOvershoot DEF Next

(* However many containers read the day's count without a lock, they send  *)
(* no more than DailyCap mails a day, and one each but one.                *)
THEOREM CapOvershootIsBounded == Spec => []CapOvershootBounded
  <1>1. WithinOvershoot => CapOvershootBounded
    <2>1. SentToday \in SUBSET Booked
      BY DEF Booked
    <2>2. Cardinality(SentToday) <= Cardinality(Booked)
      BY <2>1, BookedFinite, FS_Subset
    <2>. QED
      BY <2>2, BookedFinite, SentFinite, DispatcherCount, ConfigAssumption
      DEF WithinOvershoot, CapOvershootBounded
  <1>. QED
    BY <1>1, TypesOK, InitOvershoot, NextOvershoot, PTL DEF Spec

-----------------------------------------------------------------------------
(* Drafts.  createFromTrigger withdraws a slot's drafts and then inserts   *)
(* its own; each run between the two has room for one more.                *)

Between(s) == {t \in Trigger : trigger[t].at = "replaced" /\ trigger[t].slot = s}

DraftsWithin ==
  \A s \in Slot : Cardinality(Drafts(s)) + Cardinality(Between(s)) <= Cardinality(Trigger)

LEMMA DraftsFinite ==
  \A s : /\ IsFiniteSet(Drafts(s)) /\ IsFiniteSet(Between(s))
         /\ Cardinality(Drafts(s)) \in Nat /\ Cardinality(Between(s)) \in Nat
         /\ Cardinality(Trigger) \in Nat
         /\ Cardinality(Between(s)) <= Cardinality(Trigger)
  <1>. TAKE s
  <1>1. IsFiniteSet(RowId)
    BY FS_Interval, RowsAssumption DEF RowId
  <1>2. Drafts(s) \in SUBSET RowId /\ Between(s) \in SUBSET Trigger
    BY DEF Drafts, RowsWith, Between
  <1>. QED
    BY <1>1, <1>2, TriggerAssumption, FS_Subset, FS_CardinalityType

(* Fewer drafts, and no run that has just withdrawn them.                  *)
LEMMA DraftsShrink ==
  ASSUME DraftsWithin, NEW s \in Slot,
         Drafts(s)' \subseteq Drafts(s), Between(s)' \subseteq Between(s)
  PROVE  Cardinality(Drafts(s)') + Cardinality(Between(s)') <= Cardinality(Trigger)
  <1>. DEFINE D == Drafts(s)  B == Between(s)  E == Drafts(s)'  C == Between(s)'
  <1>1. /\ IsFiniteSet(D) /\ IsFiniteSet(B) /\ Cardinality(D) \in Nat /\ Cardinality(B) \in Nat
        /\ Cardinality(Trigger) \in Nat /\ Cardinality(D) + Cardinality(B) <= Cardinality(Trigger)
    BY DraftsFinite DEF DraftsWithin
  <1>2. E \in SUBSET D /\ C \in SUBSET B
    OBVIOUS
  <1>. HIDE DEF D, B, E, C
  <1>3. /\ Cardinality(E) \in Nat /\ Cardinality(C) \in Nat
        /\ Cardinality(E) <= Cardinality(D) /\ Cardinality(C) <= Cardinality(B)
    BY <1>1, <1>2, FS_Subset, FS_CardinalityType
  <1>4. Cardinality(E) + Cardinality(C) <= Cardinality(Trigger)
    BY <1>1, <1>3
  <1>. QED
    BY <1>4 DEF E, C

(* A step after which a draft is one that was there before.                *)
NoNewDraft ==
  \A r \in RowId : outbox'[r].status = "draft" =>
    outbox[r].status = "draft" /\ outbox'[r].slot = outbox[r].slot

LEMMA NoDraftMade ==
  ASSUME DraftsWithin, NoNewDraft,
         \A t \in Trigger : trigger'[t].at = "replaced" =>
           trigger[t].at = "replaced" /\ trigger'[t].slot = trigger[t].slot
  PROVE  DraftsWithin'
  <1>. SUFFICES ASSUME NEW s \in Slot
                PROVE  Cardinality(Drafts(s)') + Cardinality(Between(s)') <= Cardinality(Trigger)
    BY DEF DraftsWithin
  <1>1. Drafts(s)' \subseteq Drafts(s)
    BY DEF NoNewDraft, Drafts, RowsWith
  <1>2. Between(s)' \subseteq Between(s)
    BY DEF Between
  <1>. QED
    BY <1>1, <1>2, DraftsShrink

LEMMA WriteMakesNoDraft ==
  ASSUME TypeOK, NEW q \in RowId, NEW status, NEW timer, NEW reason,
         Write(q, status, timer, reason), status # "draft"
  PROVE  NoNewDraft
  <1>1. \A r \in RowId : outbox[r] \in Row
    BY DEF TypeOK, OutboxTypeOK
  <1>2. \A r \in RowId : /\ outbox'[r].status = IF r = q THEN status ELSE outbox[r].status
                         /\ outbox'[r].slot = outbox[r].slot
    BY <1>1 DEF Write, TypeOK, OutboxTypeOK, Row
  <1>. QED
    BY <1>2 DEF NoNewDraft

LEMMA DispatcherMakesNoDraft ==
  ASSUME TypeOK, NEW d \in Dispatcher, DispatcherStep(d)
  PROVE  NoNewDraft
  <1>t. worker[d].row \in RowId /\ \A r \in RowId : outbox[r] \in Row
    BY DEF TypeOK, OutboxTypeOK, DispatcherTypeOK, Worker
  <1>u. UNCHANGED outbox => NoNewDraft
    BY DEF NoNewDraft
  <1>1. CASE ExpireDrafts(d)
    BY <1>1, <1>t DEF ExpireDrafts, NoNewDraft, Row
  <1>2. CASE RecoverStuck(d)
    BY <1>2, <1>t DEF RecoverStuck, NoNewDraft, Row
  <1>3. CASE PurgeOldBodies(d)
    <2>1. ASSUME NEW old \in SUBSET RowId,
                 outbox' = [r \in RowId |-> IF r \in old
                            THEN [outbox[r] EXCEPT !.body = FALSE,
                                    !.timer = IF outbox[r].status = "sending"
                                              THEN "running" ELSE @]
                            ELSE outbox[r]]
          PROVE  NoNewDraft
      BY <2>1, <1>t DEF NoNewDraft, Row
    <2>. QED
      BY <1>3, <1>u, <2>1 DEF PurgeOldBodies
  <1>4. ASSUME NEW q \in RowId, Claim(d, q) PROVE NoNewDraft
    BY <1>4, <1>t DEF Claim, NoNewDraft, TypeOK, OutboxTypeOK, Row
  <1>5. CASE CheckRecord(d)
    BY <1>5, <1>t, <1>u, WriteMakesNoDraft DEF CheckRecord
  <1>6. CASE CheckSuppression(d)
    BY <1>6, <1>t, <1>u, WriteMakesNoDraft DEF CheckSuppression
  <1>7. CASE CheckQuota(d)
    <2>1. ASSUME NEW q \in RowId, NEW attempts,
                 outbox' = [outbox EXCEPT ![q].status = "pending", ![q].attempts = attempts,
                                          ![q].timer = "running", ![q].reason = "none"]
          PROVE  NoNewDraft
      BY <2>1, <1>t DEF NoNewDraft, TypeOK, OutboxTypeOK, Row
    <2>. QED
      BY <1>7, <1>t, <1>u, <2>1 DEF CheckQuota
  <1>8. CASE SmtpRejects(d) \/ MarkSentFails(d)
    BY <1>8, <1>t, WriteMakesNoDraft DEF SmtpRejects, MarkSentFails, AfterError
  <1>9. CASE MarkSent(d)
    BY <1>9, <1>t, WriteMakesNoDraft DEF MarkSent
  <1>10. CASE SelectDue(d) \/ EndBatch(d) \/ Reread(d) \/ SmtpAccepts(d) \/ LogContact(d) \/ Crash(d)
    BY <1>10, <1>u
    DEF SelectDue, EndBatch, Reread, SmtpAccepts, LogContact, Crash, outboxVars
  <1>. QED
    BY <1>1, <1>2, <1>3, <1>4, <1>5, <1>6, <1>7, <1>8, <1>9, <1>10
    DEF DispatcherStep, DispatcherProgress

LEMMA ServiceDrafts ==
  ASSUME TypeOK, DraftsWithin, ServiceStep
  PROVE  DraftsWithin'
  <1>t. /\ \A r \in RowId : outbox[r] \in Row
        /\ \A c \in Clerk : request[c].row \in RowId
        /\ \A t \in Trigger : trigger[t] \in TriggerRun
    BY DEF TypeOK, OutboxTypeOK, ServiceTypeOK, Request
  <1>u. UNCHANGED outbox => NoNewDraft
    BY DEF NoNewDraft
  <1>i. ASSUME NEW q \in RowId, NEW row, outbox' = [outbox EXCEPT ![q] = row],
               row.status # "draft"
        PROVE  NoNewDraft
    BY <1>i DEF NoNewDraft, TypeOK, OutboxTypeOK
  <1>r. ASSUME NEW t \in Trigger, Return(t)
        PROVE  /\ trigger'[t].at = "idle"
               /\ \A u \in Trigger \ {t} : trigger'[u] = trigger[u]
    BY <1>r DEF Return, IdleTrigger, TypeOK, ServiceTypeOK
  <1>1. ASSUME NEW c \in Clerk, QueueDraft(c) PROVE DraftsWithin'
    <2>1. NoNewDraft
      <3>1. CASE UNCHANGED outbox
        BY <3>1, <1>u
      <3>2. CASE ~UNCHANGED outbox
        <4>1. \A q \in RowId : outbox'[q] = outbox[q] \/ outbox'[q].status = "pending"
          BY <1>1, <3>2, QueuesOneDraft
        <4>. QED
          BY <4>1 DEF NoNewDraft
      <3>. QED
        BY <3>1, <3>2
    <2>. QED
      BY <1>1, <2>1, NoDraftMade DEF QueueDraft
  <1>2. ASSUME NEW c \in Clerk, InsertPending(c) PROVE DraftsWithin'
    <2>1. \A s, k, content : Inserted("pending", s, k, content, "never", "none").status = "pending"
      BY DEF Inserted
    <2>2. NoNewDraft
      <3>1. CASE ~UNCHANGED outbox
        <4>. PICK r \in RowId :
               outbox' = [outbox EXCEPT ![r] = Inserted("pending", request[c].slot,
                 IF request[c].again
                 THEN [OwnKey(request[c].slot, request[c].content) EXCEPT !.resend = r]
                 ELSE OwnKey(request[c].slot, request[c].content),
                 request[c].content, "never", "none")]
          BY <1>2, <3>1 DEF InsertPending
        <4>. QED
          BY <2>1, <1>i
      <3>. QED
        BY <3>1, <1>u
    <2>. QED
      BY <1>2, <2>2, NoDraftMade DEF InsertPending
  <1>3. ASSUME NEW c \in Clerk, NEW q \in RowId, Cancel(c, q) PROVE DraftsWithin'
    <2>1. Write(q, "cancelled", "elapsed", "user") /\ UNCHANGED trigger
      BY <1>3 DEF Cancel, Write, serviceVars
    <2>. QED
      BY <2>1, WriteMakesNoDraft, NoDraftMade
  <1>4. ASSUME NEW c \in Clerk, RetryWrite(c) PROVE DraftsWithin'
    <2>. PICK q \in RowId : q = request[c].row
      BY <1>t
    <2>. DEFINE new == [outbox[q] EXCEPT !.status = "pending", !.attempts = 0,
                                         !.timer = "elapsed", !.reason = "none"]
    <2>1. outbox' = [outbox EXCEPT ![q] = new]
      BY <1>4 DEF RetryWrite
    <2>2. NoNewDraft
      <3>1. outbox[q] \in Row
        BY <1>t
      <3>2. new.status # "draft"
        BY <3>1 DEF Row
      <3>. HIDE DEF new
      <3>. QED
        BY <2>1, <3>2, <1>i
    <2>. QED
      BY <1>4, <2>2, NoDraftMade DEF RetryWrite
  <1>5. ASSUME NEW c \in Clerk,
               \/ \E s \in Slot, via \in {"send", "compose"} : Preview(c, s, via)
               \/ \E r \in RowId : PreviewDraft(c, r) \/ RetryRead(c, r)
               \/ Compose(c) \/ FindDraft(c) \/ CheckKey(c)
        PROVE  DraftsWithin'
    <2>1. UNCHANGED <<outbox, trigger>>
      BY <1>5 DEF Preview, PreviewDraft, RetryRead, Compose, FindDraft, CheckKey, outboxVars
    <2>. QED
      BY <2>1, <1>u, NoDraftMade
  <1>6. ASSUME NEW s \in Slot, AddSuppression(s) \/ RemoveSuppression(s) \/ DeleteRecord(s)
        PROVE  DraftsWithin'
    <2>1. UNCHANGED <<outbox, trigger>>
      BY <1>6 DEF AddSuppression, RemoveSuppression, DeleteRecord, serviceVars
    <2>. QED
      BY <2>1, <1>u, NoDraftMade
  <1>7. ASSUME NEW t \in Trigger,
               \/ \E s \in Slot, c \in Content : EditRecord(t, s, c)
               \/ TriggerCompose(t) \/ TriggerCheckKey(t) \/ TriggerFails(t)
        PROVE  DraftsWithin'
    <2>1. UNCHANGED outbox
      BY <1>7 DEF EditRecord, TriggerCompose, TriggerCheckKey, TriggerFails, outboxVars
    <2>2. /\ \A u \in Trigger \ {t} : trigger'[u] = trigger[u]
          /\ trigger'[t].at # "replaced"
      BY <1>7, <1>t, <1>r
      DEF EditRecord, TriggerCompose, TriggerCheckKey, TriggerFails, TypeOK, ServiceTypeOK, TriggerRun
    <2>. QED
      BY <2>1, <2>2, <1>u, NoDraftMade
  <1>8. ASSUME NEW t \in Trigger, ReplaceDrafts(t) PROVE DraftsWithin'
    <2>. SUFFICES ASSUME NEW s \in Slot
                  PROVE  Cardinality(Drafts(s)') + Cardinality(Between(s)') <= Cardinality(Trigger)
      BY DEF DraftsWithin
    <2>1. \A r \in RowId : outbox'[r].status = "draft" =>
            /\ outbox[r].status = "draft" /\ outbox'[r].slot = outbox[r].slot
            /\ outbox[r].slot # trigger[t].slot
      BY <1>8, <1>t DEF ReplaceDrafts, Drafts, RowsWith, Row
    <2>2. /\ trigger'[t].slot = trigger[t].slot
          /\ \A u \in Trigger \ {t} : trigger'[u] = trigger[u]
      BY <1>8, <1>t DEF ReplaceDrafts, TypeOK, ServiceTypeOK, TriggerRun
    <2>3. CASE s = trigger[t].slot
      <3>. DEFINE D == Drafts(s)'  B == Between(s)'
      <3>1. D = {} /\ B \in SUBSET Trigger
        BY <2>1, <2>3 DEF Drafts, RowsWith, Between
      <3>. HIDE DEF D, B
      <3>2. Cardinality(D) = 0 /\ Cardinality(B) <= Cardinality(Trigger) /\ Cardinality(B) \in Nat
        BY <3>1, TriggerAssumption, FS_EmptySet, FS_Subset, FS_CardinalityType
      <3>3. Cardinality(D) + Cardinality(B) <= Cardinality(Trigger)
        BY <3>2, DraftsFinite
      <3>. QED
        BY <3>3 DEF D, B
    <2>4. CASE s # trigger[t].slot
      <3>1. Drafts(s)' \subseteq Drafts(s)
        BY <2>1 DEF Drafts, RowsWith
      <3>2. Between(s)' \subseteq Between(s)
        BY <2>2, <2>4 DEF Between
      <3>. QED
        BY <3>1, <3>2, DraftsShrink
    <2>. QED
      BY <2>3, <2>4
  <1>9. ASSUME NEW t \in Trigger, TriggerInsert(t) PROVE DraftsWithin'
    <2>1. /\ trigger'[t].at = "idle" /\ trigger[t].at = "replaced"
          /\ \A u \in Trigger \ {t} : trigger'[u] = trigger[u]
      BY <1>9, <1>r DEF TriggerInsert
    <2>2. CASE UNCHANGED outbox
      BY <2>1, <2>2, <1>u, NoDraftMade
    <2>3. ASSUME NEW q \in RowId, NEW expires, outbox' = [outbox EXCEPT ![q] = TriggerRow(t, expires)]
          PROVE  DraftsWithin'
      <3>. SUFFICES ASSUME NEW s \in Slot
                    PROVE  Cardinality(Drafts(s)') + Cardinality(Between(s)') <= Cardinality(Trigger)
        BY DEF DraftsWithin
      <3>1. TriggerRow(t, expires).slot = trigger[t].slot
        <4>1. trigger[t].clean \in BOOLEAN
          BY <1>t DEF TriggerRun
        <4>. QED
          BY <4>1 DEF TriggerRow, Inserted
      <3>2. /\ outbox'[q].slot = trigger[t].slot
            /\ \A r \in RowId \ {q} : outbox'[r] = outbox[r]
        BY <2>3, <3>1 DEF TypeOK, OutboxTypeOK
      <3>3. CASE s # trigger[t].slot
        <4>1. Drafts(s)' \subseteq Drafts(s)
          BY <3>2, <3>3 DEF Drafts, RowsWith
        <4>2. Between(s)' \subseteq Between(s)
          BY <2>1 DEF Between
        <4>. QED
          BY <4>1, <4>2, DraftsShrink
      <3>4. CASE s = trigger[t].slot
        <4>. DEFINE D == Drafts(s)  B == Between(s)  E == Drafts(s)'  C == Between(s)'
        <4>1. /\ IsFiniteSet(D) /\ IsFiniteSet(B) /\ Cardinality(D) \in Nat
              /\ Cardinality(B) \in Nat /\ Cardinality(Trigger) \in Nat
              /\ Cardinality(D) + Cardinality(B) <= Cardinality(Trigger)
          BY DraftsFinite DEF DraftsWithin
        <4>2. E \in SUBSET (D \union {q})
          BY <3>2 DEF Drafts, RowsWith
        <4>3. t \in B /\ C \in SUBSET (B \ {t})
          BY <2>1, <3>4 DEF Between
        <4>. HIDE DEF D, B, E, C
        <4>4. Cardinality(E) \in Nat /\ Cardinality(E) <= Cardinality(D) + 1
          <5>1. /\ IsFiniteSet(D \union {q})
                /\ Cardinality(D \union {q}) = IF q \in D THEN Cardinality(D) ELSE Cardinality(D) + 1
            BY <4>1, FS_AddElement
          <5>2. IsFiniteSet(E) /\ Cardinality(E) <= Cardinality(D \union {q})
            BY <4>2, <5>1, FS_Subset
          <5>. QED
            BY <4>1, <5>1, <5>2, FS_CardinalityType
        <4>5. Cardinality(C) \in Nat /\ Cardinality(C) <= Cardinality(B) - 1
          <5>1. IsFiniteSet(B \ {t}) /\ Cardinality(B \ {t}) = Cardinality(B) - 1
            BY <4>1, <4>3, FS_RemoveElement
          <5>. QED
            BY <4>3, <5>1, FS_Subset, FS_CardinalityType
        <4>6. Cardinality(E) + Cardinality(C) <= Cardinality(Trigger)
          BY <4>1, <4>4, <4>5
        <4>. QED
          BY <4>6 DEF E, C
      <3>. QED
        BY <3>3, <3>4
    <2>. QED
      BY <1>9, <2>2, <2>3 DEF TriggerInsert
  <1>. QED
    BY <1>1, <1>2, <1>3, <1>4, <1>5, <1>6, <1>7, <1>8, <1>9 DEF ServiceStep

LEMMA NextDrafts ==
  TypeOK /\ DraftsWithin /\ [Next]_vars => DraftsWithin'
  <1>. SUFFICES ASSUME TypeOK, DraftsWithin, [Next]_vars PROVE DraftsWithin'
    OBVIOUS
  <1>1. CASE UNCHANGED vars
    BY <1>1 DEF vars, outboxVars, serviceVars, DraftsWithin, Drafts, RowsWith, Between
  <1>2. ASSUME NEW d \in Dispatcher, DispatcherStep(d), UNCHANGED serviceVars
        PROVE  DraftsWithin'
    BY <1>2, DispatcherMakesNoDraft, NoDraftMade DEF serviceVars
  <1>3. ASSUME NEW q \in RowId, TimerElapses(q) \/ ExpiryPasses(q), UNCHANGED serviceVars
        PROVE  DraftsWithin'
    <2>1. NoNewDraft
      BY <1>3 DEF TimerElapses, ExpiryPasses, NoNewDraft, TypeOK, OutboxTypeOK, Row
    <2>. QED
      BY <1>3, <2>1, NoDraftMade DEF serviceVars
  <1>. QED
    BY <1>1, <1>2, <1>3, ServiceDrafts DEF Next

(* However often records change, whatever staff, containers and the clock  *)
(* do in between, and wherever runs of triggers are cut short: a record    *)
(* has no more open drafts than there are runs of triggers at once.        *)
THEOREM DraftsAreBounded == Spec => []OpenDraftsBounded
  <1>1. Init => DraftsWithin
    <2>. SUFFICES ASSUME Init, NEW s \in Slot
                  PROVE  Cardinality(Drafts(s)) + Cardinality(Between(s)) <= Cardinality(Trigger)
      BY DEF DraftsWithin
    <2>1. Drafts(s) = {}
      BY DEF Init, OutboxInit, BlankRow, Drafts, RowsWith
    <2>2. Cardinality(Drafts(s)) = 0
      BY <2>1, FS_EmptySet
    <2>. QED
      BY <2>2, DraftsFinite
  <1>2. DraftsWithin => OpenDraftsBounded
    BY DraftsFinite DEF DraftsWithin, OpenDraftsBounded
  <1>3. Spec => []DraftsWithin
    BY <1>1, TypesOK, NextDrafts, PTL DEF Spec
  <1>. QED
    BY <1>2, <1>3, PTL

-----------------------------------------------------------------------------
(* The promise.  While all is calm, a row that says 'sending' is in the    *)
(* hands of exactly one container, and what the SMTP server accepted is    *)
(* still being marked or says 'sent'.                                      *)

FaultsSpent == \A kind \in FaultKind : faults[kind] <= MaxFaults[kind]

HandsIntact ==
  \A d \in Dispatcher : Delivering(d) =>
    /\ outbox[worker[d].row].status = "sending"
    /\ At(d, "mark") => copies[worker[d].row] = 1
    /\ ~At(d, "mark") => copies[worker[d].row] = 0
    /\ \A e \in Dispatcher : Delivering(e) /\ worker[e].row = worker[d].row => e = d

SendingHeld ==
  \A r \in RowId : outbox[r].status = "sending" =>
    /\ outbox[r].timer = "running"
    /\ \E d \in Dispatcher : Delivering(d) /\ worker[d].row = r

SentIsCopied ==
  \A r \in RowId :
    /\ copies[r] > 0 => outbox[r].status \in {"sending", "sent"}
    /\ outbox[r].status = "sent" => copies[r] > 0

Intact == HandsIntact /\ SendingHeld /\ SentIsCopied

(* Misfortunes are only ever used up.                                      *)
LEMMA SpendFalls ==
  ASSUME TypeOK, NEW kind \in FaultKind, Spend(kind)
  PROVE  \A k \in FaultKind : faults'[k] <= faults[k]
  <1>1. \A k \in FaultKind : faults[k] \in Nat
    BY DEF TypeOK, OutboxTypeOK
  <1>2. \A k \in FaultKind : faults'[k] = IF k = kind THEN faults[k] - 1 ELSE faults[k]
    BY DEF Spend, TypeOK, OutboxTypeOK
  <1>. QED
    BY <1>1, <1>2

LEMMA FaultsFall ==
  ASSUME TypeOK, [Next]_vars
  PROVE  \A k \in FaultKind : faults'[k] <= faults[k]
  <1>t. \A k \in FaultKind : faults[k] \in Nat
    BY DEF TypeOK, OutboxTypeOK
  <1>k. {"crash", "slow", "database", "retention", "delete", "suppress"} \subseteq FaultKind
    BY FaultAssumption
  <1>u. UNCHANGED faults => \A k \in FaultKind : faults'[k] <= faults[k]
    BY <1>t
  <1>1. CASE UNCHANGED vars
    BY <1>1, <1>u DEF vars, outboxVars
  <1>2. ASSUME NEW d \in Dispatcher, DispatcherStep(d)
        PROVE  \A k \in FaultKind : faults'[k] <= faults[k]
    <2>1. UNCHANGED faults \/ \E kind \in FaultKind : Spend(kind)
      BY <1>2, <1>k
      DEF DispatcherStep, DispatcherProgress, ExpireDrafts, RecoverStuck, PurgeOldBodies,
          SelectDue, EndBatch, Claim, Reread, CheckRecord, CheckSuppression, CheckQuota,
          SmtpAccepts, SmtpRejects, MarkSent, LogContact, MarkSentFails, Crash, outboxVars
    <2>. QED
      BY <2>1, <1>u, SpendFalls
  <1>3. ASSUME NEW r \in RowId, TimerElapses(r) \/ ExpiryPasses(r)
        PROVE  \A k \in FaultKind : faults'[k] <= faults[k]
    <2>1. UNCHANGED faults \/ Spend("slow")
      BY <1>3 DEF TimerElapses, ExpiryPasses
    <2>. QED
      BY <2>1, <1>k, <1>u, SpendFalls
  <1>4. ASSUME ServiceStep
        PROVE  \A k \in FaultKind : faults'[k] <= faults[k]
    <2>1. UNCHANGED faults \/ \E kind \in FaultKind : Spend(kind)
      <3>1. ASSUME NEW c \in Clerk,
                   \/ \E s \in Slot, via \in {"send", "compose"} : Preview(c, s, via)
                   \/ \E r \in RowId : PreviewDraft(c, r) \/ Cancel(c, r) \/ RetryRead(c, r)
                   \/ Compose(c) \/ FindDraft(c) \/ QueueDraft(c) \/ CheckKey(c)
                   \/ InsertPending(c) \/ RetryWrite(c)
            PROVE  UNCHANGED faults
        BY <3>1 DEF Preview, PreviewDraft, Compose, FindDraft, QueueDraft, CheckKey,
                    InsertPending, Cancel, RetryRead, RetryWrite, outboxVars
      <3>2. ASSUME NEW t \in Trigger,
                   \/ \E s \in Slot, c \in Content : EditRecord(t, s, c)
                   \/ TriggerCompose(t) \/ TriggerCheckKey(t) \/ ReplaceDrafts(t)
                   \/ TriggerInsert(t)
            PROVE  UNCHANGED faults
        BY <3>2 DEF EditRecord, TriggerCompose, TriggerCheckKey, ReplaceDrafts, TriggerInsert,
                    outboxVars
      <3>3. ASSUME NEW t \in Trigger, TriggerFails(t)
            PROVE  \E kind \in FaultKind : Spend(kind)
        BY <3>3, <1>k DEF TriggerFails
      <3>4. ASSUME NEW s \in Slot, AddSuppression(s) \/ RemoveSuppression(s) \/ DeleteRecord(s)
            PROVE  UNCHANGED faults \/ \E kind \in FaultKind : Spend(kind)
        BY <3>4, <1>k DEF AddSuppression, RemoveSuppression, DeleteRecord
      <3>. QED
        BY <1>4, <3>1, <3>2, <3>3, <3>4 DEF ServiceStep
    <2>. QED
      BY <2>1, <1>u, SpendFalls
  <1>. QED
    BY <1>1, <1>2, <1>3, <1>4 DEF Next

LEMMA OvertakenGrows ==
  ASSUME [Next]_vars
  PROVE  overtaken \subseteq overtaken'
  <1>u. UNCHANGED serviceVars => UNCHANGED overtaken
    BY DEF serviceVars
  <1>1. ASSUME NEW c \in Clerk,
               \/ \E s \in Slot, via \in {"send", "compose"} : Preview(c, s, via)
               \/ \E r \in RowId : PreviewDraft(c, r) \/ Cancel(c, r) \/ RetryRead(c, r)
               \/ Compose(c) \/ FindDraft(c) \/ QueueDraft(c) \/ CheckKey(c)
               \/ InsertPending(c) \/ RetryWrite(c)
        PROVE  overtaken \subseteq overtaken'
    BY <1>1, <1>u DEF Preview, PreviewDraft, Compose, FindDraft, QueueDraft, CheckKey,
                InsertPending, Cancel, RetryRead, RetryWrite
  <1>2. ASSUME NEW t \in Trigger,
               \/ \E s \in Slot, c \in Content : EditRecord(t, s, c)
               \/ TriggerCompose(t) \/ TriggerCheckKey(t) \/ ReplaceDrafts(t)
               \/ TriggerInsert(t) \/ TriggerFails(t)
        PROVE  UNCHANGED overtaken
    BY <1>2 DEF EditRecord, TriggerCompose, TriggerCheckKey, ReplaceDrafts, TriggerInsert,
                TriggerFails
  <1>3. ASSUME NEW s \in Slot, AddSuppression(s) \/ RemoveSuppression(s) \/ DeleteRecord(s)
        PROVE  UNCHANGED overtaken
    BY <1>3, <1>u DEF AddSuppression, RemoveSuppression, DeleteRecord
  <1>4. ServiceStep => overtaken \subseteq overtaken'
    BY <1>1, <1>2, <1>3 DEF ServiceStep
  <1>. QED
    BY <1>4, <1>u DEF Next, vars

LEMMA StillSpent ==
  ASSUME TypeOK, TypeOK', FaultsSpent, [Next]_vars
  PROVE  FaultsSpent' /\ (Calm' => Calm)
  <1>1. \A k \in FaultKind : /\ faults[k] \in Nat /\ faults'[k] \in Nat /\ MaxFaults[k] \in Nat
                             /\ faults'[k] <= faults[k]
    BY FaultsFall, FaultAssumption DEF TypeOK, OutboxTypeOK
  <1>2. FaultsSpent'
    BY <1>1 DEF FaultsSpent
  <1>3. \A k \in FaultKind : faults'[k] = MaxFaults[k] => faults[k] = MaxFaults[k]
    BY <1>1 DEF FaultsSpent
  <1>4. \A k \in {"crash", "slow", "database"} : k \in FaultKind
    BY FaultAssumption
  <1>5. overtaken' = {} => overtaken = {}
    BY OvertakenGrows
  <1>. QED
    BY <1>2, <1>3, <1>4, <1>5 DEF Calm

(* From the first crash, stall or database error on, nothing is promised.  *)
LEMMA SpentIsNotCalm ==
  ASSUME TypeOK, FaultsSpent, NEW kind \in {"crash", "slow", "database"}, Spend(kind)
  PROVE  ~Calm'
  <1>1. /\ kind \in FaultKind /\ faults[kind] \in Nat /\ MaxFaults[kind] \in Nat
        /\ faults[kind] <= MaxFaults[kind]
    BY FaultAssumption DEF TypeOK, OutboxTypeOK, FaultsSpent
  <1>2. faults'[kind] = faults[kind] - 1
    BY <1>1 DEF Spend, TypeOK, OutboxTypeOK
  <1>3. faults'[kind] # MaxFaults[kind]
    BY <1>1, <1>2
  <1>. QED
    BY <1>3 DEF Calm

(* What a row's status and copies say of the email.                        *)
PhaseOf(status, n) ==
  IF n > 0 THEN "delivered"
  ELSE CASE status = "none" -> "absent"
         [] status = "draft" -> "draft"
         [] status \in {"pending", "sending"} -> "queued"
         [] status = "sent" -> "delivered"
         [] status = "failed" -> "failed"
         [] status \in {"cancelled", "suppressed"} -> "withdrawn"

LEMMA Staged ==
  /\ LetterStage = [r \in RowId |-> PhaseOf(outbox[r].status, copies[r])]
  /\ LetterStage' = [r \in RowId |-> PhaseOf(outbox'[r].status, copies'[r])]
  BY DEF LetterStage, PhaseOf

KeepsFaith == Promise!Next \/ UNCHANGED <<LetterStage, copies>>

LEMMA NothingMoves ==
  ASSUME UNCHANGED copies,
         \A r \in RowId : PhaseOf(outbox'[r].status, copies[r]) = PhaseOf(outbox[r].status, copies[r])
  PROVE  KeepsFaith
  <1>1. UNCHANGED LetterStage
    BY Staged
  <1>. QED
    BY <1>1 DEF KeepsFaith

(* The moves of a row that was not accepted by the SMTP server.            *)
LEMMA RowMoves ==
  ASSUME NEW q \in RowId, ~(copies[q] > 0), UNCHANGED copies,
         \A r \in RowId \ {q} : outbox'[r].status = outbox[r].status,
         \/ outbox[q].status = "none" /\ outbox'[q].status \in {"draft", "pending", "failed"}
         \/ outbox[q].status \in {"draft", "failed"} /\ outbox'[q].status \in {"pending", "cancelled"}
         \/ outbox[q].status = "pending" /\ outbox'[q].status \in {"sending", "cancelled"}
         \/ outbox[q].status = "sending"
              /\ outbox'[q].status \in {"pending", "failed", "cancelled", "suppressed"}
  PROVE  KeepsFaith
  <1>. DEFINE was == PhaseOf(outbox[q].status, 0)
              is  == PhaseOf(outbox'[q].status, 0)
  <1>1. LetterStage \in [RowId -> {LetterStage[r] : r \in RowId}]
    BY Staged
  <1>2. LetterStage[q] = was /\ LetterStage'[q] = is
    BY Staged DEF PhaseOf
  <1>3. \A r \in RowId \ {q} : LetterStage'[r] = LetterStage[r]
    BY Staged
  <1>4. LetterStage' = [LetterStage EXCEPT ![q] = is]
    BY <1>2, <1>3, Staged
  <1>5. LetterStage' = [r \in RowId |-> IF r \in {q} THEN is ELSE LetterStage[r]]
    BY <1>2, <1>3, Staged
  <1>6. CASE was = "absent" /\ is = "draft"
    BY <1>2, <1>4, <1>6 DEF KeepsFaith, Promise!Next, Promise!Suggest, Promise!Move
  <1>7. CASE was \in {"absent", "draft", "failed"} /\ is = "queued"
    BY <1>2, <1>4, <1>7 DEF KeepsFaith, Promise!Next, Promise!Queue, Promise!Move
  <1>8. CASE was \in {"absent", "queued"} /\ is = "failed"
    BY <1>2, <1>4, <1>8 DEF KeepsFaith, Promise!Next, Promise!Fail, Promise!Move
  <1>9. CASE was \in {"draft", "queued", "failed"} /\ is = "withdrawn"
    <2>1. Promise!Withdraw({q})
      BY <1>2, <1>5, <1>9 DEF Promise!Withdraw
    <2>. QED
      BY <2>1 DEF KeepsFaith, Promise!Next
  <1>10. CASE was = is
    <2>1. UNCHANGED LetterStage
      BY <1>2, <1>3, <1>10, Staged
    <2>. QED
      BY <2>1 DEF KeepsFaith
  <1>11. /\ was \in {"absent", "draft", "queued", "failed"}
         /\ is \in {"draft", "queued", "failed", "withdrawn"}
         /\ is = "draft" => was = "absent"
    BY DEF PhaseOf
  <1>. QED
    BY <1>6, <1>7, <1>8, <1>9, <1>10, <1>11 DEF PhaseOf

(* Several rows are withdrawn by one statement.                            *)
LEMMA RowsWithdrawn ==
  ASSUME NEW S \in SUBSET RowId, UNCHANGED copies,
         \A r \in S : /\ ~(copies[r] > 0)
                      /\ outbox[r].status \in {"draft", "pending", "failed"}
                      /\ outbox'[r].status = "cancelled",
         \A r \in RowId \ S : outbox'[r].status = outbox[r].status
  PROVE  KeepsFaith
  <1>1. \A r \in S : /\ LetterStage[r] \in {"draft", "queued", "failed"}
                     /\ LetterStage'[r] = "withdrawn"
    BY Staged DEF PhaseOf
  <1>2. \A r \in RowId \ S : LetterStage'[r] = LetterStage[r]
    BY Staged
  <1>3. LetterStage' = [r \in RowId |-> IF r \in S THEN "withdrawn" ELSE LetterStage[r]]
    BY <1>1, <1>2, Staged
  <1>4. Promise!Withdraw(S)
    BY <1>1, <1>3 DEF Promise!Withdraw
  <1>. QED
    BY <1>4 DEF KeepsFaith, Promise!Next

LEMMA RowDelivered ==
  ASSUME TypeOK, NEW q \in RowId, copies[q] = 0, outbox[q].status = "sending",
         copies' = [copies EXCEPT ![q] = @ + 1], UNCHANGED outbox
  PROVE  KeepsFaith
  <1>1. copies'[q] = 1 /\ \A r \in RowId \ {q} : copies'[r] = copies[r]
    BY DEF TypeOK, OutboxTypeOK
  <1>2. LetterStage[q] = "queued" /\ LetterStage'[q] = "delivered"
    BY <1>1, Staged DEF PhaseOf
  <1>3. \A r \in RowId \ {q} : LetterStage'[r] = LetterStage[r]
    BY <1>1, Staged
  <1>4. LetterStage' = [LetterStage EXCEPT ![q] = "delivered"]
    BY <1>2, <1>3, Staged
  <1>5. Promise!Deliver(q)
    BY <1>2, <1>4 DEF Promise!Deliver, Promise!Move
  <1>. QED
    BY <1>5 DEF KeepsFaith, Promise!Next

LEMMA Places ==
  ASSUME NEW d \in Dispatcher
  PROVE  /\ Delivering(d) <=> worker[d].at \in {"reread", "record", "suppression", "quota", "smtp", "mark"}
         /\ Delivering(d)' <=> worker'[d].at \in {"reread", "record", "suppression", "quota", "smtp", "mark"}
         /\ At(d, "mark") <=> worker[d].at = "mark"
         /\ At(d, "mark")' <=> worker'[d].at = "mark"
  BY DEF Delivering, At

(* A step that leaves alone what is being sent or was.                     *)
Steady ==
  \A r \in RowId :
    /\ outbox[r].status \in {"sending", "sent"} \/ outbox'[r].status \in {"sending", "sent"}
         => outbox'[r].status = outbox[r].status
    /\ outbox'[r].status = "sending" /\ outbox[r].timer = "running"
         => outbox'[r].timer = "running"

LEMMA HandsKept ==
  ASSUME TypeOK, Intact, Steady, UNCHANGED copies,
         \A d \in Dispatcher :
           /\ Delivering(d)' <=> Delivering(d)
           /\ Delivering(d) => /\ worker'[d].row = worker[d].row
                               /\ At(d, "mark")' <=> At(d, "mark")
  PROVE  Intact'
  <1>t. \A d \in Dispatcher : worker[d].row \in RowId
    BY DEF TypeOK, DispatcherTypeOK, Worker
  <1>1. HandsIntact'
    <2>. SUFFICES ASSUME NEW d \in Dispatcher, Delivering(d)'
                  PROVE  /\ outbox'[worker'[d].row].status = "sending"
                         /\ At(d, "mark")' => copies'[worker'[d].row] = 1
                         /\ ~At(d, "mark")' => copies'[worker'[d].row] = 0
                         /\ \A e \in Dispatcher :
                              Delivering(e)' /\ worker'[e].row = worker'[d].row => e = d
      BY DEF HandsIntact
    <2>1. Delivering(d) /\ worker'[d].row = worker[d].row
      OBVIOUS
    <2>2. outbox[worker[d].row].status = "sending"
      BY <2>1 DEF Intact, HandsIntact
    <2>. QED
      BY <1>t, <2>1, <2>2 DEF Intact, HandsIntact, Steady
  <1>2. SendingHeld'
    <2>. SUFFICES ASSUME NEW r \in RowId, outbox'[r].status = "sending"
                  PROVE  /\ outbox'[r].timer = "running"
                         /\ \E d \in Dispatcher : Delivering(d)' /\ worker'[d].row = r
      BY DEF SendingHeld
    <2>1. outbox[r].status = "sending"
      BY DEF Steady
    <2>. QED
      BY <2>1 DEF Intact, SendingHeld, Steady
  <1>3. SentIsCopied'
    BY DEF Intact, SentIsCopied, Steady
  <1>. QED
    BY <1>1, <1>2, <1>3 DEF Intact

(* One container lets go of its row.                                       *)
LEMMA HandEmptied ==
  ASSUME TypeOK, Intact, UNCHANGED copies,
         NEW d \in Dispatcher, NEW q \in RowId,
         Delivering(d), worker[d].row = q, ~Delivering(d)',
         \A e \in Dispatcher \ {d} : worker'[e] = worker[e],
         \A r \in RowId \ {q} : outbox'[r] = outbox[r],
         outbox'[q].status # "sending",
         outbox'[q].status = "sent" <=> At(d, "mark")
  PROVE  Intact'
  <1>t. \A e \in Dispatcher : worker[e].row \in RowId
    BY DEF TypeOK, DispatcherTypeOK, Worker
  <1>o. \A e \in Dispatcher : Delivering(e) /\ worker[e].row = q => e = d
    BY DEF Intact, HandsIntact
  <1>s. \A e \in Dispatcher : Delivering(e)' =>
          /\ e # d /\ Delivering(e) /\ worker'[e] = worker[e] /\ worker[e].row # q
    BY <1>o DEF Delivering
  <1>c. copies[q] = (IF At(d, "mark") THEN 1 ELSE 0)
    BY DEF Intact, HandsIntact
  <1>1. HandsIntact'
    <2>. SUFFICES ASSUME NEW e \in Dispatcher, Delivering(e)'
                  PROVE  /\ outbox'[worker'[e].row].status = "sending"
                         /\ At(e, "mark")' => copies'[worker'[e].row] = 1
                         /\ ~At(e, "mark")' => copies'[worker'[e].row] = 0
                         /\ \A f \in Dispatcher :
                              Delivering(f)' /\ worker'[f].row = worker'[e].row => f = e
      BY DEF HandsIntact
    <2>1. outbox'[worker[e].row] = outbox[worker[e].row]
      BY <1>s, <1>t
    <2>2. At(e, "mark")' <=> At(e, "mark")
      BY <1>s DEF At
    <2>. QED
      BY <1>s, <2>1, <2>2 DEF Intact, HandsIntact
  <1>2. SendingHeld'
    <2>. SUFFICES ASSUME NEW r \in RowId, outbox'[r].status = "sending"
                  PROVE  /\ outbox'[r].timer = "running"
                         /\ \E e \in Dispatcher : Delivering(e)' /\ worker'[e].row = r
      BY DEF SendingHeld
    <2>1. r # q /\ outbox'[r] = outbox[r]
      OBVIOUS
    <2>2. outbox[r].timer = "running" /\ \E e \in Dispatcher : Delivering(e) /\ worker[e].row = r
      BY <2>1 DEF Intact, SendingHeld
    <2>3. \A e \in Dispatcher \ {d} : Delivering(e) => Delivering(e)'
      BY DEF Delivering
    <2>. QED
      BY <2>1, <2>2, <2>3
  <1>3. SentIsCopied'
    BY <1>c DEF Intact, SentIsCopied
  <1>. QED
    BY <1>1, <1>2, <1>3 DEF Intact

(* One container takes a row that nobody holds.                            *)
LEMMA HandFilled ==
  ASSUME TypeOK, Intact, UNCHANGED copies,
         NEW d \in Dispatcher, NEW q \in RowId,
         ~Delivering(d), Delivering(d)', ~At(d, "mark")', worker'[d].row = q,
         \A e \in Dispatcher \ {d} : worker'[e] = worker[e],
         \A r \in RowId \ {q} : outbox'[r] = outbox[r],
         outbox[q].status = "pending",
         outbox'[q].status = "sending", outbox'[q].timer = "running"
  PROVE  Intact'
  <1>t. /\ \A e \in Dispatcher : worker[e].row \in RowId
        /\ copies[q] \in Nat
    BY DEF TypeOK, OutboxTypeOK, DispatcherTypeOK, Worker
  <1>o. \A e \in Dispatcher : Delivering(e) => worker[e].row # q
    BY DEF Intact, HandsIntact
  <1>s. \A e \in Dispatcher \ {d} : /\ Delivering(e)' <=> Delivering(e)
                                    /\ At(e, "mark")' <=> At(e, "mark")
    BY DEF Delivering, At
  <1>c. copies[q] = 0
    BY <1>t DEF Intact, SentIsCopied
  <1>1. HandsIntact'
    <2>. SUFFICES ASSUME NEW e \in Dispatcher, Delivering(e)'
                  PROVE  /\ outbox'[worker'[e].row].status = "sending"
                         /\ At(e, "mark")' => copies'[worker'[e].row] = 1
                         /\ ~At(e, "mark")' => copies'[worker'[e].row] = 0
                         /\ \A f \in Dispatcher :
                              Delivering(f)' /\ worker'[f].row = worker'[e].row => f = e
      BY DEF HandsIntact
    <2>1. CASE e = d
      BY <2>1, <1>c, <1>o, <1>s
    <2>2. CASE e # d
      <3>1. outbox'[worker[e].row] = outbox[worker[e].row] /\ worker'[e] = worker[e]
        BY <1>s, <1>t, <1>o, <2>2
      <3>. QED
        BY <1>s, <1>o, <2>2, <3>1 DEF Intact, HandsIntact
    <2>. QED
      BY <2>1, <2>2
  <1>2. SendingHeld'
    <2>. SUFFICES ASSUME NEW r \in RowId, outbox'[r].status = "sending"
                  PROVE  /\ outbox'[r].timer = "running"
                         /\ \E e \in Dispatcher : Delivering(e)' /\ worker'[e].row = r
      BY DEF SendingHeld
    <2>1. CASE r = q
      BY <2>1
    <2>2. CASE r # q
      BY <1>s, <2>2 DEF Intact, SendingHeld
    <2>. QED
      BY <2>1, <2>2
  <1>3. SentIsCopied'
    BY <1>c DEF Intact, SentIsCopied
  <1>. QED
    BY <1>1, <1>2, <1>3 DEF Intact

(* The SMTP server accepts the row a container holds.                      *)
LEMMA HandAccepted ==
  ASSUME TypeOK, Intact, UNCHANGED outbox,
         NEW d \in Dispatcher, NEW q \in RowId,
         Delivering(d), ~At(d, "mark"), worker[d].row = q,
         Delivering(d)', At(d, "mark")', worker'[d].row = q,
         \A e \in Dispatcher \ {d} : worker'[e] = worker[e],
         copies' = [copies EXCEPT ![q] = @ + 1]
  PROVE  Intact'
  <1>t. /\ \A e \in Dispatcher : worker[e].row \in RowId
        /\ copies[q] = 0 /\ outbox[q].status = "sending"
    BY DEF TypeOK, DispatcherTypeOK, Worker, Intact, HandsIntact
  <1>c. copies'[q] = 1 /\ \A r \in RowId \ {q} : copies'[r] = copies[r]
    BY <1>t DEF TypeOK, OutboxTypeOK
  <1>o. \A e \in Dispatcher : Delivering(e) /\ worker[e].row = q => e = d
    BY DEF Intact, HandsIntact
  <1>s. \A e \in Dispatcher : /\ Delivering(e)' <=> Delivering(e)
                              /\ Delivering(e) => worker'[e].row = worker[e].row
                              /\ e # d => (At(e, "mark")' <=> At(e, "mark"))
    BY DEF Delivering, At
  <1>1. HandsIntact'
    <2>. SUFFICES ASSUME NEW e \in Dispatcher, Delivering(e)'
                  PROVE  /\ outbox'[worker'[e].row].status = "sending"
                         /\ At(e, "mark")' => copies'[worker'[e].row] = 1
                         /\ ~At(e, "mark")' => copies'[worker'[e].row] = 0
                         /\ \A f \in Dispatcher :
                              Delivering(f)' /\ worker'[f].row = worker'[e].row => f = e
      BY DEF HandsIntact
    <2>1. CASE e = d
      BY <2>1, <1>c, <1>t, <1>o, <1>s
    <2>2. CASE e # d
      <3>1. copies'[worker[e].row] = copies[worker[e].row]
        BY <1>c, <1>t, <1>o, <1>s, <2>2
      <3>. QED
        BY <1>s, <2>2, <3>1 DEF Intact, HandsIntact
    <2>. QED
      BY <2>1, <2>2
  <1>2. SendingHeld'
    BY <1>s DEF Intact, SendingHeld
  <1>3. SentIsCopied'
    BY <1>c, <1>t DEF Intact, SentIsCopied
  <1>. QED
    BY <1>1, <1>2, <1>3 DEF Intact

LEMMA CalmDispatcher ==
  ASSUME TypeOK, FaultsSpent, Intact, Calm', NEW d \in Dispatcher,
         DispatcherStep(d), UNCHANGED serviceVars
  PROVE  Intact' /\ KeepsFaith
  <1>t. \A r \in RowId : outbox[r] \in Row
    BY DEF TypeOK, OutboxTypeOK
  <1>q. PICK q \in RowId : worker[d].row = q
    BY DEF TypeOK, DispatcherTypeOK, Worker
  <1>h. Delivering(d) => /\ outbox[q].status = "sending"
                         /\ ~At(d, "mark") => copies[q] = 0
    BY <1>q DEF Intact, HandsIntact
  (* A step that leaves all rows alone.                                    *)
  <1>u. ASSUME UNCHANGED <<outbox, copies>>,
               \A e \in Dispatcher \ {d} : worker'[e] = worker[e],
               Delivering(d)' <=> Delivering(d),
               Delivering(d) => worker'[d].row = worker[d].row
                                /\ (At(d, "mark")' <=> At(d, "mark"))
        PROVE  Intact' /\ KeepsFaith
    <2>1. Steady
      BY <1>u DEF Steady
    <2>3. \A e \in Dispatcher :
            /\ Delivering(e)' <=> Delivering(e)
            /\ Delivering(e) => worker'[e].row = worker[e].row
                                /\ (At(e, "mark")' <=> At(e, "mark"))
      BY <1>u DEF Delivering, At
    <2>4. Intact'
      BY <1>u, <2>1, <2>3, HandsKept
    <2>. QED
      BY <1>u, <2>4, NothingMoves
  (* A step of the tick's housekeeping: the container holds nothing.       *)
  <1>k. ASSUME UNCHANGED copies, NEW place, Goto(d, place), ~Delivering(d),
               place \in {"recover", "purge", "select", "idle"},
               Steady, \A r \in RowId : outbox[r].status = "failed" => outbox'[r].status = "failed"
        PROVE  Intact'
    <2>1. ~Delivering(d)' /\ \A e \in Dispatcher \ {d} : worker'[e] = worker[e]
      BY <1>k, Moves, Places
    <2>2. \A e \in Dispatcher :
            /\ Delivering(e)' <=> Delivering(e)
            /\ Delivering(e) => worker'[e].row = worker[e].row
                                /\ (At(e, "mark")' <=> At(e, "mark"))
      BY <1>k, <2>1 DEF Delivering, At
    <2>. QED
      BY <1>k, <2>2, HandsKept
  (* A step that ends a delivery with an UPDATE of the row.                *)
  <1>w. ASSUME UNCHANGED copies, Delivering(d), ~Delivering(d)', ~At(d, "mark"),
               \A e \in Dispatcher \ {d} : worker'[e] = worker[e],
               \A r \in RowId \ {q} : outbox'[r] = outbox[r],
               outbox'[q].status \in {"pending", "failed", "cancelled", "suppressed"}
        PROVE  Intact' /\ KeepsFaith
    <2>1. Intact'
      BY <1>w, <1>h, <1>q, HandEmptied
    <2>2. KeepsFaith
      BY <1>w, <1>h, RowMoves
    <2>. QED
      BY <2>1, <2>2
  <1>v. ASSUME NEW status, NEW timer, NEW reason, Write(q, status, timer, reason)
        PROVE  outbox'[q].status = status /\ \A r \in RowId \ {q} : outbox'[r] = outbox[r]
    BY <1>v DEF Write, TypeOK, OutboxTypeOK, Row
  <1>n. ASSUME NextInBatch(d), UNCHANGED copies, Delivering(d), ~At(d, "mark"),
               NEW status \in {"pending", "failed", "cancelled", "suppressed"},
               NEW timer, NEW reason, Write(q, status, timer, reason)
        PROVE  Intact' /\ KeepsFaith
    BY <1>n, <1>v, <1>w, Moves, Places
  <1>g. ASSUME NEW place \in {"suppression", "quota", "smtp"}, Goto(d, place),
               worker[d].at \in {"record", "suppression", "quota"},
               UNCHANGED <<outbox, copies>>
        PROVE  Intact' /\ KeepsFaith
    BY <1>g, <1>u, Moves, Places
  <1>1. CASE ExpireDrafts(d)
    <2>. DEFINE S == {r \in RowId : outbox[r].status \in {"draft", "pending"}
                                    /\ outbox[r].expires = "past"}
    <2>1. /\ \A r \in S : outbox'[r].status = "cancelled"
          /\ \A r \in RowId \ S : outbox'[r] = outbox[r]
      BY <1>1, <1>t DEF ExpireDrafts, Row
    <2>2. Steady
      BY <2>1 DEF Steady
    <2>3. Intact'
      BY <1>1, <1>k, <2>1, <2>2, Places DEF ExpireDrafts, At
    <2>4. KeepsFaith
      BY <1>1, <2>1, RowsWithdrawn DEF ExpireDrafts, Intact, SentIsCopied
    <2>. QED
      BY <2>3, <2>4
  <1>2. CASE RecoverStuck(d)
    <2>1. \A r \in RowId : outbox'[r] = outbox[r]
      BY <1>2 DEF RecoverStuck, RowsWith, Intact, SendingHeld
    <2>2. Steady
      BY <2>1 DEF Steady
    <2>3. Intact'
      BY <1>2, <1>k, <2>1, <2>2, Places DEF RecoverStuck, At
    <2>4. KeepsFaith
      BY <1>2, <2>1, NothingMoves DEF RecoverStuck
    <2>. QED
      BY <2>3, <2>4
  <1>3. CASE PurgeOldBodies(d)
    <2>1. \A r \in RowId : /\ outbox'[r].status = outbox[r].status
                           /\ \/ outbox'[r].timer = outbox[r].timer
                              \/ outbox'[r].timer = "running"
      <3>1. CASE UNCHANGED outbox
        BY <3>1
      <3>2. ASSUME NEW old \in SUBSET RowId,
                   outbox' = [r \in RowId |-> IF r \in old
                              THEN [outbox[r] EXCEPT !.body = FALSE,
                                      !.timer = IF outbox[r].status = "sending"
                                                THEN "running" ELSE @]
                              ELSE outbox[r]],
                   NEW r \in RowId
            PROVE  /\ outbox'[r].status = outbox[r].status
                   /\ outbox'[r].timer = outbox[r].timer \/ outbox'[r].timer = "running"
        BY <3>2, <1>t DEF Row
      <3>. QED
        BY <1>3, <3>1, <3>2 DEF PurgeOldBodies
    <2>2. Steady
      BY <2>1 DEF Steady
    <2>3. UNCHANGED copies /\ \E place \in {"select", "idle"} : Goto(d, place)
      BY <1>3 DEF PurgeOldBodies
    <2>4. Intact'
      BY <1>3, <1>k, <2>1, <2>2, <2>3, Places DEF PurgeOldBodies, At
    <2>. QED
      BY <2>1, <2>3, <2>4, NothingMoves
  <1>4. CASE SelectDue(d)
    <2>1. /\ \A e \in Dispatcher \ {d} : worker'[e] = worker[e]
          /\ worker[d].at = "select" /\ worker'[d].at = "batch" /\ UNCHANGED <<outbox, copies>>
      BY <1>4 DEF SelectDue, At, TypeOK, DispatcherTypeOK, Worker, outboxVars
    <2>. QED
      BY <2>1, <1>u, Places
  <1>5. CASE EndBatch(d)
    BY <1>5, <1>u, Moves, Places DEF EndBatch, At, outboxVars
  <1>6. ASSUME NEW r \in RowId, Claim(d, r) PROVE Intact' /\ KeepsFaith
    <2>1. /\ \A e \in Dispatcher \ {d} : worker'[e] = worker[e]
          /\ ~Delivering(d) /\ UNCHANGED copies
      BY <1>6, Places DEF Claim, At, TypeOK, DispatcherTypeOK
    <2>2. CASE outbox[r].status = "pending"
      <3>1. worker'[d].at = "reread" /\ worker'[d].row = r
        BY <1>6, <2>2 DEF Claim, TypeOK, DispatcherTypeOK, Worker
      <3>2. /\ outbox'[r].status = "sending" /\ outbox'[r].timer = "running"
            /\ \A p \in RowId \ {r} : outbox'[p] = outbox[p]
        BY <1>6, <2>2, <1>t DEF Claim, TypeOK, OutboxTypeOK, Row
      <3>3. Intact'
        BY <2>1, <2>2, <3>1, <3>2, Places, HandFilled
      <3>4. KeepsFaith
        BY <2>1, <2>2, <3>2, RowMoves DEF Intact, SentIsCopied
      <3>. QED
        BY <3>3, <3>4
    <2>3. CASE outbox[r].status # "pending"
      <3>1. UNCHANGED outbox /\ ~Delivering(d)'
        BY <1>6, <2>3, Places DEF Claim, At, TypeOK, DispatcherTypeOK, Worker
      <3>. QED
        BY <2>1, <3>1, <1>u
    <2>. QED
      BY <2>2, <2>3
  <1>7. CASE Reread(d)
    <2>1. /\ \A e \in Dispatcher \ {d} : worker'[e] = worker[e]
          /\ worker[d].at = "reread" /\ worker'[d].at = "record"
          /\ worker'[d].row = worker[d].row
          /\ UNCHANGED <<outbox, copies>>
      BY <1>7 DEF Reread, At, TypeOK, DispatcherTypeOK, Worker, outboxVars
    <2>. QED
      BY <2>1, <1>u, Places
  <1>8. CASE CheckRecord(d)
    BY <1>8, <1>q, <1>g, <1>n, Places DEF CheckRecord, At
  <1>9. CASE CheckSuppression(d)
    BY <1>9, <1>q, <1>g, <1>n, Places DEF CheckSuppression, At
  <1>10. CASE CheckQuota(d)
    <2>. DEFINE full == outbox[q].slot \notin Credentialed \/ Cardinality(SentToday) >= DailyCap
    <2>1. CASE full
      <3>1. /\ outbox'[q].status = "pending" /\ \A r \in RowId \ {q} : outbox'[r] = outbox[r]
            /\ NextInBatch(d)
        BY <1>10, <2>1, <1>q, <1>t DEF CheckQuota, TypeOK, OutboxTypeOK, Row
      <3>2. UNCHANGED copies /\ worker[d].at = "quota"
        BY <1>10 DEF CheckQuota, At
      <3>. QED
        BY <3>1, <3>2, <1>w, Moves, Places
    <2>2. CASE ~full
      <3>1. Goto(d, "smtp") /\ UNCHANGED <<outbox, copies>> /\ worker[d].at = "quota"
        BY <1>10, <2>2, <1>q DEF CheckQuota, At
      <3>. QED
        BY <3>1, <1>g
    <2>. QED
      BY <2>1, <2>2
  <1>11. CASE SmtpAccepts(d)
    <2>1. /\ worker[d].at = "smtp" /\ Goto(d, "mark") /\ UNCHANGED outbox
          /\ copies' = [copies EXCEPT ![q] = @ + 1]
      BY <1>11, <1>q DEF SmtpAccepts, At
    <2>2. Delivering(d) /\ ~At(d, "mark") /\ Delivering(d)' /\ At(d, "mark")'
          /\ worker'[d].row = q /\ \A e \in Dispatcher \ {d} : worker'[e] = worker[e]
      BY <2>1, <1>q, Moves, Places
    <2>4. Intact'
      BY <2>1, <2>2, <1>q, HandAccepted
    <2>5. KeepsFaith
      BY <2>1, <2>2, <1>h, RowDelivered
    <2>. QED
      BY <2>4, <2>5
  <1>12. CASE SmtpRejects(d)
    <2>1. UNCHANGED copies /\ worker[d].at = "smtp" /\ NextInBatch(d)
      BY <1>12 DEF SmtpRejects, AfterError, At
    <2>2. Write(q, "failed", "elapsed", "none") \/ Write(q, "pending", "running", "none")
      BY <1>12, <1>q DEF SmtpRejects, AfterError
    <2>3. Delivering(d) /\ ~At(d, "mark")
      BY <2>1, Places
    <2>4. CASE Write(q, "failed", "elapsed", "none")
      BY <2>1, <2>3, <2>4, <1>n
    <2>5. CASE Write(q, "pending", "running", "none")
      BY <2>1, <2>3, <2>5, <1>n
    <2>. QED
      BY <2>2, <2>4, <2>5
  <1>13. CASE MarkSent(d)
    <2>1. /\ worker[d].at = "mark" /\ Goto(d, "log") /\ UNCHANGED copies
          /\ Write(q, "sent", "running", "none")
      BY <1>13, <1>q DEF MarkSent, At
    <2>2. outbox'[q].status = "sent" /\ \A r \in RowId \ {q} : outbox'[r] = outbox[r]
      BY <2>1, <1>v
    <2>3. Delivering(d) /\ At(d, "mark") /\ ~Delivering(d)'
          /\ \A e \in Dispatcher \ {d} : worker'[e] = worker[e]
      BY <2>1, Moves, Places
    <2>4. copies[q] = 1
      BY <2>3, <1>q DEF Intact, HandsIntact
    <2>5. Intact'
      BY <2>1, <2>2, <2>3, <1>h, <1>q, HandEmptied
    <2>6. \A status : PhaseOf(status, copies[q]) = "delivered"
      BY <2>4 DEF PhaseOf
    <2>7. KeepsFaith
      BY <2>1, <2>2, <2>6, NothingMoves
    <2>. QED
      BY <2>5, <2>7
  <1>14. CASE LogContact(d)
    BY <1>14, <1>u, Moves, Places DEF LogContact, At, outboxVars
  <1>15. CASE MarkSentFails(d) \/ Crash(d)
    BY <1>15, SpentIsNotCalm DEF MarkSentFails, Crash
  <1>. QED
    BY <1>1, <1>2, <1>3, <1>4, <1>5, <1>6, <1>7, <1>8, <1>9, <1>10, <1>11, <1>12, <1>13,
       <1>14, <1>15 DEF DispatcherStep, DispatcherProgress

(* What staff and triggers do is not about what is being sent.             *)
LEMMA ServiceKeepsHands ==
  ASSUME TypeOK, Intact, Steady, UNCHANGED <<copies, worker>>
  PROVE  Intact'
  <1>1. \A d \in Dispatcher :
          /\ Delivering(d)' <=> Delivering(d)
          /\ Delivering(d) => worker'[d].row = worker[d].row
                              /\ (At(d, "mark")' <=> At(d, "mark"))
    BY DEF Delivering, At
  <1>. QED
    BY <1>1, HandsKept

(* One row changes its status.                                             *)
LEMMA ServiceMoves ==
  ASSUME TypeOK, Intact, NEW q \in RowId, UNCHANGED <<copies, worker>>,
         \A r \in RowId \ {q} : outbox'[r] = outbox[r],
         \/ outbox[q].status = "none" /\ outbox'[q].status \in {"draft", "pending", "failed"}
         \/ outbox[q].status \in {"draft", "failed"} /\ outbox'[q].status \in {"pending", "cancelled"}
         \/ outbox[q].status = "pending" /\ outbox'[q].status = "cancelled"
  PROVE  Intact' /\ KeepsFaith
  <1>1. Steady
    BY DEF Steady
  <1>2. ~(copies[q] > 0)
    BY DEF Intact, SentIsCopied
  <1>3. KeepsFaith
    BY <1>2, RowMoves
  <1>. QED
    BY <1>1, <1>3, ServiceKeepsHands

LEMMA CalmService ==
  ASSUME TypeOK, FaultsSpent, Intact, Calm', ServiceStep, UNCHANGED dispatcherVars
  PROVE  Intact' /\ KeepsFaith
  <1>t. /\ \A r \in RowId : outbox[r] \in Row
        /\ \A c \in Clerk : request[c] \in Request /\ request[c].row \in RowId
    BY DEF TypeOK, OutboxTypeOK, ServiceTypeOK, Request
  <1>v. UNCHANGED worker
    BY DEF dispatcherVars
  <1>u. ASSUME UNCHANGED <<outbox, copies>> PROVE Intact' /\ KeepsFaith
    <2>1. Steady
      BY <1>u DEF Steady
    <2>. QED
      BY <1>u, <1>v, <2>1, ServiceKeepsHands, NothingMoves
  <1>i. ASSUME NEW q \in RowId, IsNextId(q), NEW row, outbox' = [outbox EXCEPT ![q] = row],
               row.status \in {"draft", "pending", "failed"}, UNCHANGED copies
        PROVE  Intact' /\ KeepsFaith
    <2>1. /\ outbox[q].status = "none" /\ outbox'[q] = row
          /\ \A r \in RowId \ {q} : outbox'[r] = outbox[r]
      BY <1>i DEF IsNextId, Exists, TypeOK, OutboxTypeOK
    <2>. QED
      BY <1>i, <1>v, <2>1, ServiceMoves
  <1>1. ASSUME NEW c \in Clerk, QueueDraft(c) PROVE Intact' /\ KeepsFaith
    <2>1. UNCHANGED copies
      BY <1>1 DEF QueueDraft
    <2>2. CASE UNCHANGED outbox
      BY <2>1, <2>2, <1>u
    <2>3. CASE ~UNCHANGED outbox
      <3>1. PICK q \in RowId :
              /\ outbox[q].status = "draft" /\ outbox'[q].status = "pending"
              /\ \A r \in RowId \ {q} : outbox'[r] = outbox[r]
        BY <1>1, <2>3, QueuesOneDraft
      <3>. QED
        BY <2>1, <3>1, <1>v, ServiceMoves
    <2>. QED
      BY <2>2, <2>3
  <1>2. ASSUME NEW c \in Clerk, InsertPending(c) PROVE Intact' /\ KeepsFaith
    <2>1. UNCHANGED copies
      BY <1>2 DEF InsertPending
    <2>2. CASE UNCHANGED outbox
      BY <2>1, <2>2, <1>u
    <2>3. CASE ~UNCHANGED outbox
      <3>1. PICK q \in RowId : /\ IsNextId(q)
                               /\ outbox' = [outbox EXCEPT ![q] = Inserted("pending", request[c].slot,
                                    IF request[c].again
                                    THEN [OwnKey(request[c].slot, request[c].content) EXCEPT !.resend = q]
                                    ELSE OwnKey(request[c].slot, request[c].content),
                                    request[c].content, "never", "none")]
        BY <1>2, <2>3 DEF InsertPending
      <3>2. \A s, k, content : Inserted("pending", s, k, content, "never", "none").status = "pending"
        BY DEF Inserted
      <3>. QED
        BY <2>1, <3>1, <3>2, <1>i
    <2>. QED
      BY <2>2, <2>3
  <1>3. ASSUME NEW c \in Clerk, NEW q \in RowId, Cancel(c, q) PROVE Intact' /\ KeepsFaith
    <2>1. /\ outbox[q].status \in {"draft", "pending", "failed"}
          /\ outbox'[q].status = "cancelled"
          /\ \A r \in RowId \ {q} : outbox'[r] = outbox[r]
          /\ UNCHANGED copies
      BY <1>3, <1>t DEF Cancel, TypeOK, OutboxTypeOK, Row
    <2>. QED
      BY <2>1, <1>v, ServiceMoves
  <1>4. ASSUME NEW c \in Clerk, NEW q \in RowId, RetryRead(c, q) PROVE Intact' /\ KeepsFaith
    BY <1>4, <1>u DEF RetryRead, outboxVars
  (* A retry that came too late would be overtaken.                        *)
  <1>5. ASSUME NEW c \in Clerk, RetryWrite(c) PROVE Intact' /\ KeepsFaith
    <2>1. PICK q \in RowId : q = request[c].row
      BY <1>t
    <2>2. outbox[q].status = "failed"
      BY <1>5, <2>1 DEF RetryWrite, Calm
    <2>3. /\ outbox'[q].status = "pending"
          /\ \A r \in RowId \ {q} : outbox'[r] = outbox[r]
      BY <1>5, <1>t, <2>1 DEF RetryWrite, TypeOK, OutboxTypeOK, Row
    <2>4. UNCHANGED copies
      BY <1>5 DEF RetryWrite
    <2>. QED
      BY <2>2, <2>3, <2>4, <1>v, ServiceMoves
  <1>6. ASSUME NEW t \in Trigger, ReplaceDrafts(t) PROVE Intact' /\ KeepsFaith
    <2>1. PICK S \in SUBSET RowId : S = Drafts(trigger[t].slot)
      BY DEF Drafts, RowsWith
    <2>2. /\ \A r \in S : outbox[r].status = "draft" /\ outbox'[r].status = "cancelled"
          /\ \A r \in RowId \ S : outbox'[r] = outbox[r]
          /\ UNCHANGED <<copies, request>>
      BY <1>6, <1>t, <2>1 DEF ReplaceDrafts, Drafts, RowsWith, Row
    <2>3. Steady
      BY <2>2 DEF Steady
    <2>5. KeepsFaith
      BY <2>2, RowsWithdrawn DEF Intact, SentIsCopied
    <2>. QED
      BY <2>2, <2>3, <2>5, <1>v, ServiceKeepsHands
  <1>7. ASSUME NEW t \in Trigger, TriggerInsert(t) PROVE Intact' /\ KeepsFaith
    <2>1. UNCHANGED <<copies, request>>
      BY <1>7 DEF TriggerInsert
    <2>2. CASE UNCHANGED outbox
      BY <2>1, <2>2, <1>u
    <2>3. CASE ~UNCHANGED outbox
      <3>1. PICK q \in RowId : IsNextId(q) /\ \E expires \in {"never", "ahead"} :
                                 outbox' = [outbox EXCEPT ![q] = TriggerRow(t, expires)]
        BY <1>7, <2>3 DEF TriggerInsert
      <3>2. PICK expires \in {"never", "ahead"} :
              outbox' = [outbox EXCEPT ![q] = TriggerRow(t, expires)]
        BY <3>1
      <3>3. TriggerRow(t, expires).status \in {"draft", "pending", "failed"}
        <4>1. trigger[t].clean \in BOOLEAN
          BY <1>7 DEF TypeOK, ServiceTypeOK, TriggerRun
        <4>. QED
          BY <4>1 DEF TriggerRow, Inserted
      <3>. QED
        BY <2>1, <3>1, <3>2, <3>3, <1>i
    <2>. QED
      BY <2>2, <2>3
  <1>8. ASSUME NEW t \in Trigger, TriggerFails(t) PROVE FALSE
    BY <1>8, SpentIsNotCalm DEF TriggerFails
  <1>9. ASSUME NEW t \in Trigger,
               \/ \E s \in Slot, c \in Content : EditRecord(t, s, c)
               \/ TriggerCompose(t) \/ TriggerCheckKey(t)
        PROVE  Intact' /\ KeepsFaith
    <2>1. UNCHANGED <<outbox, copies, request>>
      BY <1>9 DEF EditRecord, TriggerCompose, TriggerCheckKey, outboxVars
    <2>. QED
      BY <2>1, <1>u
  <1>10. ASSUME NEW s \in Slot, AddSuppression(s) \/ RemoveSuppression(s) \/ DeleteRecord(s)
         PROVE  Intact' /\ KeepsFaith
    <2>1. UNCHANGED <<outbox, copies, request>>
      BY <1>10 DEF AddSuppression, RemoveSuppression, DeleteRecord, serviceVars
    <2>. QED
      BY <2>1, <1>u
  <1>11. ASSUME NEW c \in Clerk,
                \/ \E s \in Slot, via \in {"send", "compose"} : Preview(c, s, via)
                \/ \E r \in RowId : PreviewDraft(c, r)
                \/ Compose(c) \/ FindDraft(c) \/ CheckKey(c)
         PROVE  Intact' /\ KeepsFaith
    <2>1. UNCHANGED <<outbox, copies>>
      BY <1>11 DEF Preview, PreviewDraft, Compose, FindDraft, CheckKey, outboxVars
    <2>. QED
      BY <2>1, <1>u
  <1>. QED
    BY <1>1, <1>2, <1>3, <1>4, <1>5, <1>6, <1>7, <1>8, <1>9, <1>10, <1>11 DEF ServiceStep

LEMMA CalmClock ==
  ASSUME TypeOK, FaultsSpent, Intact, Calm', NEW q \in RowId,
         TimerElapses(q) \/ ExpiryPasses(q), UNCHANGED serviceVars
  PROVE  Intact' /\ KeepsFaith
  <1>t. \A r \in RowId : outbox[r] \in Row
    BY DEF TypeOK, OutboxTypeOK
  <1>1. \A r \in RowId : outbox'[r].status = outbox[r].status
    BY <1>t DEF TimerElapses, ExpiryPasses, TypeOK, OutboxTypeOK, Row
  <1>2. UNCHANGED <<copies, worker, request>>
    BY DEF TimerElapses, ExpiryPasses, dispatcherVars, serviceVars
  <1>3. \A r \in RowId : outbox[r].status = "sending" => outbox'[r].timer = outbox[r].timer
    <2>1. CASE ExpiryPasses(q)
      BY <2>1, <1>t DEF ExpiryPasses, TypeOK, OutboxTypeOK, Row
    <2>2. CASE TimerElapses(q)
      <3>1. outbox[q].status # "sending"
        BY <2>2, SpentIsNotCalm DEF TimerElapses, Intact, SendingHeld
      <3>. QED
        BY <2>2, <3>1, <1>t DEF TimerElapses, TypeOK, OutboxTypeOK, Row
    <2>. QED
      BY <2>1, <2>2
  <1>4. Steady
    BY <1>1, <1>3 DEF Steady
  <1>. QED
    BY <1>1, <1>2, <1>4, ServiceKeepsHands, NothingMoves

LEMMA CalmStep ==
  TypeOK /\ TypeOK' /\ FaultsSpent /\ (Calm => Intact) /\ [Next]_vars
    => FaultsSpent' /\ (Calm' => Intact' /\ KeepsFaith)
  <1>. SUFFICES ASSUME TypeOK, TypeOK', FaultsSpent, Calm => Intact, [Next]_vars, Calm'
                PROVE  Intact' /\ KeepsFaith
    BY StillSpent
  <1>1. Intact
    BY StillSpent
  <1>2. CASE UNCHANGED vars
    <2>1. UNCHANGED <<outbox, copies, worker, request>>
      BY <1>2 DEF vars, outboxVars, dispatcherVars, serviceVars
    <2>2. Intact'
      BY <1>1, <2>1 DEF Intact, HandsIntact, SendingHeld, SentIsCopied, Delivering, At
    <2>. QED
      BY <2>1, <2>2, NothingMoves
  <1>. QED
    BY <1>1, <1>2, CalmDispatcher, CalmService, CalmClock DEF Next

(* Whatever any number of requests, triggers and containers and the clock  *)
(* do: until the first crash, stall or database error, or the first retry  *)
(* of an email that is failed no more when it is written, every email      *)
(* keeps the promise of MailPromise.                                       *)
THEOREM MailPromiseIsKept == Spec => KeepsPromise
  <1>1. Init => Promise!Init
    <2>. SUFFICES ASSUME Init PROVE Promise!Init
      OBVIOUS
    <2>1. \A r \in RowId : LetterStage[r] = "absent"
      BY Staged DEF Init, OutboxInit, BlankRow, PhaseOf
    <2>. QED
      BY <2>1, Staged DEF Promise!Init, Init, OutboxInit
  <1>2. Init => FaultsSpent /\ (Calm => Intact)
    <2>. SUFFICES ASSUME Init PROVE FaultsSpent /\ Intact
      OBVIOUS
    <2>1. FaultsSpent
      BY FaultAssumption DEF Init, OutboxInit, FaultsSpent
    <2>. QED
      BY <2>1 DEF Init, OutboxInit, BlankRow, DispatcherInit, IdleWorker, ServiceInit, IdleRequest,
                  Intact, HandsIntact, SendingHeld, SentIsCopied, Delivering
  <1>3. Spec => [](TypeOK /\ FaultsSpent /\ (Calm => Intact))
    BY <1>2, InitType, NextType, CalmStep, PTL DEF Spec
  <1>4. TypeOK /\ TypeOK' /\ FaultsSpent /\ (Calm => Intact) /\ [Next]_vars
          => [Calm' => Promise!Next]_<<LetterStage, copies>>
    BY CalmStep DEF KeepsFaith
  <1>. QED
    BY <1>1, <1>3, <1>4, PTL DEF Spec, KeepsPromise, Promise!Spec

-----------------------------------------------------------------------------
(* Attempts, with one container.  A row that may be claimed has one left:  *)
(* every way back into the queue compares with MAX_ATTEMPTS or gives the   *)
(* attempt back, but for the recovery of a delivery that was cut off, and  *)
(* that the crash or the stall has paid for.                               *)

Budget == MaxAttempts + (MaxFaults["crash"] - faults["crash"])
                      + (MaxFaults["slow"] - faults["slow"])

InHand(r) == \E d \in Dispatcher : Delivering(d) /\ worker[d].row = r

(* A row the dispatcher may claim, now, once staff have confirmed it, or   *)
(* after recoverStuck.                                                     *)
Claimable(r) ==
  outbox[r].status \in {"draft", "pending"} \/ (outbox[r].status = "sending" /\ ~InHand(r))

RowsWithinBudget ==
  \A r \in RowId : /\ outbox[r].attempts <= Budget
                   /\ Claimable(r) => outbox[r].attempts < Budget

(* The count a container works with is not behind the table's.             *)
ReadsWithinBudget ==
  \A d \in Dispatcher : Delivering(d) /\ ~At(d, "reread") =>
    /\ worker[d].attempts <= Budget
    /\ outbox[worker[d].row].attempts <= worker[d].attempts

AttemptsWithin == RowsWithinBudget /\ ReadsWithinBudget

LEMMA BudgetGrows ==
  ASSUME TypeOK, TypeOK', FaultsSpent, FaultsSpent', [Next]_vars
  PROVE  /\ Budget \in Nat /\ Budget' \in Nat
         /\ MaxAttempts \in Nat /\ MaxAttempts >= 1
         /\ MaxAttempts <= Budget /\ Budget <= Budget'
         /\ Spend("crash") \/ Spend("slow") => Budget < Budget'
  <1>1. \A k \in {"crash", "slow"} : /\ k \in FaultKind
                                     /\ MaxFaults[k] \in Nat
                                     /\ faults[k] \in Nat /\ faults'[k] \in Nat
                                     /\ faults[k] <= MaxFaults[k]
                                     /\ faults'[k] <= MaxFaults[k]
                                     /\ faults'[k] <= faults[k]
    BY FaultsFall, FaultAssumption DEF TypeOK, OutboxTypeOK, FaultsSpent
  <1>2. /\ Spend("crash") => faults'["crash"] = faults["crash"] - 1
        /\ Spend("slow") => faults'["slow"] = faults["slow"] - 1
    BY <1>1 DEF Spend, TypeOK, OutboxTypeOK
  <1>. QED
    BY <1>1, <1>2, AttemptsAssumption DEF Budget

(* How a step may change rows and reads.                                   *)
LEMMA BudgetKept ==
  ASSUME TypeOK, TypeOK', AttemptsWithin,
         Budget \in Nat, Budget' \in Nat, Budget <= Budget',
         \A r \in RowId :
           \/ /\ outbox'[r].attempts = outbox[r].attempts
              /\ Claimable(r)' => Claimable(r) \/ Budget < Budget'
           \/ outbox'[r].attempts < Budget
           \/ outbox'[r].attempts <= Budget /\ ~Claimable(r)',
         \A d \in Dispatcher : Delivering(d)' /\ ~At(d, "reread")' =>
           /\ worker'[d].attempts <= Budget
           /\ outbox'[worker'[d].row].attempts <= worker'[d].attempts
  PROVE  AttemptsWithin'
  <1>1. ASSUME NEW r \in RowId
        PROVE  /\ outbox'[r].attempts <= Budget'
               /\ Claimable(r)' => outbox'[r].attempts < Budget'
    <2>0. outbox[r].attempts \in Nat /\ outbox'[r].attempts \in Nat
      BY DEF TypeOK, OutboxTypeOK, Row
    <2>1. outbox[r].attempts <= Budget /\ (Claimable(r) => outbox[r].attempts < Budget)
      BY DEF AttemptsWithin, RowsWithinBudget
    <2>. HIDE DEF Claimable
    <2>2. CASE outbox'[r].attempts = outbox[r].attempts
               /\ (Claimable(r)' => Claimable(r) \/ Budget < Budget')
      BY <2>0, <2>1, <2>2
    <2>3. CASE outbox'[r].attempts < Budget
      BY <2>0, <2>3
    <2>4. CASE outbox'[r].attempts <= Budget /\ ~Claimable(r)'
      BY <2>0, <2>4
    <2>. QED
      BY <2>2, <2>3, <2>4
  <1>2. ASSUME NEW d \in Dispatcher, Delivering(d)', ~At(d, "reread")'
        PROVE  /\ worker'[d].attempts <= Budget'
               /\ outbox'[worker'[d].row].attempts <= worker'[d].attempts
    <2>1. worker'[d].attempts \in Nat /\ worker'[d].attempts <= Budget
          /\ outbox'[worker'[d].row].attempts <= worker'[d].attempts
      BY <1>2 DEF TypeOK, DispatcherTypeOK, Worker
    <2>. QED
      BY <2>1
  <1>. QED
    BY <1>1, <1>2 DEF AttemptsWithin, RowsWithinBudget, ReadsWithinBudget

LEMMA DispatcherBudget ==
  ASSUME \A d, e \in Dispatcher : d = e,
         TypeOK, TypeOK', FaultsSpent, FaultsSpent', AttemptsWithin, [Next]_vars,
         NEW d \in Dispatcher, DispatcherStep(d)
  PROVE  AttemptsWithin'
  <1>t. /\ \A r \in RowId : outbox[r] \in Row /\ outbox[r].attempts \in Nat
        /\ worker[d] \in Worker /\ worker[d].attempts \in Nat
    BY DEF TypeOK, OutboxTypeOK, Row, DispatcherTypeOK, Worker
  <1>q. PICK q \in RowId : worker[d].row = q
    BY DEF TypeOK, DispatcherTypeOK, Worker
  <1>b. /\ Budget \in Nat /\ Budget' \in Nat
        /\ MaxAttempts \in Nat /\ MaxAttempts >= 1
        /\ MaxAttempts <= Budget /\ Budget <= Budget'
        /\ Spend("crash") => Budget < Budget'
    BY BudgetGrows
  <1>a. \A r \in RowId : /\ outbox[r].attempts <= Budget
                         /\ Claimable(r) => outbox[r].attempts < Budget
    BY DEF AttemptsWithin, RowsWithinBudget
  <1>r. Delivering(d) /\ ~At(d, "reread") =>
          worker[d].attempts <= Budget /\ outbox[q].attempts <= worker[d].attempts
    BY <1>q DEF AttemptsWithin, ReadsWithinBudget
  <1>c. \A r \in RowId :
          /\ Claimable(r) <=> \/ outbox[r].status \in {"draft", "pending"}
                              \/ outbox[r].status = "sending" /\ ~(Delivering(d) /\ r = q)
          /\ Claimable(r)' <=> \/ outbox'[r].status \in {"draft", "pending"}
                               \/ outbox'[r].status = "sending"
                                    /\ ~(Delivering(d)' /\ worker'[d].row = r)
    BY <1>q DEF Claimable, InHand
  <1>. HIDE DEF Claimable
  (* The container holds nothing, before and after.                        *)
  <1>h. ASSUME ~Delivering(d), ~Delivering(d)',
               \A r \in RowId : /\ outbox'[r].attempts = outbox[r].attempts
                                /\ outbox'[r].status # outbox[r].status =>
                                     \/ outbox'[r].status \notin {"draft", "pending", "sending"}
                                     \/ outbox[r].status = "sending"
        PROVE  AttemptsWithin'
    <2>1. \A r \in RowId : Claimable(r)' => Claimable(r)
      BY <1>h, <1>c
    <2>2. \A e \in Dispatcher : ~Delivering(e)'
      BY <1>h
    <2>. QED
      BY <1>h, <1>b, <2>1, <2>2, BudgetKept
  (* It holds the same row, before and after.                              *)
  <1>g. ASSUME UNCHANGED outbox, Delivering(d), Delivering(d)', worker'[d].row = q,
               worker'[d].attempts <= Budget, outbox[q].attempts <= worker'[d].attempts
        PROVE  AttemptsWithin'
    <2>1. \A r \in RowId : Claimable(r)' => Claimable(r)
      BY <1>g, <1>c
    <2>2. \A e \in Dispatcher : worker'[e].attempts <= Budget
                                /\ outbox'[worker'[e].row].attempts <= worker'[e].attempts
      BY <1>g
    <2>. QED
      BY <1>g, <1>b, <2>1, <2>2, BudgetKept
  (* It lets go of it.                                                     *)
  <1>l. ASSUME Delivering(d), ~Delivering(d)',
               \A r \in RowId \ {q} : outbox'[r] = outbox[r],
               \/ outbox'[q].attempts < Budget
               \/ /\ outbox'[q].attempts <= Budget
                  /\ outbox'[q].status \notin {"draft", "pending", "sending"}
        PROVE  AttemptsWithin'
    <2>1. \A r \in RowId \ {q} : Claimable(r)' => Claimable(r)
      BY <1>l, <1>c
    <2>2. \A e \in Dispatcher : ~Delivering(e)'
      BY <1>l
    <2>3. \/ outbox'[q].attempts < Budget
          \/ outbox'[q].attempts <= Budget /\ ~Claimable(q)'
      BY <1>l, <1>c
    <2>. QED
      BY <1>l, <1>b, <2>1, <2>2, <2>3, BudgetKept
  <1>w. ASSUME NEW status, NEW timer, NEW reason, Write(q, status, timer, reason)
        PROVE  /\ outbox'[q].status = status /\ outbox'[q].attempts = outbox[q].attempts
               /\ \A r \in RowId \ {q} : outbox'[r] = outbox[r]
    BY <1>w, <1>t DEF Write, TypeOK, OutboxTypeOK, Row
  <1>n. ASSUME NextInBatch(d), Delivering(d),
               NEW status \in {"failed", "cancelled", "suppressed"}, NEW timer, NEW reason,
               Write(q, status, timer, reason)
        PROVE  AttemptsWithin'
    BY <1>n, <1>w, <1>a, <1>l, Moves, Places
  <1>e. ASSUME worker[d].at \in {"smtp", "mark"}, NEW permanent \in BOOLEAN, AfterError(d, permanent)
        PROVE  AttemptsWithin'
    <2>1. NextInBatch(d)
      BY <1>e DEF AfterError
    <2>2. CASE permanent \/ GivesUp(worker[d].attempts)
      <3>1. Write(q, "failed", "elapsed", "none")
        BY <1>e, <1>q, <2>2 DEF AfterError
      <3>. QED
        BY <1>e, <2>1, <3>1, <1>n, Places
    <2>3. CASE ~(permanent \/ GivesUp(worker[d].attempts))
      <3>1. Write(q, "pending", "running", "none") /\ worker[d].attempts < MaxAttempts
        BY <1>e, <1>q, <1>t, <1>b, <2>3 DEF AfterError, GivesUp
      <3>2. Delivering(d) /\ ~Delivering(d)' /\ outbox[q].attempts <= worker[d].attempts
        BY <1>e, <1>r, <2>1, Moves, Places DEF At
      <3>3. outbox[q].attempts < Budget
        BY <1>t, <1>b, <3>1, <3>2
      <3>. QED
        BY <1>w, <1>l, <3>1, <3>2, <3>3
    <2>. QED
      BY <2>2, <2>3
  <1>m. ASSUME NEW place \in {"suppression", "quota", "smtp", "mark"}, Goto(d, place),
               worker[d].at \in {"record", "suppression", "quota", "smtp"}, UNCHANGED outbox
        PROVE  AttemptsWithin'
    <2>1. worker'[d].attempts = worker[d].attempts
      BY <1>m, <1>t DEF Goto, TypeOK, DispatcherTypeOK, Worker
    <2>2. Delivering(d) /\ Delivering(d)' /\ worker'[d].row = q /\ ~At(d, "reread")
      BY <1>m, <1>q, Moves, Places DEF At
    <2>. QED
      BY <1>m, <1>r, <1>g, <2>1, <2>2
  <1>1. CASE ExpireDrafts(d)
    <2>1. ASSUME NEW r \in RowId
          PROVE  /\ outbox'[r].attempts = outbox[r].attempts
                 /\ outbox'[r].status = outbox[r].status \/ outbox'[r].status = "cancelled"
      BY <1>1, <1>t DEF ExpireDrafts, Row
    <2>2. ~Delivering(d) /\ ~Delivering(d)'
      <3>1. worker[d].at = "idle" /\ Goto(d, "recover")
        BY <1>1 DEF ExpireDrafts, At
      <3>. QED
        BY <3>1, Moves, Places
    <2>. QED
      BY <1>h, <2>1, <2>2
  <1>2. CASE RecoverStuck(d)
    <2>1. \A r \in RowId : /\ outbox'[r].attempts = outbox[r].attempts
                           /\ outbox'[r].status # outbox[r].status => outbox[r].status = "sending"
      BY <1>2, <1>t DEF RecoverStuck, RowsWith, Row
    <2>2. ~Delivering(d) /\ ~Delivering(d)'
      <3>1. worker[d].at = "recover" /\ Goto(d, "purge")
        BY <1>2 DEF RecoverStuck, At
      <3>. QED
        BY <3>1, Moves, Places
    <2>. QED
      BY <1>h, <2>1, <2>2
  <1>3. CASE PurgeOldBodies(d)
    <2>1. \A r \in RowId : /\ outbox'[r].attempts = outbox[r].attempts
                           /\ outbox'[r].status = outbox[r].status
      <3>1. CASE UNCHANGED outbox
        BY <3>1
      <3>2. ASSUME NEW old \in SUBSET RowId,
                   outbox' = [r \in RowId |-> IF r \in old
                              THEN [outbox[r] EXCEPT !.body = FALSE,
                                      !.timer = IF outbox[r].status = "sending"
                                                THEN "running" ELSE @]
                              ELSE outbox[r]],
                   NEW r \in RowId
            PROVE  outbox'[r].attempts = outbox[r].attempts /\ outbox'[r].status = outbox[r].status
        BY <3>2, <1>t DEF Row
      <3>. QED
        BY <1>3, <3>1, <3>2 DEF PurgeOldBodies
    <2>2. \E place \in {"select", "idle"} : Goto(d, place)
      BY <1>3 DEF PurgeOldBodies
    <2>3. ~Delivering(d) /\ ~Delivering(d)'
      <3>1. worker[d].at = "purge"
        BY <1>3 DEF PurgeOldBodies, At
      <3>. QED
        BY <2>2, <3>1, Moves, Places
    <2>. QED
      BY <1>h, <2>1, <2>3
  <1>4. CASE SelectDue(d) \/ EndBatch(d) \/ LogContact(d)
    <2>1. /\ UNCHANGED outbox /\ worker[d].at \in {"select", "batch", "log"}
          /\ worker'[d].at \in {"batch", "idle"}
      BY <1>4, Moves DEF SelectDue, EndBatch, LogContact, At, outboxVars, TypeOK, DispatcherTypeOK, Worker
    <2>. QED
      BY <1>h, <2>1, Places
  <1>5. ASSUME NEW r \in RowId, Claim(d, r) PROVE AttemptsWithin'
    <2>1. ~Delivering(d)
      BY <1>5, Places DEF Claim, At
    <2>2. CASE outbox[r].status = "pending"
      <3>1. worker'[d].at = "reread" /\ worker'[d].row = r
        BY <1>5, <2>2 DEF Claim, TypeOK, DispatcherTypeOK, Worker
      <3>2. /\ outbox'[r].status = "sending" /\ outbox'[r].attempts = outbox[r].attempts + 1
            /\ \A p \in RowId \ {r} : outbox'[p] = outbox[p]
        BY <1>5, <2>2, <1>t DEF Claim, TypeOK, OutboxTypeOK, Row
      <3>3. outbox[r].attempts < Budget
        BY <1>a, <1>c, <2>2
      <3>4. outbox'[r].attempts <= Budget /\ ~Claimable(r)'
        BY <1>b, <1>t, <1>c, <3>1, <3>2, <3>3, Places
      <3>5. \A p \in RowId \ {r} : Claimable(p)' => Claimable(p)
        BY <1>c, <2>1, <3>2
      <3>6. \A e \in Dispatcher : At(e, "reread")'
        BY <3>1 DEF At
      <3>. QED
        BY <1>b, <3>2, <3>4, <3>5, <3>6, BudgetKept
    <2>3. CASE outbox[r].status # "pending"
      <3>1. UNCHANGED outbox /\ ~Delivering(d)'
        BY <1>5, <2>3, Places DEF Claim, At, TypeOK, DispatcherTypeOK, Worker
      <3>. QED
        BY <1>h, <2>1, <3>1
    <2>. QED
      BY <2>2, <2>3
  <1>6. CASE Reread(d)
    <2>1. /\ worker[d].at = "reread" /\ worker'[d].at = "record" /\ worker'[d].row = q
          /\ worker'[d].attempts = outbox[q].attempts /\ UNCHANGED outbox
      BY <1>6, <1>q DEF Reread, At, TypeOK, DispatcherTypeOK, Worker, outboxVars
    <2>. QED
      BY <1>g, <1>a, <1>t, <1>b, <2>1, Places
  <1>7. CASE CheckRecord(d)
    BY <1>7, <1>q, <1>m, <1>n, Places DEF CheckRecord, At
  <1>8. CASE CheckSuppression(d)
    BY <1>8, <1>q, <1>m, <1>n, Places DEF CheckSuppression, At
  <1>9. CASE CheckQuota(d)
    <2>. DEFINE full   == outbox[q].slot \notin Credentialed \/ Cardinality(SentToday) >= DailyCap
                refund == IF worker[d].attempts = 0 THEN 0 ELSE worker[d].attempts - 1
    <2>1. CASE full
      <3>1. /\ outbox'[q].attempts = refund /\ \A r \in RowId \ {q} : outbox'[r] = outbox[r]
            /\ NextInBatch(d) /\ worker[d].at = "quota"
        BY <1>9, <2>1, <1>q, <1>t DEF CheckQuota, At, TypeOK, OutboxTypeOK, Row
      <3>2. Delivering(d) /\ ~Delivering(d)' /\ worker[d].attempts <= Budget
        BY <3>1, <1>r, Moves, Places DEF At
      <3>3. refund < Budget
        BY <3>2, <1>t, <1>b
      <3>. QED
        BY <1>l, <3>1, <3>2, <3>3
    <2>2. CASE ~full
      <3>1. Goto(d, "smtp") /\ UNCHANGED outbox /\ worker[d].at = "quota"
        BY <1>9, <2>2, <1>q DEF CheckQuota, At
      <3>. QED
        BY <3>1, <1>m
    <2>. QED
      BY <2>1, <2>2
  <1>10. CASE SmtpAccepts(d)
    BY <1>10, <1>m DEF SmtpAccepts, At
  <1>11. CASE SmtpRejects(d)
    BY <1>11, <1>e DEF SmtpRejects, At
  <1>12. CASE MarkSentFails(d)
    BY <1>12, <1>e DEF MarkSentFails, At
  <1>13. CASE MarkSent(d)
    <2>1. Write(q, "sent", "running", "none") /\ Goto(d, "log") /\ worker[d].at = "mark"
      BY <1>13, <1>q DEF MarkSent, At
    <2>2. Delivering(d) /\ ~Delivering(d)'
      BY <2>1, Moves, Places
    <2>. QED
      BY <1>w, <1>l, <1>a, <2>1, <2>2
  <1>14. CASE Crash(d)
    <2>1. UNCHANGED outbox /\ Budget < Budget'
      BY <1>14, <1>b DEF Crash
    <2>2. \A e \in Dispatcher : ~Delivering(e)'
      BY <1>14 DEF Crash, IdleWorker, Delivering, TypeOK, DispatcherTypeOK
    <2>. QED
      BY <1>b, <2>1, <2>2, BudgetKept
  <1>. QED
    BY <1>1, <1>2, <1>3, <1>4, <1>5, <1>6, <1>7, <1>8, <1>9, <1>10, <1>11, <1>12, <1>13, <1>14
    DEF DispatcherStep, DispatcherProgress

(* Staff and triggers queue rows that were not tried, or that may be tried *)
(* anyway.                                                                 *)
LEMMA ServiceBudget ==
  ASSUME TypeOK, TypeOK', FaultsSpent, FaultsSpent', AttemptsWithin, [Next]_vars,
         ServiceStep, UNCHANGED dispatcherVars
  PROVE  AttemptsWithin'
  <1>t. /\ \A r \in RowId : outbox[r] \in Row /\ outbox[r].attempts \in Nat
        /\ \A d \in Dispatcher : worker[d].row \in RowId /\ worker[d].attempts \in Nat
        /\ \A c \in Clerk : request[c].row \in RowId
    BY DEF TypeOK, OutboxTypeOK, Row, DispatcherTypeOK, Worker, ServiceTypeOK, Request
  <1>b. /\ Budget \in Nat /\ Budget' \in Nat /\ Budget <= Budget' /\ 0 < Budget
    BY BudgetGrows
  <1>v. UNCHANGED worker
    BY DEF dispatcherVars
  <1>k. ASSUME \A r \in RowId :
                 \/ outbox'[r].attempts = 0
                 \/ /\ outbox'[r].attempts = outbox[r].attempts
                    /\ \/ outbox'[r].status = outbox[r].status
                       \/ outbox'[r].status = "cancelled"
                       \/ outbox[r].status = "draft" /\ outbox'[r].status = "pending"
        PROVE  AttemptsWithin'
    <2>1. \A r \in RowId : InHand(r)' <=> InHand(r)
      BY <1>v DEF InHand, Delivering
    <2>2. \A r \in RowId : \/ outbox'[r].attempts = 0
                           \/ outbox'[r].attempts = outbox[r].attempts
                                /\ (Claimable(r)' => Claimable(r))
      BY <1>k, <2>1 DEF Claimable
    <2>3. ASSUME NEW d \in Dispatcher, Delivering(d)', ~At(d, "reread")'
          PROVE  /\ worker'[d].attempts <= Budget
                 /\ outbox'[worker'[d].row].attempts <= worker'[d].attempts
      <3>1. Delivering(d) /\ ~At(d, "reread")
        BY <1>v, <2>3 DEF Delivering, At
      <3>2. worker[d].attempts <= Budget /\ outbox[worker[d].row].attempts <= worker[d].attempts
        BY <3>1 DEF AttemptsWithin, ReadsWithinBudget
      <3>3. worker[d].row \in RowId /\ worker[d].attempts \in Nat
        BY <1>t
      <3>4. \/ outbox'[worker[d].row].attempts = 0
            \/ outbox'[worker[d].row].attempts = outbox[worker[d].row].attempts
        BY <1>k, <3>3
      <3>. QED
        BY <1>v, <3>2, <3>3, <3>4
    <2>. HIDE DEF Claimable
    <2>4. \A r \in RowId :
            \/ /\ outbox'[r].attempts = outbox[r].attempts
               /\ Claimable(r)' => Claimable(r) \/ Budget < Budget'
            \/ outbox'[r].attempts < Budget
            \/ outbox'[r].attempts <= Budget /\ ~Claimable(r)'
      BY <1>b, <2>2
    <2>. QED
      BY <1>b, <2>3, <2>4, BudgetKept
  <1>u. ASSUME UNCHANGED outbox PROVE AttemptsWithin'
    BY <1>u, <1>k
  <1>i. ASSUME NEW q \in RowId, NEW row, outbox' = [outbox EXCEPT ![q] = row], row.attempts = 0
        PROVE  AttemptsWithin'
    <2>1. outbox'[q].attempts = 0 /\ \A r \in RowId \ {q} : outbox'[r] = outbox[r]
      BY <1>i DEF TypeOK, OutboxTypeOK
    <2>. QED
      BY <2>1, <1>k
  <1>1. ASSUME NEW c \in Clerk, QueueDraft(c) PROVE AttemptsWithin'
    <2>1. CASE UNCHANGED outbox
      BY <2>1, <1>u
    <2>2. CASE ~UNCHANGED outbox
      <3>1. PICK q \in RowId :
              /\ outbox[q].status = "draft"
              /\ outbox'[q].status = "pending" /\ outbox'[q].attempts = outbox[q].attempts
              /\ \A r \in RowId \ {q} : outbox'[r] = outbox[r]
        BY <1>1, <2>2, QueuesOneDraft
      <3>. QED
        BY <3>1, <1>k
    <2>. QED
      BY <2>1, <2>2
  <1>2. ASSUME NEW c \in Clerk, InsertPending(c) PROVE AttemptsWithin'
    <2>1. CASE UNCHANGED outbox
      BY <2>1, <1>u
    <2>2. CASE ~UNCHANGED outbox
      <3>1. PICK q \in RowId :
              outbox' = [outbox EXCEPT ![q] = Inserted("pending", request[c].slot,
                IF request[c].again
                THEN [OwnKey(request[c].slot, request[c].content) EXCEPT !.resend = q]
                ELSE OwnKey(request[c].slot, request[c].content),
                request[c].content, "never", "none")]
        BY <1>2, <2>2 DEF InsertPending
      <3>2. \A s, k, content : Inserted("pending", s, k, content, "never", "none").attempts = 0
        BY DEF Inserted
      <3>. QED
        BY <3>1, <3>2, <1>i
    <2>. QED
      BY <2>1, <2>2
  <1>3. ASSUME NEW c \in Clerk, NEW q \in RowId, Cancel(c, q) PROVE AttemptsWithin'
    <2>1. /\ outbox'[q].status = "cancelled" /\ outbox'[q].attempts = outbox[q].attempts
          /\ \A r \in RowId \ {q} : outbox'[r] = outbox[r]
      BY <1>3, <1>t DEF Cancel, TypeOK, OutboxTypeOK, Row
    <2>. QED
      BY <2>1, <1>k
  <1>4. ASSUME NEW c \in Clerk, RetryWrite(c) PROVE AttemptsWithin'
    <2>. PICK q \in RowId : q = request[c].row
      BY <1>t
    <2>. DEFINE new == [outbox[q] EXCEPT !.status = "pending", !.attempts = 0,
                                         !.timer = "elapsed", !.reason = "none"]
    <2>2. outbox' = [outbox EXCEPT ![q] = new]
      BY <1>4 DEF RetryWrite
    <2>3. new.attempts = 0
      BY <1>t DEF Row
    <2>. HIDE DEF new
    <2>1. outbox'[q].attempts = 0 /\ \A r \in RowId \ {q} : outbox'[r] = outbox[r]
      BY <2>2, <2>3 DEF TypeOK, OutboxTypeOK
    <2>. QED
      BY <2>1, <1>k
  <1>5. ASSUME NEW t \in Trigger, ReplaceDrafts(t) PROVE AttemptsWithin'
    <2>1. \A r \in RowId : /\ outbox'[r].attempts = outbox[r].attempts
                           /\ outbox'[r].status \in {outbox[r].status, "cancelled"}
      BY <1>5, <1>t DEF ReplaceDrafts, Row
    <2>. QED
      BY <2>1, <1>k
  <1>6. ASSUME NEW t \in Trigger, TriggerInsert(t) PROVE AttemptsWithin'
    <2>1. \A expires : TriggerRow(t, expires).attempts = 0
      <3>1. trigger[t].clean \in BOOLEAN
        BY <1>6 DEF TypeOK, ServiceTypeOK, TriggerRun
      <3>. QED
        BY <3>1 DEF TriggerRow, Inserted
    <2>. QED
      BY <1>6, <2>1, <1>u, <1>i DEF TriggerInsert
  <1>7. ASSUME NEW c \in Clerk,
               \/ \E s \in Slot, via \in {"send", "compose"} : Preview(c, s, via)
               \/ \E r \in RowId : PreviewDraft(c, r) \/ RetryRead(c, r)
               \/ Compose(c) \/ FindDraft(c) \/ CheckKey(c)
        PROVE  AttemptsWithin'
    BY <1>7, <1>u DEF Preview, PreviewDraft, RetryRead, Compose, FindDraft, CheckKey, outboxVars
  <1>8. ASSUME NEW t \in Trigger,
               \/ \E s \in Slot, c \in Content : EditRecord(t, s, c)
               \/ TriggerCompose(t) \/ TriggerCheckKey(t) \/ TriggerFails(t)
        PROVE  AttemptsWithin'
    BY <1>8, <1>u DEF EditRecord, TriggerCompose, TriggerCheckKey, TriggerFails, outboxVars
  <1>9. ASSUME NEW s \in Slot, AddSuppression(s) \/ RemoveSuppression(s) \/ DeleteRecord(s)
        PROVE  AttemptsWithin'
    BY <1>9, <1>u DEF AddSuppression, RemoveSuppression, DeleteRecord
  <1>10. ASSUME \A r \in RowId : /\ outbox'[r].attempts = outbox[r].attempts
                                 /\ outbox'[r].status = outbox[r].status
         PROVE  AttemptsWithin'
    BY <1>10, <1>k
  <1>. QED
    BY <1>1, <1>2, <1>3, <1>4, <1>5, <1>6, <1>7, <1>8, <1>9 DEF ServiceStep

(* A step that only moves the clock, or nothing.                           *)
LEMMA ClockBudget ==
  ASSUME TypeOK, TypeOK', FaultsSpent, FaultsSpent', AttemptsWithin, [Next]_vars,
         UNCHANGED worker,
         \A r \in RowId : /\ outbox'[r].attempts = outbox[r].attempts
                          /\ outbox'[r].status = outbox[r].status
  PROVE  AttemptsWithin'
  <1>b. /\ Budget \in Nat /\ Budget' \in Nat /\ Budget <= Budget'
    BY BudgetGrows
  <1>1. \A r \in RowId : Claimable(r)' => Claimable(r)
    BY DEF Claimable, InHand, Delivering
  <1>2. \A d \in Dispatcher : Delivering(d)' /\ ~At(d, "reread")' =>
           /\ worker'[d].attempts <= Budget
           /\ outbox'[worker'[d].row].attempts <= worker'[d].attempts
    <2>1. \A d \in Dispatcher : worker[d].row \in RowId
      BY DEF TypeOK, DispatcherTypeOK, Worker
    <2>. QED
      BY <2>1 DEF Delivering, At, AttemptsWithin, ReadsWithinBudget
  <1>. HIDE DEF Claimable
  <1>. QED
    BY <1>b, <1>1, <1>2, BudgetKept

LEMMA NextBudget ==
  ASSUME \A d, e \in Dispatcher : d = e
  PROVE  TypeOK /\ TypeOK' /\ FaultsSpent /\ FaultsSpent' /\ AttemptsWithin /\ [Next]_vars
           => AttemptsWithin'
  <1>. SUFFICES ASSUME TypeOK, TypeOK', FaultsSpent, FaultsSpent', AttemptsWithin, [Next]_vars
                PROVE  AttemptsWithin'
    OBVIOUS
  <1>1. CASE UNCHANGED vars
    <2>1. UNCHANGED <<worker, outbox>>
      BY <1>1 DEF vars, outboxVars, dispatcherVars
    <2>. QED
      BY <2>1, ClockBudget
  <1>2. ASSUME NEW q \in RowId, TimerElapses(q) \/ ExpiryPasses(q) PROVE AttemptsWithin'
    <2>1. UNCHANGED worker
      BY <1>2 DEF TimerElapses, ExpiryPasses, dispatcherVars
    <2>2. \A r \in RowId : /\ outbox'[r].attempts = outbox[r].attempts
                           /\ outbox'[r].status = outbox[r].status
      BY <1>2 DEF TimerElapses, ExpiryPasses, TypeOK, OutboxTypeOK, Row
    <2>. QED
      BY <2>1, <2>2, ClockBudget
  <1>. QED
    BY <1>1, <1>2, DispatcherBudget, ServiceBudget DEF Next

(* One container does not try a row more than MAX_ATTEMPTS times, but for  *)
(* the deliveries that a crash or a stall cut off: the claim counts them,  *)
(* the deferral gives back what it took, and nothing else resets a count   *)
(* but staff's retry.                                                      *)
THEOREM AttemptsAreBounded ==
  (\A d, e \in Dispatcher : d = e) => (Spec => []AttemptsBounded)
  <1>. SUFFICES ASSUME \A d, e \in Dispatcher : d = e PROVE Spec => []AttemptsBounded
    OBVIOUS
  <1>1. Init => FaultsSpent /\ AttemptsWithin
    <2>. SUFFICES ASSUME Init PROVE FaultsSpent /\ AttemptsWithin
      OBVIOUS
    <2>1. FaultsSpent
      BY FaultAssumption DEF Init, OutboxInit, FaultsSpent
    <2>2. Budget = MaxAttempts
      BY FaultAssumption, AttemptsAssumption DEF Init, OutboxInit, Budget
    <2>3. \A r \in RowId : outbox[r].attempts = 0
      BY DEF Init, OutboxInit, BlankRow
    <2>4. RowsWithinBudget
      BY <2>2, <2>3, AttemptsAssumption DEF RowsWithinBudget
    <2>5. ReadsWithinBudget
      BY DEF Init, DispatcherInit, IdleWorker, ReadsWithinBudget, Delivering
    <2>. QED
      BY <2>1, <2>4, <2>5 DEF AttemptsWithin
  <1>2. TypeOK /\ TypeOK' /\ FaultsSpent /\ [Next]_vars => FaultsSpent'
    BY StillSpent
  <1>3. Spec => []AttemptsWithin
    BY <1>1, <1>2, InitType, NextType, NextBudget, PTL DEF Spec
  <1>4. AttemptsWithin => AttemptsBounded
    BY DEF AttemptsWithin, RowsWithinBudget, Budget, AttemptsBounded
  <1>. QED
    BY <1>3, <1>4, PTL

-----------------------------------------------------------------------------
(* What is suggested.  With one trigger run at a time, the key of a        *)
(* record's present data is taken once the record has a mail and no run is *)
(* about it; and a row that was replaced says what the record was changed  *)
(* from.                                                                   *)

(* Every mail has its own slot in its key; a row that a newer one replaced *)
(* says what the record was changed from; a draft says what the record     *)
(* says or once said, under the event's own key.                           *)
RowsTell ==
  \A r \in RowId : Exists(r) =>
    /\ outbox[r].key.slot = outbox[r].slot
    /\ outbox[r].reason = "newer" => outbox[r].key.content \in past[outbox[r].slot]
    /\ outbox[r].status = "draft" =>
         /\ outbox[r].key.resend = 0
         /\ outbox[r].key.content \in past[outbox[r].slot] \union {record[outbox[r].slot]}

(* A run has composed the present data, and makes the first draft of it.   *)
RunsAreCurrent ==
  \A t \in Trigger :
    /\ trigger[t].at \in {"composed", "new", "replaced"} =>
         trigger[t].content = record[trigger[t].slot]
    /\ trigger[t].at = "new" =>
         \A r \in Drafts(trigger[t].slot) : outbox[r].key.content # trigger[t].content

(* The present data of s ought to have its mail: no run is still about it. *)
Settled(s) ==
  /\ s \notin gone
  /\ record[s] \notin Unaddressed
  /\ \A t \in Trigger : trigger[t].at # "idle" => trigger[t].slot # s

CurrentTaken(s) == KeyTaken(OwnKey(s, record[s]))

(* A request that is about to insert has the present data, or they have    *)
(* their mail by now.                                                      *)
RequestsAreCurrent ==
  \A c \in Clerk :
    /\ request[c].at \in {"composed", "insert"} /\ Settled(request[c].slot) =>
         request[c].content = record[request[c].slot] \/ CurrentTaken(request[c].slot)
    /\ request[c].at = "insert" /\ request[c].again =>
         KeyTaken(OwnKey(request[c].slot, request[c].content))

MailIsCurrent == \A s \in Slot : HasMail(s) /\ Settled(s) => CurrentTaken(s)

CurrentInv ==
  /\ RowsTell
  /\ RunsAreCurrent
  /\ NoneCutShort => RequestsAreCurrent /\ MailIsCurrent

(* What a step that inserts and replaces nothing does to a row.            *)
RowKept(r) ==
  /\ outbox'[r].status = "none" <=> outbox[r].status = "none"
  /\ outbox'[r].slot = outbox[r].slot
  /\ outbox'[r].key = outbox[r].key
  /\ outbox'[r].reason = "newer" => outbox[r].reason = "newer"
  /\ outbox'[r].status = "draft" => outbox[r].status = "draft"

(* A record keeps what it said, or what it was changed from.               *)
RecordsGoOn ==
  \A s \in Slot : /\ past[s] \subseteq past'[s]
                  /\ record[s] \in past'[s] \union {record'[s]}

LEMMA SameRecords ==
  ASSUME TypeOK, UNCHANGED <<record, past>>
  PROVE  RecordsGoOn
  BY DEF RecordsGoOn, TypeOK, ServiceTypeOK

LEMMA RowsStillTell ==
  ASSUME TypeOK, RowsTell, RecordsGoOn, \A r \in RowId : RowKept(r)
  PROVE  RowsTell'
  <1>. SUFFICES ASSUME NEW r \in RowId, outbox'[r].status # "none"
                PROVE  /\ outbox'[r].key.slot = outbox'[r].slot
                       /\ outbox'[r].reason = "newer" =>
                            outbox'[r].key.content \in past'[outbox'[r].slot]
                       /\ outbox'[r].status = "draft" =>
                            /\ outbox'[r].key.resend = 0
                            /\ outbox'[r].key.content
                                 \in past'[outbox'[r].slot] \union {record'[outbox'[r].slot]}
    BY DEF RowsTell, Exists
  <1>1. outbox[r].slot \in Slot
    BY DEF TypeOK, OutboxTypeOK, Row
  <1>. QED
    BY <1>1 DEF RowsTell, RowKept, RecordsGoOn, Exists

LEMMA KeysStayTaken ==
  ASSUME \A r \in RowId : Exists(r) => Exists(r)' /\ outbox'[r].key = outbox[r].key
  PROVE  \A k : KeyTaken(k) => KeyTaken(k)'
  BY DEF KeyTaken

(* The rows, for a step that inserts nothing.                              *)
LEMMA RowsKept ==
  ASSUME TypeOK, \A r \in RowId : RowKept(r)
  PROVE  /\ \A k : KeyTaken(k) => KeyTaken(k)'
         /\ \A s \in Slot : HasMail(s)' => HasMail(s)
         /\ \A s \in Slot : \A r \in Drafts(s)' : r \in Drafts(s) /\ outbox'[r].key = outbox[r].key
  <1>1. \A r \in RowId : Exists(r) => Exists(r)' /\ outbox'[r].key = outbox[r].key
    BY DEF RowKept, Exists
  <1>2. \A s \in Slot : HasMail(s)' => HasMail(s)
    BY DEF RowKept, Exists, HasMail
  <1>3. \A s \in Slot : \A r \in Drafts(s)' : r \in Drafts(s) /\ outbox'[r].key = outbox[r].key
    BY DEF RowKept, Drafts, RowsWith
  <1>. QED
    BY <1>1, <1>2, <1>3, KeysStayTaken

(* A step after which what is settled was so before and says the same, or  *)
(* has its mail.                                                           *)
SettledStays ==
  \A s \in Slot : Settled(s)' => \/ Settled(s) /\ record'[s] = record[s]
                                 \/ CurrentTaken(s)'

LEMMA StillTaken ==
  ASSUME \A k : KeyTaken(k) => KeyTaken(k)', NEW s \in Slot, record'[s] = record[s],
         CurrentTaken(s)
  PROVE  CurrentTaken(s)'
  <1>. PICK content : content = record[s]
    OBVIOUS
  <1>1. KeyTaken(OwnKey(s, content))'
    BY DEF CurrentTaken
  <1>. QED
    BY <1>1 DEF CurrentTaken

(* A request that is about to insert was so before.                        *)
LEMMA RequestsStayCurrent ==
  ASSUME TypeOK, RequestsAreCurrent, SettledStays, \A k : KeyTaken(k) => KeyTaken(k)',
         \A c \in Clerk : request'[c].at \in {"composed", "insert"} => request'[c] = request[c]
  PROVE  RequestsAreCurrent'
  <1>1. ASSUME NEW c \in Clerk, request'[c].at \in {"composed", "insert"},
               Settled(request[c].slot)'
        PROVE  \/ request'[c].content = record'[request'[c].slot]
               \/ CurrentTaken(request[c].slot)'
    <2>. PICK s \in Slot : s = request[c].slot
      BY DEF TypeOK, ServiceTypeOK, Request
    <2>0. request'[c] = request[c]
      BY <1>1
    <2>1. Settled(s)'
      BY <1>1, <2>0
    <2>2. CASE CurrentTaken(s)'
      BY <2>2, <2>0
    <2>3. CASE Settled(s) /\ record'[s] = record[s]
      <3>1. request[c].content = record[s] \/ CurrentTaken(s)
        BY <1>1, <2>0, <2>3 DEF RequestsAreCurrent
      <3>. QED
        BY <2>0, <2>2, <2>3, <3>1, StillTaken
    <2>. QED
      BY <2>1, <2>2, <2>3 DEF SettledStays
  <1>2. ASSUME NEW c \in Clerk, request'[c].at = "insert", request'[c].again
        PROVE  KeyTaken(OwnKey(request[c].slot, request[c].content))'
    <2>0. request'[c] = request[c]
      BY <1>2
    <2>. PICK k : k = OwnKey(request[c].slot, request[c].content)
      OBVIOUS
    <2>1. KeyTaken(k)'
      BY <1>2, <2>0 DEF RequestsAreCurrent
    <2>2. k = OwnKey(request[c].slot, request[c].content)'
      BY <2>0 DEF OwnKey
    <2>. QED
      BY <2>1, <2>2
  <1>. QED
    BY <1>1, <1>2 DEF RequestsAreCurrent

LEMMA MailStaysCurrent ==
  ASSUME TypeOK, MailIsCurrent, SettledStays, \A k : KeyTaken(k) => KeyTaken(k)',
         \A s \in Slot : HasMail(s)' => HasMail(s) \/ CurrentTaken(s)'
  PROVE  MailIsCurrent'
  <1>. SUFFICES ASSUME NEW s \in Slot, HasMail(s)', Settled(s)', ~CurrentTaken(s)'
                PROVE  FALSE
    BY DEF MailIsCurrent
  <1>1. HasMail(s) /\ Settled(s) /\ record'[s] = record[s]
    BY DEF SettledStays
  <1>2. CurrentTaken(s)
    BY <1>1 DEF MailIsCurrent
  <1>. QED
    BY <1>1, <1>2, StillTaken

(* A step that inserts nothing, replaces nothing, and changes no record    *)
(* and no run.                                                             *)
LEMMA QuietStep ==
  ASSUME TypeOK, CurrentInv, \A r \in RowId : RowKept(r),
         UNCHANGED <<record, past, trigger>>, gone \subseteq gone',
         NoneCutShort' => NoneCutShort,
         \A c \in Clerk : request'[c].at \in {"composed", "insert"} => request'[c] = request[c]
  PROVE  CurrentInv'
  <1>1. RowsTell'
    BY SameRecords, RowsStillTell DEF CurrentInv
  <1>2. RunsAreCurrent'
    <2>. SUFFICES ASSUME NEW t \in Trigger
                  PROVE  /\ trigger[t].at \in {"composed", "new", "replaced"} =>
                              trigger[t].content = record[trigger[t].slot]
                         /\ trigger[t].at = "new" =>
                              \A r \in Drafts(trigger[t].slot)' :
                                outbox'[r].key.content # trigger[t].content
      BY DEF RunsAreCurrent
    <2>. PICK s \in Slot : s = trigger[t].slot
      BY DEF TypeOK, ServiceTypeOK, TriggerRun
    <2>1. Drafts(s)' = Drafts(trigger[t].slot)'
      BY DEF Drafts, RowsWith
    <2>2. \A r \in Drafts(s)' : r \in Drafts(s) /\ outbox'[r].key = outbox[r].key
      BY RowsKept
    <2>. QED
      BY <2>1, <2>2 DEF CurrentInv, RunsAreCurrent
  <1>3. SettledStays
    BY DEF SettledStays, Settled
  <1>4. NoneCutShort' => RequestsAreCurrent' /\ MailIsCurrent'
    BY <1>3, RowsKept, RequestsStayCurrent, MailStaysCurrent DEF CurrentInv
  <1>. QED
    BY <1>1, <1>2, <1>4 DEF CurrentInv

(* The rows, for the UPDATE of one to something that is neither a draft    *)
(* nor replaced.                                                           *)
LEMMA RowUpdated ==
  ASSUME TypeOK, NEW q \in RowId, Exists(q), NEW new, outbox' = [outbox EXCEPT ![q] = new],
         new.status \notin {"none", "draft"}, new.slot = outbox[q].slot, new.key = outbox[q].key,
         new.reason = "newer" => outbox[q].reason = "newer"
  PROVE  \A r \in RowId : RowKept(r)
  <1>1. outbox'[q] = new /\ \A r \in RowId \ {q} : outbox'[r] = outbox[r]
    BY DEF TypeOK, OutboxTypeOK
  <1>. QED
    BY <1>1 DEF RowKept, Exists

LEMMA WriteKeeps ==
  ASSUME TypeOK, NEW q \in RowId, Exists(q), NEW status, status \notin {"none", "draft"},
         NEW timer, NEW reason, reason # "newer", Write(q, status, timer, reason)
  PROVE  \A r \in RowId : RowKept(r)
  <1>. DEFINE new == [outbox[q] EXCEPT !.status = status, !.timer = timer, !.reason = reason]
  <1>1. outbox' = [outbox EXCEPT ![q] = new]
    BY DEF Write
  <1>2. /\ new.status = status /\ new.reason = reason
        /\ new.slot = outbox[q].slot /\ new.key = outbox[q].key
    BY RowTyped DEF Row
  <1>. HIDE DEF new
  <1>. QED
    BY <1>1, <1>2, RowUpdated

LEMMA RequeueKeeps ==
  ASSUME TypeOK, NEW q \in RowId, Exists(q), NEW attempts, NEW timer,
         outbox' = [outbox EXCEPT ![q].status = "pending", ![q].attempts = attempts,
                                  ![q].timer = timer, ![q].reason = "none"]
  PROVE  \A r \in RowId : RowKept(r)
  <1>. DEFINE new == [outbox[q] EXCEPT !.status = "pending", !.attempts = attempts,
                                       !.timer = timer, !.reason = "none"]
  <1>1. outbox' = [outbox EXCEPT ![q] = new]
    OBVIOUS
  <1>2. /\ new.status = "pending" /\ new.reason = "none"
        /\ new.slot = outbox[q].slot /\ new.key = outbox[q].key
    BY RowTyped DEF Row
  <1>. HIDE DEF new
  <1>. QED
    BY <1>1, <1>2, RowUpdated

LEMMA DispatcherKeeps ==
  ASSUME TypeOK, RowInv, NEW d \in Dispatcher, DispatcherStep(d)
  PROVE  \A r \in RowId : RowKept(r)
  <1>t. worker[d].row \in RowId /\ \A r \in RowId : outbox[r] \in Row
    BY DEF TypeOK, OutboxTypeOK, DispatcherTypeOK, Worker
  <1>u. UNCHANGED outbox => \A r \in RowId : RowKept(r)
    BY DEF RowKept
  <1>e. At(d, "record") \/ At(d, "suppression") \/ At(d, "quota") \/ At(d, "smtp") \/ At(d, "mark")
          => Exists(worker[d].row)
    BY DEF RowInv, HeldExists, Delivering, At
  <1>a. ASSUME NEW permanent, AfterError(d, permanent), Exists(worker[d].row)
        PROVE  \A r \in RowId : RowKept(r)
    BY <1>a, <1>t, WriteKeeps DEF AfterError
  <1>1. CASE ExpireDrafts(d)
    BY <1>1, <1>t DEF ExpireDrafts, RowKept, Row
  <1>2. CASE RecoverStuck(d)
    BY <1>2, <1>t DEF RecoverStuck, RowKept, Row, RowsWith
  <1>3. CASE PurgeOldBodies(d)
    <2>1. ASSUME NEW old \in SUBSET RowId,
                 outbox' = [r \in RowId |-> IF r \in old
                            THEN [outbox[r] EXCEPT !.body = FALSE,
                                    !.timer = IF outbox[r].status = "sending"
                                              THEN "running" ELSE @]
                            ELSE outbox[r]]
          PROVE  \A r \in RowId : RowKept(r)
      BY <2>1, <1>t DEF RowKept, Row
    <2>. QED
      BY <1>3, <1>u, <2>1 DEF PurgeOldBodies
  <1>4. ASSUME NEW q \in RowId, Claim(d, q) PROVE \A r \in RowId : RowKept(r)
    <2>1. CASE UNCHANGED outbox
      BY <2>1, <1>u
    <2>2. CASE ~UNCHANGED outbox
      <3>. DEFINE new == [outbox[q] EXCEPT !.status = "sending", !.attempts = @ + 1,
                                           !.timer = "running"]
      <3>1. outbox' = [outbox EXCEPT ![q] = new] /\ outbox[q].status = "pending"
        BY <1>4, <2>2 DEF Claim
      <3>2. /\ new.status = "sending" /\ new.reason = outbox[q].reason
            /\ new.slot = outbox[q].slot /\ new.key = outbox[q].key
        BY <1>t DEF Row
      <3>. HIDE DEF new
      <3>. QED
        BY <3>1, <3>2, RowUpdated DEF Exists
    <2>. QED
      BY <2>1, <2>2
  <1>5. CASE CheckRecord(d)
    BY <1>5, <1>t, <1>u, <1>e, WriteKeeps DEF CheckRecord
  <1>6. CASE CheckSuppression(d)
    BY <1>6, <1>t, <1>u, <1>e, WriteKeeps DEF CheckSuppression
  <1>7. CASE CheckQuota(d)
    BY <1>7, <1>t, <1>u, <1>e, RequeueKeeps DEF CheckQuota
  <1>8. CASE SmtpRejects(d)
    BY <1>8, <1>a, <1>e DEF SmtpRejects
  <1>9. CASE MarkSentFails(d)
    BY <1>9, <1>a, <1>e DEF MarkSentFails
  <1>10. CASE MarkSent(d)
    BY <1>10, <1>t, <1>e, WriteKeeps DEF MarkSent
  <1>11. CASE SelectDue(d) \/ EndBatch(d) \/ Reread(d) \/ SmtpAccepts(d) \/ LogContact(d) \/ Crash(d)
    BY <1>11, <1>u
    DEF SelectDue, EndBatch, Reread, SmtpAccepts, LogContact, Crash, outboxVars
  <1>. QED
    BY <1>1, <1>2, <1>3, <1>4, <1>5, <1>6, <1>7, <1>8, <1>9, <1>10, <1>11
    DEF DispatcherStep, DispatcherProgress

(* A step of a request that reads.                                         *)
LEMMA OnlyRequests ==
  ASSUME CurrentInv, UNCHANGED <<outbox, record, gone, faults, trigger, past>>,
         RequestsAreCurrent => RequestsAreCurrent'
  PROVE  CurrentInv'
  <1>1. RowsTell'
    BY DEF CurrentInv, RowsTell, Exists
  <1>2. RunsAreCurrent'
    BY DEF CurrentInv, RunsAreCurrent, Drafts, RowsWith
  <1>3. MailIsCurrent => MailIsCurrent'
    BY DEF MailIsCurrent, HasMail, Settled, CurrentTaken, KeyTaken, OwnKey, Exists
  <1>4. NoneCutShort' => NoneCutShort
    BY DEF NoneCutShort
  <1>. QED
    BY <1>1, <1>2, <1>3, <1>4 DEF CurrentInv

(* A new row, of whose slot the present data are taken then.               *)
LEMMA InsertStep ==
  ASSUME TypeOK, CurrentInv, NEW q \in RowId, IsNextId(q), NEW row,
         outbox' = [outbox EXCEPT ![q] = row],
         NEW slot \in Slot, row.slot = slot, row.key.slot = slot, row.status # "none", row.reason # "newer",
         row.status = "draft" => row.key.resend = 0 /\ row.key.content = record[slot],
         UNCHANGED <<record, past, gone>>, NoneCutShort' => NoneCutShort,
         \/ row.status # "draft" /\ UNCHANGED trigger
         \/ \A t \in Trigger : trigger'[t].at = "idle",
         NoneCutShort /\ Settled(slot)' => CurrentTaken(slot)',
         \A s \in Slot \ {slot} : Settled(s)' => Settled(s),
         \A c \in Clerk : request'[c].at \in {"composed", "insert"} => request'[c] = request[c]
  PROVE  CurrentInv'
  <1>1. /\ outbox'[q] = row /\ \A r \in RowId \ {q} : outbox'[r] = outbox[r]
        /\ outbox[q].status = "none"
    BY DEF TypeOK, OutboxTypeOK, IsNextId, Exists
  <1>2. RowsTell'
    BY <1>1 DEF CurrentInv, RowsTell, Exists
  <1>3. RunsAreCurrent'
    <2>1. CASE row.status # "draft" /\ UNCHANGED trigger
      <3>1. \A s : \A r \in Drafts(s)' : r \in Drafts(s) /\ outbox'[r] = outbox[r]
        BY <1>1, <2>1 DEF Drafts, RowsWith
      <3>. SUFFICES ASSUME NEW t \in Trigger
                    PROVE  /\ trigger[t].at \in {"composed", "new", "replaced"} =>
                                trigger[t].content = record[trigger[t].slot]
                           /\ trigger[t].at = "new" =>
                                \A r \in Drafts(trigger[t].slot)' :
                                  outbox'[r].key.content # trigger[t].content
        BY <2>1 DEF RunsAreCurrent
      <3>. PICK s : s = trigger[t].slot
        OBVIOUS
      <3>2. Drafts(s)' = Drafts(trigger[t].slot)'
        BY <2>1 DEF Drafts, RowsWith
      <3>. QED
        BY <3>1, <3>2 DEF CurrentInv, RunsAreCurrent
    <2>2. CASE \A t \in Trigger : trigger'[t].at = "idle"
      BY <2>2 DEF RunsAreCurrent
    <2>. QED
      BY <2>1, <2>2
  <1>4. \A k : KeyTaken(k) => KeyTaken(k)'
    <2>1. \A r \in RowId : Exists(r) => Exists(r)' /\ outbox'[r].key = outbox[r].key
      BY <1>1 DEF Exists
    <2>. QED
      BY <2>1, KeysStayTaken
  <1>5. ASSUME NoneCutShort' PROVE RequestsAreCurrent' /\ MailIsCurrent'
    <2>1. RequestsAreCurrent /\ MailIsCurrent /\ NoneCutShort
      BY <1>5 DEF CurrentInv
    <2>2. SettledStays
      BY <2>1 DEF SettledStays
    <2>3. RequestsAreCurrent'
      BY <2>1, <2>2, <1>4, RequestsStayCurrent
    <2>4. \A s \in Slot \ {slot} : HasMail(s)' => HasMail(s)
      BY <1>1 DEF HasMail, Exists
    <2>5. MailIsCurrent'
      <3>. SUFFICES ASSUME NEW s \in Slot, HasMail(s)', Settled(s)', ~CurrentTaken(s)'
                    PROVE  FALSE
        BY DEF MailIsCurrent
      <3>1. s # slot
        BY <2>1
      <3>2. HasMail(s) /\ Settled(s)
        BY <2>4, <3>1
      <3>3. CurrentTaken(s)
        BY <2>1, <3>2 DEF MailIsCurrent
      <3>. QED
        BY <1>4, <3>3, StillTaken
    <2>. QED
      BY <2>3, <2>5
  <1>. QED
    BY <1>2, <1>3, <1>5 DEF CurrentInv

LEMMA ClerkCurrent ==
  ASSUME TypeOK, RowInv, CurrentInv, NoneCutShort' => NoneCutShort, NEW c \in Clerk,
         \/ \E s \in Slot, via \in {"send", "compose"} : Preview(c, s, via)
         \/ \E r \in RowId : PreviewDraft(c, r) \/ Cancel(c, r) \/ RetryRead(c, r)
         \/ Compose(c) \/ FindDraft(c) \/ QueueDraft(c) \/ CheckKey(c)
         \/ InsertPending(c) \/ RetryWrite(c)
  PROVE  CurrentInv'
  <1>t. /\ request \in [Clerk -> Request]
        /\ \A r \in RowId : outbox[r] \in Row
        /\ request[c].row \in RowId /\ request[c].slot \in Slot /\ request[c].content \in Content
    BY DEF TypeOK, OutboxTypeOK, ServiceTypeOK, Request
  <1>a. ASSUME NEW state, request' = [request EXCEPT ![c] = state],
               state.at \notin {"composed", "insert"}
        PROVE  \A b \in Clerk : request'[b].at \in {"composed", "insert"} => request'[b] = request[b]
    BY <1>a, <1>t
  <1>b. ASSUME Answer(c)
        PROVE  \A b \in Clerk : request'[b].at \in {"composed", "insert"} => request'[b] = request[b]
    <2>1. IdleRequest.at \notin {"composed", "insert"}
      BY DEF IdleRequest
    <2>. QED
      BY <1>b, <1>a, <2>1 DEF Answer
  <1>k. UNCHANGED outbox => \A r \in RowId : RowKept(r)
    BY DEF RowKept
  <1>1. ASSUME UNCHANGED <<outboxVars, trigger, past>>, NEW place, place \notin {"composed", "insert"},
               \A b \in Clerk \ {c} : request'[b] = request[b], request'[c].at = place
        PROVE  CurrentInv'
    <2>1. \A b \in Clerk : request'[b].at \in {"composed", "insert"} => request'[b] = request[b]
      BY <1>1
    <2>. QED
      BY <1>1, <1>k, <2>1, QuietStep DEF outboxVars
  <1>2. ASSUME NEW s \in Slot, NEW via \in {"send", "compose"}, Preview(c, s, via)
        PROVE  CurrentInv'
    <2>1. request'[c].at = "previewed" /\ \A b \in Clerk \ {c} : request'[b] = request[b]
      BY <1>2, <1>t DEF Preview, Request
    <2>. QED
      BY <1>1, <1>2, <2>1 DEF Preview
  <1>3. ASSUME NEW r \in RowId, PreviewDraft(c, r) PROVE CurrentInv'
    <2>1. request'[c].at = "previewed" /\ \A b \in Clerk \ {c} : request'[b] = request[b]
      BY <1>3, <1>t DEF PreviewDraft, Request
    <2>. QED
      BY <1>1, <1>3, <2>1 DEF PreviewDraft
  <1>4. ASSUME NEW r \in RowId, RetryRead(c, r) PROVE CurrentInv'
    <2>1. request'[c].at = "retry" /\ \A b \in Clerk \ {c} : request'[b] = request[b]
      BY <1>4, <1>t DEF RetryRead, Request
    <2>. QED
      BY <1>1, <1>4, <2>1 DEF RetryRead
  <1>5. CASE FindDraft(c)
    <2>1. request'[c].at = "queue" /\ \A b \in Clerk \ {c} : request'[b] = request[b]
      BY <1>5, <1>t DEF FindDraft, Request
    <2>. QED
      BY <1>1, <1>5, <2>1 DEF FindDraft
  <1>6. CASE Compose(c)
    <2>1. CASE Answer(c)
      <3>1. UNCHANGED <<outboxVars, trigger, past>>
        BY <1>6 DEF Compose
      <3>. QED
        BY <2>1, <3>1, <1>b, <1>k, QuietStep DEF outboxVars
    <2>2. CASE ~Answer(c)
      <3>. PICK place \in {"queue", "composed"} : request' = [request EXCEPT ![c].at = place]
        BY <1>6, <2>2 DEF Compose
      <3>1. request[c].content = record[request[c].slot]
        BY <1>6, <2>2 DEF Compose
      <3>2. /\ request'[c].at = place
            /\ request'[c].slot = request[c].slot /\ request'[c].content = request[c].content
            /\ \A b \in Clerk \ {c} : request'[b] = request[b]
        BY <1>t DEF Request
      <3>3. UNCHANGED <<outbox, record, gone, faults, trigger, past>>
        BY <1>6 DEF Compose, outboxVars
      <3>4. RequestsAreCurrent => RequestsAreCurrent'
        BY <3>1, <3>2, <3>3
        DEF RequestsAreCurrent, Settled, CurrentTaken, KeyTaken, OwnKey, Exists
      <3>. QED
        BY <3>3, <3>4, OnlyRequests
    <2>. QED
      BY <2>1, <2>2
  <1>7. CASE CheckKey(c)
    <2>. PICK again : again = KeyTaken(OwnKey(request[c].slot, request[c].content))
      OBVIOUS
    <2>1. /\ request[c].at = "composed"
          /\ request' = [request EXCEPT ![c].at = "insert", ![c].again = again]
      BY <1>7 DEF CheckKey
    <2>2. /\ request'[c].at = "insert" /\ request'[c].again = again
          /\ request'[c].slot = request[c].slot /\ request'[c].content = request[c].content
          /\ \A b \in Clerk \ {c} : request'[b] = request[b]
      BY <2>1, <1>t DEF Request
    <2>3. UNCHANGED <<outbox, record, gone, faults, trigger, past>>
      BY <1>7 DEF CheckKey, outboxVars
    <2>4. \A s : (Settled(s)' <=> Settled(s)) /\ (CurrentTaken(s)' <=> CurrentTaken(s))
      BY <2>3 DEF Settled, CurrentTaken, KeyTaken, OwnKey, Exists
    <2>5. \A s, w : KeyTaken(OwnKey(s, w)) => KeyTaken(OwnKey(s, w))'
      BY <2>3 DEF KeyTaken, OwnKey, Exists
    <2>6. ASSUME RequestsAreCurrent, NEW b \in Clerk
          PROVE  /\ request'[b].at \in {"composed", "insert"} /\ Settled(request[b].slot)' =>
                      \/ request'[b].content = record'[request'[b].slot]
                      \/ CurrentTaken(request[b].slot)'
                 /\ request'[b].at = "insert" /\ request'[b].again =>
                      KeyTaken(OwnKey(request[b].slot, request[b].content))'
      <3>. PICK z : z = request[b].slot
        OBVIOUS
      <3>. PICK w : w = request[b].content
        OBVIOUS
      <3>1. request'[b].slot = z /\ request'[b].content = w
        BY <2>2
      <3>2. /\ Settled(request[b].slot)' <=> Settled(z)'
            /\ CurrentTaken(request[b].slot)' <=> CurrentTaken(z)'
            /\ KeyTaken(OwnKey(request[b].slot, request[b].content))' <=> KeyTaken(OwnKey(z, w))'
        BY <3>1 DEF Settled, CurrentTaken, KeyTaken, OwnKey
      <3>3. /\ request[b].at \in {"composed", "insert"} /\ Settled(z) =>
                 w = record[z] \/ CurrentTaken(z)
            /\ request[b].at = "insert" /\ request[b].again => KeyTaken(OwnKey(z, w))
        BY <2>6 DEF RequestsAreCurrent
      <3>4. CASE b = c
        <4>1. again => KeyTaken(OwnKey(z, w))
          BY <3>4
        <4>. QED
          BY <2>1, <2>2, <2>3, <2>4, <2>5, <3>1, <3>2, <3>3, <3>4, <4>1
      <3>5. CASE b # c
        BY <2>2, <2>3, <2>4, <2>5, <3>1, <3>2, <3>3, <3>5
      <3>. QED
        BY <3>4, <3>5
    <2>7. RequestsAreCurrent => RequestsAreCurrent'
      BY <2>6 DEF RequestsAreCurrent
    <2>. QED
      BY <2>3, <2>7, OnlyRequests
  <1>8. CASE QueueDraft(c)
    <2>1. \A r \in RowId : RowKept(r)
      <3>1. CASE UNCHANGED outbox
        BY <3>1, <1>k
      <3>2. CASE ~UNCHANGED outbox
        <4>. PICK q \in RowId : q = request[c].row
          BY <1>t
        <4>. DEFINE new == [outbox[q] EXCEPT !.status = "pending", !.content = request[c].content,
                                             !.body = TRUE, !.expires = "never",
                                             !.reason = "none"]
        <4>1. outbox' = [outbox EXCEPT ![q] = new] /\ outbox[q].status = "draft"
          BY <1>8, <3>2 DEF QueueDraft
        <4>2. /\ new.status = "pending" /\ new.reason = "none"
              /\ new.slot = outbox[q].slot /\ new.key = outbox[q].key
          BY <1>t DEF Row
        <4>. HIDE DEF new
        <4>. QED
          BY <4>1, <4>2, RowUpdated DEF Exists
      <3>. QED
        BY <3>1, <3>2
    <2>. QED
      BY <1>8, <1>b, <2>1, QuietStep DEF QueueDraft
  <1>9. ASSUME NEW q \in RowId, Cancel(c, q) PROVE CurrentInv'
    <2>1. Write(q, "cancelled", "elapsed", "user") /\ Exists(q)
      BY <1>9 DEF Cancel, Write, Exists
    <2>2. \A r \in RowId : RowKept(r)
      BY <2>1, WriteKeeps
    <2>. QED
      BY <1>9, <2>2, QuietStep DEF Cancel, serviceVars
  <1>10. CASE RetryWrite(c)
    <2>1. Exists(request[c].row)
      BY <1>10 DEF RetryWrite, RowInv, HeldExists
    <2>2. \A r \in RowId : RowKept(r)
      BY <1>10, <1>t, <2>1, RequeueKeeps DEF RetryWrite
    <2>. QED
      BY <1>10, <1>b, <2>2, QuietStep DEF RetryWrite
  <1>11. CASE InsertPending(c)
    <2>. DEFINE s == request[c].slot
                content == request[c].content
                own == OwnKey(s, content)
    <2>p. PICK k : k = own
      OBVIOUS
    <2>s. PICK z \in Slot : z = s
      BY <1>t
    <2>v. PICK w : w = content
      OBVIOUS
    <2>0. /\ UNCHANGED <<record, gone, suppressed, copies, faults, trigger, edits, past>>
          /\ request[c].at = "insert" /\ Answer(c)
      BY <1>11 DEF InsertPending
    <2>1. CASE UNCHANGED outbox
      BY <2>0, <2>1, <1>b, <1>k, QuietStep
    <2>2. ASSUME NEW q \in RowId, IsNextId(q), request[c].again \/ ~KeyTaken(own),
                 outbox' = [outbox EXCEPT ![q] = Inserted("pending", s,
                   IF request[c].again THEN [own EXCEPT !.resend = q] ELSE own,
                   content, "never", "none")]
          PROVE  CurrentInv'
      <3>. PICK key : key = IF request[c].again THEN [own EXCEPT !.resend = q] ELSE own
        OBVIOUS
      <3>1. key.slot = s /\ (~request[c].again => key = own)
        BY DEF OwnKey
      <3>. PICK row : row = Inserted("pending", s, key, content, "never", "none")
        OBVIOUS
      <3>2. /\ row.status = "pending" /\ row.slot = z /\ row.key = key /\ row.reason = "none"
        BY <2>s DEF Inserted
      <3>3. outbox' = [outbox EXCEPT ![q] = row]
        BY <2>2
      <3>4. outbox'[q] = row /\ \A r \in RowId \ {q} : outbox'[r] = outbox[r]
        BY <3>3 DEF TypeOK, OutboxTypeOK
      <3>5. \A r \in RowId : Exists(r) => Exists(r)' /\ outbox'[r].key = outbox[r].key
        BY <2>2, <3>4 DEF IsNextId, Exists
      <3>6. ASSUME NoneCutShort, Settled(z)' PROVE CurrentTaken(z)'
        <4>1. Settled(z) /\ record'[z] = record[z]
          BY <2>0, <3>6 DEF Settled
        <4>2. CASE CurrentTaken(z)
          BY <4>1, <4>2, <3>5, KeysStayTaken, StillTaken
        <4>3. CASE w = record[z]
          <5>1. KeyTaken(k)'
            <6>1. CASE request[c].again
              <7>1. KeyTaken(k)
                BY <2>0, <2>p, <3>6, <6>1 DEF CurrentInv, RequestsAreCurrent
              <7>. QED
                BY <7>1, <3>5, KeysStayTaken
            <6>2. CASE ~request[c].again
              BY <2>p, <3>1, <3>2, <3>4, <6>2 DEF KeyTaken, Exists
            <6>. QED
              BY <6>1, <6>2
          <5>2. k = OwnKey(z, w)
            BY <2>p, <2>s, <2>v
          <5>. QED
            BY <4>1, <4>3, <5>1, <5>2 DEF CurrentTaken
        <4>. QED
          BY <2>0, <2>s, <2>v, <3>6, <4>1, <4>2, <4>3 DEF CurrentInv, RequestsAreCurrent
      <3>7. \A y \in Slot : Settled(y)' => Settled(y)
        BY <2>0 DEF Settled
      <3>8. key.slot = z
        BY <3>1, <2>s
      <3>9. \A b \in Clerk : request'[b].at \in {"composed", "insert"} => request'[b] = request[b]
        BY <2>0, <1>b
      <3>. QED
        <4>1. NoneCutShort /\ Settled(z)' => CurrentTaken(z)'
          BY <3>6
        <4>2. /\ row.slot = z /\ row.key.slot = z
              /\ row.status # "none" /\ row.status # "draft" /\ row.reason # "newer"
          BY <3>2, <3>8
        <4>3. UNCHANGED <<record, past, gone>> /\ UNCHANGED trigger
          BY <2>0
        <4>. QED
          BY <2>2, <3>3, <3>7, <3>9, <4>1, <4>2, <4>3, InsertStep
    <2>. QED
      BY <1>11, <2>1, <2>2 DEF InsertPending
  <1>. QED
    BY <1>2, <1>3, <1>4, <1>5, <1>6, <1>7, <1>8, <1>9, <1>10, <1>11

(* A step of a trigger run that changes no row.                            *)
LEMMA RunStep ==
  ASSUME TypeOK, CurrentInv, UNCHANGED <<outbox, request>>, RecordsGoOn, SettledStays,
         NoneCutShort' => NoneCutShort, RunsAreCurrent'
  PROVE  CurrentInv'
  <1>1. \A r \in RowId : RowKept(r)
    BY DEF RowKept
  <1>2. RowsTell'
    BY <1>1, RowsStillTell DEF CurrentInv
  <1>3. NoneCutShort' => RequestsAreCurrent' /\ MailIsCurrent'
    BY <1>1, RowsKept, RequestsStayCurrent, MailStaysCurrent DEF CurrentInv
  <1>. QED
    BY <1>2, <1>3 DEF CurrentInv

(* A crash or a database error is never forgotten.                         *)
LEMMA StillUncut ==
  ASSUME TypeOK, TypeOK', FaultsSpent, [Next]_vars
  PROVE  NoneCutShort' => NoneCutShort
  <1>1. \A k \in FaultKind : /\ faults[k] \in Nat /\ faults'[k] \in Nat /\ MaxFaults[k] \in Nat
                             /\ faults'[k] <= faults[k]
    BY FaultsFall, FaultAssumption DEF TypeOK, OutboxTypeOK
  <1>2. \A k \in FaultKind : faults'[k] = MaxFaults[k] => faults[k] = MaxFaults[k]
    BY <1>1 DEF FaultsSpent
  <1>3. \A k \in {"crash", "database"} : k \in FaultKind
    BY FaultAssumption
  <1>. QED
    BY <1>2, <1>3 DEF NoneCutShort

LEMMA SpentIsCutShort ==
  ASSUME TypeOK, FaultsSpent, NEW kind \in {"crash", "database"}, Spend(kind)
  PROVE  ~NoneCutShort'
  <1>1. /\ kind \in FaultKind /\ faults[kind] \in Nat /\ MaxFaults[kind] \in Nat
        /\ faults[kind] <= MaxFaults[kind]
    BY FaultAssumption DEF TypeOK, OutboxTypeOK, FaultsSpent
  <1>2. faults'[kind] = faults[kind] - 1
    BY <1>1 DEF Spend, TypeOK, OutboxTypeOK
  <1>3. faults'[kind] # MaxFaults[kind]
    BY <1>1, <1>2
  <1>. QED
    BY <1>3 DEF NoneCutShort

LEMMA EditCurrent ==
  ASSUME \A t, u \in Trigger : t = u, TypeOK, CurrentInv, NoneCutShort' => NoneCutShort,
         NEW t \in Trigger, NEW s \in Slot, NEW c \in Content, EditRecord(t, s, c)
  PROVE  CurrentInv'
  <1>1. /\ trigger'[t].at = "changed" /\ trigger'[t].slot = s
        /\ record'[s] = c /\ \A y \in Slot \ {s} : record'[y] = record[y]
        /\ \A y \in Slot \ {s} : past'[y] = past[y]
        /\ past'[s] = IF c = record[s] THEN past[s] ELSE past[s] \union {record[s]}
    BY DEF EditRecord, TypeOK, OutboxTypeOK, ServiceTypeOK, TriggerRun
  <1>2. UNCHANGED <<outbox, request, gone>> /\ trigger[t].at = "idle"
    BY DEF EditRecord
  <1>3. RecordsGoOn
    BY <1>1 DEF RecordsGoOn
  <1>4. SettledStays
    <2>. SUFFICES ASSUME NEW y \in Slot, Settled(y)'
                  PROVE  Settled(y) /\ record'[y] = record[y]
      BY DEF SettledStays
    <2>1. y # s
      BY <1>1 DEF Settled
    <2>. QED
      BY <1>1, <1>2, <2>1 DEF Settled
  <1>5. RunsAreCurrent'
    BY <1>1 DEF RunsAreCurrent
  <1>. QED
    BY <1>2, <1>3, <1>4, <1>5, RunStep

LEMMA RunComposes ==
  ASSUME \A t, u \in Trigger : t = u, TypeOK, CurrentInv, NoneCutShort' => NoneCutShort,
         NEW t \in Trigger, TriggerCompose(t)
  PROVE  CurrentInv'
  <1>. PICK s \in Slot : s = trigger[t].slot
    BY DEF TypeOK, ServiceTypeOK, TriggerRun
  <1>1. UNCHANGED <<outbox, request, gone, record, past>>
    BY DEF TriggerCompose, outboxVars
  <1>2. \/ trigger'[t].at = "idle" /\ (s \in gone \/ record[s] \in Unaddressed)
        \/ trigger'[t].at = "composed" /\ trigger'[t].slot = s /\ trigger'[t].content = record[s]
    BY DEF TriggerCompose, Return, IdleTrigger, TypeOK, ServiceTypeOK, TriggerRun
  <1>3. RecordsGoOn
    BY <1>1, SameRecords
  <1>4. SettledStays
    <2>. SUFFICES ASSUME NEW y \in Slot, Settled(y)'
                  PROVE  Settled(y) /\ record'[y] = record[y]
      BY DEF SettledStays
    <2>1. y # s
      BY <1>1, <1>2 DEF Settled
    <2>. QED
      BY <1>1, <2>1 DEF Settled
  <1>5. RunsAreCurrent'
    BY <1>1, <1>2 DEF RunsAreCurrent
  <1>. QED
    BY <1>1, <1>3, <1>4, <1>5, RunStep

(* A draft of a slot that says c has the event's own key of c.             *)
LEMMA DraftHasOwnKey ==
  ASSUME TypeOK, RowsTell, NEW s \in Slot, NEW r \in Drafts(s)
  PROVE  outbox[r].key = OwnKey(s, outbox[r].key.content) /\ Exists(r) /\ r \in RowId
  <1>1. r \in RowId /\ outbox[r].status = "draft" /\ outbox[r].slot = s
    BY DEF Drafts, RowsWith
  <1>2. outbox[r].key \in Key
    BY <1>1 DEF TypeOK, OutboxTypeOK, Row
  <1>3. outbox[r].key.slot = s /\ outbox[r].key.resend = 0
    BY <1>1 DEF RowsTell, Exists
  <1>. QED
    BY <1>1, <1>2, <1>3 DEF OwnKey, Key, Exists

LEMMA RunChecksKey ==
  ASSUME \A t, u \in Trigger : t = u, TypeOK, CurrentInv, NoneCutShort' => NoneCutShort,
         NEW t \in Trigger, TriggerCheckKey(t)
  PROVE  CurrentInv'
  <1>. PICK s \in Slot : s = trigger[t].slot
    BY DEF TypeOK, ServiceTypeOK, TriggerRun
  <1>1. UNCHANGED <<outbox, request, gone, record, past>>
    BY DEF TriggerCheckKey, outboxVars
  <1>2. trigger[t].content = record[s]
    BY DEF TriggerCheckKey, CurrentInv, RunsAreCurrent
  <1>3. \/ trigger'[t].at = "idle" /\ CurrentTaken(s)
        \/ /\ ~CurrentTaken(s)
           /\ trigger'[t].at = "new" /\ trigger'[t].slot = s /\ trigger'[t].content = record[s]
    BY <1>2 DEF TriggerCheckKey, Return, IdleTrigger, CurrentTaken, TypeOK, ServiceTypeOK, TriggerRun
  <1>4. RecordsGoOn
    BY <1>1, SameRecords
  <1>5. SettledStays
    <2>. SUFFICES ASSUME NEW y \in Slot, Settled(y)', ~CurrentTaken(y)'
                  PROVE  Settled(y) /\ record'[y] = record[y]
      BY DEF SettledStays
    <2>1. y # s
      <3>1. CASE trigger'[t].at = "idle"
        <4>1. CurrentTaken(s)'
          BY <1>1, <1>3, <3>1 DEF CurrentTaken, KeyTaken, OwnKey, Exists
        <4>. QED
          BY <4>1
      <3>2. CASE trigger'[t].at # "idle"
        BY <1>3, <3>2 DEF Settled
      <3>. QED
        BY <3>1, <3>2
    <2>. QED
      BY <1>1, <2>1 DEF Settled
  <1>6. RunsAreCurrent'
    <2>1. ~CurrentTaken(s) => \A r \in Drafts(s) : outbox[r].key.content # record[s]
      BY DraftHasOwnKey DEF CurrentInv, CurrentTaken, KeyTaken
    <2>2. CASE trigger'[t].at = "idle"
      BY <2>2 DEF RunsAreCurrent
    <2>3. CASE trigger'[t].at # "idle"
      <3>1. Drafts(trigger[t].slot)' = Drafts(s)
        BY <1>1, <1>3, <2>3 DEF Drafts, RowsWith
      <3>. QED
        BY <1>1, <1>3, <2>1, <2>3, <3>1 DEF RunsAreCurrent
    <2>. QED
      BY <2>2, <2>3
  <1>. QED
    BY <1>1, <1>4, <1>5, <1>6, RunStep

LEMMA RunReplaces ==
  ASSUME \A t, u \in Trigger : t = u, TypeOK, CurrentInv, NoneCutShort' => NoneCutShort,
         NEW t \in Trigger, ReplaceDrafts(t)
  PROVE  CurrentInv'
  <1>. PICK s \in Slot : s = trigger[t].slot
    BY DEF TypeOK, ServiceTypeOK, TriggerRun
  <1>1. UNCHANGED <<request, gone, record, past, faults>>
    BY DEF ReplaceDrafts
  <1>2. /\ trigger[t].at = "new" /\ trigger[t].content = record[s]
        /\ \A r \in Drafts(s) : outbox[r].key.content # record[s]
    BY DEF ReplaceDrafts, CurrentInv, RunsAreCurrent
  <1>3. trigger'[t].at = "replaced" /\ trigger'[t].slot = s /\ trigger'[t].content = record[s]
    BY <1>2 DEF ReplaceDrafts, TypeOK, ServiceTypeOK, TriggerRun
  <1>4. \A r \in RowId \ Drafts(s) : outbox'[r] = outbox[r]
    BY DEF ReplaceDrafts
  <1>5. ASSUME NEW r \in Drafts(s)
        PROVE  /\ outbox'[r].status = "cancelled"
               /\ outbox'[r].slot = s /\ outbox'[r].key = outbox[r].key
               /\ outbox[r].slot = s /\ outbox[r].status = "draft" /\ r \in RowId
    <2>1. r \in RowId /\ outbox[r].status = "draft" /\ outbox[r].slot = s
      BY DEF Drafts, RowsWith
    <2>2. outbox'[r] = [outbox[r] EXCEPT !.status = "cancelled", !.reason = "newer"]
      BY <2>1 DEF ReplaceDrafts
    <2>. QED
      BY <2>1, <2>2, RowTyped DEF Row
  <1>6. RowsTell'
    <2>. SUFFICES ASSUME NEW r \in RowId, outbox'[r].status # "none"
                  PROVE  /\ outbox'[r].key.slot = outbox'[r].slot
                         /\ outbox'[r].reason = "newer" =>
                              outbox'[r].key.content \in past[outbox'[r].slot]
                         /\ outbox'[r].status = "draft" =>
                              /\ outbox'[r].key.resend = 0
                              /\ outbox'[r].key.content
                                   \in past[outbox'[r].slot] \union {record[outbox'[r].slot]}
      BY <1>1 DEF RowsTell, Exists
    <2>1. CASE r \in Drafts(s)
      <3>1. /\ outbox[r].key.slot = s
            /\ outbox[r].key.content \in past[s] \union {record[s]}
        BY <1>5, <2>1 DEF CurrentInv, RowsTell, Exists
      <3>. QED
        BY <1>2, <1>5, <2>1, <3>1
    <2>2. CASE r \notin Drafts(s)
      BY <1>4, <2>2 DEF CurrentInv, RowsTell, Exists
    <2>. QED
      BY <2>1, <2>2
  <1>7. RunsAreCurrent'
    BY <1>1, <1>3 DEF RunsAreCurrent
  <1>8. \A r \in RowId : Exists(r) => Exists(r)' /\ outbox'[r].key = outbox[r].key
    BY <1>4, <1>5 DEF Exists
  <1>9. \A k : KeyTaken(k) => KeyTaken(k)'
    BY <1>8, KeysStayTaken
  <1>10. \A y \in Slot : HasMail(y)' => HasMail(y)
    BY <1>4, <1>5 DEF HasMail, Exists
  <1>11. SettledStays
    BY <1>1, <1>2, <1>3 DEF SettledStays, Settled
  <1>12. NoneCutShort' => RequestsAreCurrent' /\ MailIsCurrent'
    BY <1>1, <1>9, <1>10, <1>11, RequestsStayCurrent, MailStaysCurrent DEF CurrentInv
  <1>. QED
    BY <1>6, <1>7, <1>12 DEF CurrentInv

LEMMA RunInserts ==
  ASSUME \A t, u \in Trigger : t = u, TypeOK, CurrentInv, NoneCutShort' => NoneCutShort,
         NEW t \in Trigger, TriggerInsert(t)
  PROVE  CurrentInv'
  <1>. PICK s \in Slot : s = trigger[t].slot
    BY DEF TypeOK, ServiceTypeOK, TriggerRun
  <1>. PICK w : w = record[s]
    OBVIOUS
  <1>. PICK k : k = OwnKey(s, w)
    OBVIOUS
  <1>1. UNCHANGED <<request, gone, record, past>> /\ trigger[t].content = w
    BY DEF TriggerInsert, CurrentInv, RunsAreCurrent
  <1>2. \A u \in Trigger : trigger'[u].at = "idle"
    BY DEF TriggerInsert, Return, IdleTrigger, TypeOK, ServiceTypeOK
  <1>3. \A y \in Slot \ {s} : Settled(y)' => Settled(y)
    BY <1>1 DEF Settled
  <1>4. CASE KeyTaken(k) /\ UNCHANGED outbox
    <2>1. RecordsGoOn
      BY <1>1, SameRecords
    <2>2. CurrentTaken(s)'
      BY <1>1, <1>4 DEF CurrentTaken, KeyTaken, OwnKey, Exists
    <2>3. SettledStays
      BY <1>1, <1>3, <2>2 DEF SettledStays
    <2>4. RunsAreCurrent'
      BY <1>2 DEF RunsAreCurrent
    <2>. QED
      BY <1>1, <1>4, <2>1, <2>3, <2>4, RunStep
  <1>5. ASSUME NEW r \in RowId, NEW expires \in {"never", "ahead"}, IsNextId(r),
               outbox' = [outbox EXCEPT ![r] = TriggerRow(t, expires)]
        PROVE  CurrentInv'
    <2>. PICK row : row = TriggerRow(t, expires)
      OBVIOUS
    <2>1. /\ row.slot = s /\ row.key = k /\ row.status # "none" /\ row.reason # "newer"
      <3>1. trigger[t].clean \in BOOLEAN
        BY DEF TypeOK, ServiceTypeOK, TriggerRun
      <3>. QED
        BY <1>1, <3>1 DEF TriggerRow, Inserted
    <2>2. k.slot = s /\ k.resend = 0 /\ k.content = record[s]
      BY DEF OwnKey
    <2>3. outbox' = [outbox EXCEPT ![r] = row]
      BY <1>5
    <2>4. CurrentTaken(s)'
      <3>1. outbox'[r] = row
        BY <2>3 DEF TypeOK, OutboxTypeOK
      <3>2. KeyTaken(k)'
        BY <2>1, <3>1 DEF KeyTaken, Exists
      <3>. QED
        BY <1>1, <3>2 DEF CurrentTaken
    <2>5. \A b \in Clerk : request'[b].at \in {"composed", "insert"} => request'[b] = request[b]
      BY <1>1
    <2>. QED
      BY <1>1, <1>2, <1>3, <1>5, <2>1, <2>2, <2>3, <2>4, <2>5, InsertStep
  <1>. QED
    <2>1. OwnKey(trigger[t].slot, trigger[t].content) = k
      BY <1>1
    <2>. QED
      BY <1>4, <1>5, <2>1 DEF TriggerInsert

LEMMA RunFails ==
  ASSUME \A t, u \in Trigger : t = u, TypeOK, FaultsSpent, CurrentInv, NEW t \in Trigger,
         TriggerFails(t)
  PROVE  CurrentInv'
  <1>1. ~NoneCutShort'
    BY SpentIsCutShort DEF TriggerFails
  <1>2. UNCHANGED <<outbox, record, past>>
    BY DEF TriggerFails
  <1>3. RowsTell'
    BY <1>2 DEF CurrentInv, RowsTell, Exists
  <1>4. RunsAreCurrent'
    BY DEF TriggerFails, Return, IdleTrigger, RunsAreCurrent, TypeOK, ServiceTypeOK
  <1>. QED
    BY <1>1, <1>3, <1>4 DEF CurrentInv

LEMMA CurrentStep ==
  ASSUME \A t, u \in Trigger : t = u
  PROVE  TypeOK /\ TypeOK' /\ RowInv /\ FaultsSpent /\ CurrentInv /\ [Next]_vars => CurrentInv'
  <1>. SUFFICES ASSUME TypeOK, TypeOK', RowInv, FaultsSpent, CurrentInv, [Next]_vars
                PROVE  CurrentInv'
    OBVIOUS
  <1>u. NoneCutShort' => NoneCutShort
    BY StillUncut
  <1>k. UNCHANGED outbox => \A r \in RowId : RowKept(r)
    BY DEF RowKept
  <1>1. CASE UNCHANGED vars
    <2>1. /\ UNCHANGED <<outbox, record, past, trigger, gone, request>>
      BY <1>1 DEF vars, outboxVars, serviceVars
    <2>. QED
      BY <1>k, <1>u, <2>1, QuietStep
  <1>2. ASSUME NEW d \in Dispatcher, DispatcherStep(d), UNCHANGED serviceVars
        PROVE  CurrentInv'
    <2>1. \A r \in RowId : RowKept(r)
      BY <1>2, DispatcherKeeps
    <2>2. UNCHANGED <<record, gone>>
      BY <1>2
      DEF DispatcherStep, DispatcherProgress, ExpireDrafts, RecoverStuck, PurgeOldBodies,
          SelectDue, EndBatch, Claim, Reread, CheckRecord, CheckSuppression, CheckQuota,
          SmtpAccepts, SmtpRejects, MarkSent, LogContact, MarkSentFails, Crash, outboxVars
    <2>. QED
      BY <1>2, <1>u, <2>1, <2>2, QuietStep DEF serviceVars
  <1>3. ASSUME NEW q \in RowId, TimerElapses(q) \/ ExpiryPasses(q), UNCHANGED serviceVars
        PROVE  CurrentInv'
    <2>1. \A r \in RowId : RowKept(r)
      BY <1>3 DEF TimerElapses, ExpiryPasses, RowKept, TypeOK, OutboxTypeOK, Row
    <2>2. UNCHANGED <<record, gone>>
      BY <1>3 DEF TimerElapses, ExpiryPasses
    <2>. QED
      BY <1>3, <1>u, <2>1, <2>2, QuietStep DEF serviceVars
  <1>4. ASSUME ServiceStep PROVE CurrentInv'
    <2>1. ASSUME NEW s \in Slot, AddSuppression(s) \/ RemoveSuppression(s) \/ DeleteRecord(s)
          PROVE  CurrentInv'
      <3>1. UNCHANGED <<outbox, record, past, trigger, request>> /\ gone \subseteq gone'
        BY <2>1 DEF AddSuppression, RemoveSuppression, DeleteRecord, serviceVars
      <3>. QED
        BY <1>k, <1>u, <3>1, QuietStep
    <2>2. ASSUME NEW t \in Trigger,
                 \/ \E s \in Slot, c \in Content : EditRecord(t, s, c)
                 \/ TriggerCompose(t) \/ TriggerCheckKey(t) \/ ReplaceDrafts(t)
                 \/ TriggerInsert(t) \/ TriggerFails(t)
          PROVE  CurrentInv'
      BY <1>u, <2>2, EditCurrent, RunComposes, RunChecksKey, RunReplaces, RunInserts, RunFails
    <2>. QED
      BY <1>4, <1>u, <2>1, <2>2, ClerkCurrent DEF ServiceStep
  <1>. QED
    BY <1>1, <1>2, <1>3, <1>4 DEF Next

(* With one trigger run at a time, whatever staff, containers and the clock *)
(* do in between, and until a crash or a database error: a record that has *)
(* a mail and is not being looked at has a mail of what it says now, that  *)
(* no newer one replaced (createFromTrigger, send, composeSend).           *)
THEOREM PresentDataAreSuggested ==
  (\A t, u \in Trigger : t = u) => (Spec => []CurrentIsSuggested)
  <1>. SUFFICES ASSUME \A t, u \in Trigger : t = u PROVE Spec => []CurrentIsSuggested
    OBVIOUS
  <1>1. Init => FaultsSpent /\ CurrentInv
    <2>. SUFFICES ASSUME Init PROVE FaultsSpent /\ CurrentInv
      OBVIOUS
    <2>1. FaultsSpent
      BY FaultAssumption DEF Init, OutboxInit, FaultsSpent
    <2>. QED
      BY <2>1
      DEF Init, OutboxInit, BlankRow, ServiceInit, IdleRequest, IdleTrigger, CurrentInv, RowsTell,
          RunsAreCurrent, RequestsAreCurrent, MailIsCurrent, HasMail, Exists
  <1>2. TypeOK /\ TypeOK' /\ FaultsSpent /\ [Next]_vars => FaultsSpent'
    BY StillSpent
  <1>3. Spec => [](TypeOK /\ CurrentInv)
    BY <1>1, <1>2, RowInvariant, CurrentStep, PTL DEF Spec
  <1>4. TypeOK /\ CurrentInv => CurrentIsSuggested
    <2>. SUFFICES ASSUME TypeOK, CurrentInv, TriggersAtRest, NoneCutShort, NEW s \in Slot \ gone,
                         HasMail(s), record[s] \notin Unaddressed \union past[s]
                  PROVE  Suggested(s, record[s])
      BY DEF CurrentIsSuggested
    <2>1. CurrentTaken(s)
      BY DEF CurrentInv, MailIsCurrent, Settled, TriggersAtRest
    <2>. PICK r \in RowId : Exists(r) /\ outbox[r].key = OwnKey(s, record[s])
      BY <2>1 DEF CurrentTaken, KeyTaken
    <2>2. outbox[r].key.slot = s /\ outbox[r].key.content = record[s]
      BY DEF OwnKey
    <2>3. outbox[r].slot = s /\ outbox[r].reason # "newer"
      BY <2>2 DEF CurrentInv, RowsTell
    <2>. QED
      BY <2>2, <2>3 DEF Suggested
  <1>. QED
    BY <1>3, <1>4, PTL

=============================================================================
