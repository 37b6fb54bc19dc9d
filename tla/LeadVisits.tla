----------------------------- MODULE LeadVisits -----------------------------
(***************************************************************************)
(* The enquiries of one mobile number's lead and the site visit they hold  *)
(* (leads.service.ts, lead-routing.service.ts), up to the confirmation     *)
(* email that is drafted from them (leads/mail).                           *)
(*                                                                         *)
(* A transaction that only inserts is one step.  One that changes a row is *)
(* two: a read, of the snapshot it keeps, and the commit of the columns    *)
(* that differ from it.  Requests that save outside a transaction read the *)
(* row a second time, and write the columns in which it differs from the   *)
(* copy they hold.  The event of a visit follows its commit in a step of   *)
(* its own.                                                                *)
(*                                                                         *)
(* `slot' stands for the time and the meeting point of a visit; an enquiry *)
(* is the visit it holds, its other columns left out, and of the lead's    *)
(* row only that it is there.  Follow-ups are those that bear the date of  *)
(* a visit, before staff edit or delete them.                              *)
(***************************************************************************)
EXTENDS Integers, Sequences

CONSTANTS
  Booker,        \* bound: how many requests run at once
  Day, Slot,
  Nil,           \* NULL
  Window,        \* how many of the latest enquiries an email looks at
  MaxEnquiries   \* bound on the enquiries of the lead

ASSUME WindowAssumption == Window \in Nat /\ MaxEnquiries \in 0 .. Window
ASSUME NilAssumption == Nil \notin Day

VARIABLES
  patron,     \* the lead: "none", "stored" or "deleted"
  enquiries,  \* lead_inquiries of the lead by their ids: the visit of each
  followUps,  \* lead_follow_ups: the visits they are dated to
  call,       \* [Booker -> record]
  mailing,    \* [Booker -> record]: the handler of a request's event
  drafted,    \* mail_outbox: the visits, by their keys, of the confirmations
  open,       \* those of them that are open drafts, if staff leave them alone
  overtaken,  \* history: two handlers ran at once
  again,      \* history: the visits that came back after they were drafted
  booked,     \* history: the visit stored last
  inTurn,     \* history: no request began during another
  lost        \* history: an event was lost, or a save put an old visit back

mailVars == <<mailing, drafted, open, overtaken>>

visitVars ==
  <<patron, enquiries, followUps, call, mailVars, again, booked, inTurn, lost>>

Visit == [date : Day, slot : Slot]
NoVisit == [date |-> Nil, slot |-> Nil]

Resting == [at |-> "idle"]

VisitsInit ==
  /\ patron = "none"
  /\ enquiries = <<>>
  /\ followUps = {}
  /\ call = [q \in Booker |-> Resting]
  /\ mailing = [q \in Booker |-> Resting]
  /\ drafted = {}
  /\ open = {}
  /\ overtaken = FALSE
  /\ again = {}
  /\ booked = NoVisit
  /\ inTurn = TRUE
  /\ lost = FALSE

-----------------------------------------------------------------------------

(* The rows of enquiries that hold a visit, of those an email looks at.    *)
Visited == {i \in DOMAIN enquiries : i > Len(enquiries) - Window /\ enquiries[i].date # Nil}

Latest(rows) == CHOOSE i \in rows : \A j \in rows : j <= i

(* What emails, and the dialog of the lead, show as its visit.             *)
Shown == IF Visited = {} THEN NoVisit ELSE enquiries[Latest(Visited)]

(* A request ends when the mails of its event are drafted.                 *)
Rests(q) == call[q] = Resting /\ mailing[q] = Resting

Starts(q) ==
  /\ Rests(q)
  /\ inTurn' = (inTurn /\ \A r \in Booker : Rests(r))

Continues(q, next) == call' = [call EXCEPT ![q] = next]

(* The event after the commit, if a visit was booked.                      *)
Announces(q, withVisit) ==
  IF withVisit THEN Continues(q, [at |-> "announce"]) ELSE Continues(q, Resting)

(* What was booked is followed as long as requests come in turn.           *)
Booked(visit) == booked' = IF inTurn' THEN visit ELSE NoVisit

(* New rows join the enquiries, and the last visit among them is booked.   *)
Inserts(rows) ==
  LET dated == {i \in DOMAIN rows : rows[i] # NoVisit}
  IN /\ patron # "deleted"
     /\ patron' = "stored"
     /\ Len(enquiries) + Len(rows) <= MaxEnquiries
     /\ enquiries' = enquiries \o rows
     /\ Booked(IF dated = {} THEN booked ELSE rows[Latest(dated)])

-----------------------------------------------------------------------------
(* createLead, for a source that is not queued.  A visit booking "lays     *)
(* down its enquiry first, then the visit on top of it"; without a         *)
(* requirement there is no enquiry, and the date is in the follow-up only. *)

RowsOf(asks, intent, visit) ==
  IF ~asks THEN <<>>
  ELSE IF intent = "site_visit" THEN <<NoVisit, visit>> ELSE <<NoVisit>>

CreateLead(q, asks, intent, visit) ==
  /\ Starts(q)
  /\ Inserts(RowsOf(asks, intent, visit))
  /\ followUps' = followUps \union ({visit} \ {NoVisit})
  /\ Announces(q, intent = "site_visit" /\ visit # NoVisit)
  /\ UNCHANGED <<mailVars, lost>>

(* convertEvent and acceptEvent, given the visits of the events they       *)
(* decide: one event, but for a convert that creates the lead and takes    *)
(* every open one.                                                         *)
DecideEvents(q, visits) ==
  LET dated == {visits[i] : i \in DOMAIN visits} \ {NoVisit}
  IN /\ Starts(q)
     /\ Len(visits) > 1 => patron = "none"
     /\ Inserts(visits)
     /\ followUps' = followUps \union dated
     /\ Announces(q, dated # {})
     /\ UNCHANGED <<mailVars, lost>>

(* bulkCreateLeads: each row of the file that asks for something is an     *)
(* enquiry, on the lead of its number, whether new or known.               *)
BulkCreateLeads(q, asking) ==
  /\ Starts(q)
  /\ Inserts([i \in 1 .. asking |-> NoVisit])
  /\ UNCHANGED <<followUps, call, mailVars, lost>>

-----------------------------------------------------------------------------
(* Changes of a row that is there.                                         *)

Differing(old, new) == {c \in DOMAIN old : old[c] # new[c]}
Altered(row, new, columns) == [c \in DOMAIN row |-> IF c \in columns THEN new[c] ELSE row[c]]

HasLead == patron = "stored"

LatestEnquiry == Len(enquiries)

RowAt(i) == IF i = 0 THEN NoVisit ELSE enquiries[i]

(* The copy of row i, 0 if it is a new one, that a transaction will save.  *)
Copies(q, at, i, entity) ==
  Continues(q, [at      |-> at,
                row     |-> i,
                entity  |-> entity,
                columns |-> Differing(RowAt(i), entity)])

(* The row as the UPDATE, or the INSERT, of q leaves it.                   *)
Saves(q) ==
  LET c == call[q]
  IN /\ HasLead
     /\ c.row = 0 => Len(enquiries) < MaxEnquiries
     /\ enquiries' =
          IF c.row = 0 THEN Append(enquiries, c.entity)
          ELSE [enquiries EXCEPT ![c.row] = Altered(@, c.entity, c.columns)]

ScheduleVisit(q, visit) ==
  /\ Starts(q)
  /\ HasLead
  /\ Copies(q, "visit", LatestEnquiry, visit)
  /\ UNCHANGED <<patron, enquiries, followUps, mailVars, booked, lost>>

VisitCommits(q) ==
  /\ call[q].at = "visit"
  /\ Saves(q)
  /\ followUps' = followUps \union {call[q].entity}
  /\ Announces(q, TRUE)
  /\ UNCHANGED <<patron, mailVars, inTurn, lost>>
  /\ Booked(call[q].entity)

(* updateLead finds an enquiry, any, and writes columns that are left out  *)
(* here; or finds none, and adds one.                                      *)
UpdateLead(q) ==
  /\ Starts(q)
  /\ HasLead
  /\ enquiries = <<>>
  /\ Copies(q, "edit", 0, NoVisit)
  /\ UNCHANGED <<patron, enquiries, followUps, mailVars, booked, lost>>

EditCommits(q) ==
  /\ call[q].at = "edit"
  /\ Saves(q)
  /\ Continues(q, Resting)
  /\ UNCHANGED <<patron, followUps, mailVars, booked, inTurn, lost>>

(* updateInquiry changes other columns, of a copy it has read before the   *)
(* transaction of its save: the save reads the row again.                  *)
UpdateInquiry(q, i) ==
  /\ Starts(q)
  /\ HasLead
  /\ Copies(q, "copy", i, enquiries[i])
  /\ UNCHANGED <<patron, enquiries, followUps, mailVars, booked, lost>>

SaveReads(q) ==
  /\ call[q].at = "copy"
  /\ HasLead
  /\ Copies(q, "save", call[q].row, call[q].entity)
  /\ UNCHANGED <<patron, enquiries, followUps, mailVars, booked, inTurn, lost>>

SaveCommits(q) ==
  /\ call[q].at = "save"
  /\ Saves(q)
  /\ lost' = (lost \/ call[q].columns # {})
  /\ Continues(q, Resting)
  /\ UNCHANGED <<patron, followUps, mailVars, booked, inTurn>>

-----------------------------------------------------------------------------

(* The handler of the event, which the request awaits, loads the lead and  *)
(* composes its confirmation; without a lead it fails.                     *)
Draft(q) ==
  /\ call[q].at = "announce"
  /\ Continues(q, Resting)
  /\ IF HasLead
       THEN /\ mailing' = [mailing EXCEPT ![q] = [at |-> "composed", visit |-> Shown]]
            /\ overtaken' = (overtaken \/ \E r \in Booker : mailing[r] # Resting)
       ELSE UNCHANGED <<mailing, overtaken>>
  /\ UNCHANGED <<patron, enquiries, followUps, drafted, open, booked, inTurn, lost>>

Mails(q, at) == mailing' = [mailing EXCEPT ![q].at = at]
MailsNoMore(q) == mailing' = [mailing EXCEPT ![q] = Resting]

(* createFromTrigger: a key that was used, whatever became of its mail, is *)
(* not suggested a second time.                                            *)
ChecksKey(q) ==
  /\ mailing[q].at = "composed"
  /\ IF mailing[q].visit \in drafted THEN MailsNoMore(q) ELSE Mails(q, "withdraw")
  /\ UNCHANGED <<drafted, open, overtaken>>

(* Mutant: the older drafts stay.                                          *)
KeepsOlder(q) ==
  /\ mailing[q].at = "withdraw"
  /\ Mails(q, "insert")
  /\ UNCHANGED <<drafted, open, overtaken>>

WithdrawsOlder(q) ==
  /\ mailing[q].at = "withdraw"
  /\ open' = {}
  /\ Mails(q, "insert")
  /\ UNCHANGED <<drafted, overtaken>>

(* The key is unique: the second of two inserts is refused.                *)
InsertsDraft(q) ==
  /\ mailing[q].at = "insert"
  /\ drafted' = drafted \union {mailing[q].visit}
  /\ open' = open \union ({mailing[q].visit} \ drafted)
  /\ MailsNoMore(q)
  /\ UNCHANGED overtaken

CreateFromTrigger(q) ==
  /\ ChecksKey(q) \/ WithdrawsOlder(q) \/ InsertsDraft(q)
  /\ UNCHANGED <<patron, enquiries, followUps, call, booked, inTurn, lost>>

(* A transaction is rolled back, or the server stops before the event.     *)
Stops(q) ==
  /\ call[q] # Resting
  /\ lost' = (lost \/ call[q].at = "announce")
  /\ Continues(q, Resting)
  /\ UNCHANGED <<patron, enquiries, followUps, mailVars, booked, inTurn>>

(* A statement of the handler fails, or the server stops during it.        *)
MailFails(q) ==
  /\ mailing[q] # Resting
  /\ lost' = TRUE
  /\ MailsNoMore(q)
  /\ UNCHANGED <<patron, enquiries, followUps, call, drafted, open, overtaken,
                 booked, inTurn>>

(* Enquiries and follow-ups go with the lead; whatever is being written    *)
(* for it can only stop.                                                   *)
DeleteLead ==
  /\ HasLead
  /\ patron' = "deleted"
  /\ enquiries' = <<>>
  /\ followUps' = {}
  /\ booked' = NoVisit
  /\ UNCHANGED <<call, mailVars, inTurn, lost>>

Dated == Visit \union {NoVisit}

VisitsStep ==
  \/ \E q \in Booker :
       \/ \E asks \in BOOLEAN, intent \in {"enquiry", "site_visit"}, visit \in Dated :
            CreateLead(q, asks, intent, visit)
       \/ \E n \in 1 .. 2 : \E visits \in [1 .. n -> Dated] : DecideEvents(q, visits)
       \/ \E asking \in 0 .. 2 : BulkCreateLeads(q, asking)
       \/ \E visit \in Visit : ScheduleVisit(q, visit)
       \/ UpdateLead(q)
       \/ \E i \in DOMAIN enquiries : UpdateInquiry(q, i)
       \/ VisitCommits(q) \/ EditCommits(q) \/ SaveReads(q) \/ SaveCommits(q)
       \/ Draft(q) \/ CreateFromTrigger(q) \/ Stops(q) \/ MailFails(q)
  \/ DeleteLead

(* A visit is shown anew whose key was used before.                        *)
ComesBack ==
  again' = IF Shown' # Shown THEN again \union ({Shown'} \intersect drafted) ELSE again

VisitsNext == VisitsStep /\ ComesBack

VisitsSpec == VisitsInit /\ [][VisitsNext]_visitVars

-----------------------------------------------------------------------------

(* No request has an event to emit and no handler runs.                    *)
MailsSettled == \A q \in Booker : call[q].at # "announce" /\ mailing[q] = Resting

(* What emails say of the visit is what was booked (scheduleVisit,         *)
(* loadLeadMailData): however edits and imports come between, the visit    *)
(* they show is the one booked last, if requests come in turn, and has its *)
(* follow-up; and when two bookings cross, and leave a visit neither of    *)
(* them asked for, a confirmation is drafted of that one.  The draft stays *)
(* open, however late its handler runs (createFromTrigger), and all others *)
(* are withdrawn, unless two handlers ran at once, the older one last, or  *)
(* the visit was moved back to one drafted before: its key was used.       *)
VisitIsConfirmed ==
  /\ inTurn => Shown = booked /\ Shown \in followUps \union {NoVisit}
  /\ MailsSettled /\ ~lost => Shown \in drafted \union {NoVisit}
  /\ ~overtaken => /\ Shown \in drafted => Shown \in open \union again
                   /\ \A v, w \in open : v = w

=============================================================================
