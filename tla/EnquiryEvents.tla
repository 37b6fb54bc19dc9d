--------------------------- MODULE EnquiryEvents ---------------------------
(***************************************************************************)
(* Website enquiries from their intake (leads.service.ts) to the decision  *)
(* of staff (lead-routing.service.ts): convert, accept, acknowledge.       *)
(*                                                                         *)
(* Each decision is one InnoDB transaction at REPEATABLE READ, split here  *)
(* where another transaction can come between its statements.  The event   *)
(* is read FOR UPDATE; the first plain SELECT fixes the snapshot that all  *)
(* later plain reads see, so what a convert reads of its siblings is as    *)
(* old as its lookup of the lead.  Writes show at the commit; until then   *)
(* they hold row locks and, for a new lead, the unique index entry of its  *)
(* mobile number.                                                          *)
(***************************************************************************)
EXTENDS Integers, FiniteSets

CONSTANTS
  Staff,
  Decider,    \* Team Lead, Manager and Admin: may accept and acknowledge
  LeadId,
  Mobile,
  MaxEvents,  \* bound: how many enquiries the website sends
  None        \* NULL

ASSUME StaffAssumption == Decider \subseteq Staff
ASSUME EventsAssumption == MaxEvents \in Nat
ASSUME NoneAssumption == None \notin Staff /\ None \notin LeadId /\ None \notin Mobile

VARIABLES
  lead,     \* leads: state "inserted" is a row no other transaction can see yet
  event,    \* website_enquiry_events: "arriving" is known to its request alone
  inquiry,  \* lead_inquiries made from events: pairs of a lead and an event
  history,  \* routing_histories of decisions
  notice,   \* notifications to the owners of leads
  tx,       \* [Staff -> Transaction], the decision each one is making
  renumbered \* history: leads whose number was changed

tables == <<lead, event, inquiry, history, notice>>
vars == <<tables, tx, renumbered>>

EventId == 1..MaxEvents
Decided == {"attached", "converted", "acknowledged"}

Lead == [state  : {"unused", "inserted", "live", "deleted"},
         mobile : Mobile \union {None},
         owner  : Staff \union {None}]

Event == [status   : {"absent", "arriving", "open"} \union Decided,
          mobile   : Mobile \union {None},
          matched  : LeadId \union {None},
          resolved : LeadId \union {None},
          by       : Staff \union {None}]

History == [type : Decided, lead : LeadId, by : Staff]
Notice == [event : EventId, lead : LeadId, by : Staff, to : Staff]

(* owner is who owned the lead when an accept or acknowledge read it;      *)
(* siblings is what the snapshot holds of the other open events; saved are *)
(* the events whose UPDATE was executed and waits for the commit.          *)
Transaction ==
  [at       : {"idle", "find", "attach", "insert", "save", "acknowledge",
               "notify", "commit"},
   request  : {"none", "convert", "accept", "acknowledge"},
   event    : EventId \union {None},
   lead     : LeadId \union {None},
   owner    : Staff \union {None},
   siblings : SUBSET EventId,
   saved    : SUBSET EventId]

NoTransaction == [at |-> "idle", request |-> "none", event |-> None,
                  lead |-> None, owner |-> None, siblings |-> {}, saved |-> {}]

At(p, step) == tx[p].at = step
Goto(p, step) == tx' = [tx EXCEPT ![p].at = step]

Live(l) == lead[l].state = "live"

(* The unique index on leads.mobile_number, uncommitted entries included.  *)
MobileTaken(m) ==
  \E l \in LeadId : lead[l].state \in {"inserted", "live"} /\ lead[l].mobile = m

(* Rows of website_enquiry_events locked by p until it commits.            *)
Held(p) == IF At(p, "idle") THEN {} ELSE {tx[p].event} \union tx[p].saved
Locked(e) == \E p \in Staff : e \in Held(p)
LockedByOther(p, e) == \E q \in Staff \ {p} : e \in Held(q)

-----------------------------------------------------------------------------
(* Intake and leads that do not come from the queue.                       *)

(* The match by mobile, else by email: any lead may share the email.       *)
Matches(m) ==
  LET same == {l \in LeadId : Live(l) /\ lead[l].mobile = m}
  IN IF same # {} THEN same ELSE {None} \union {l \in LeadId : Live(l)}

Arrive(e, m) ==
  /\ event[e].status = "absent"
  /\ \A d \in 1..(e - 1) : event[d].status # "absent"
  /\ \E l \in Matches(m) :
       event' = [event EXCEPT ![e].status = "arriving", ![e].mobile = m,
                              ![e].matched = l]
  /\ UNCHANGED <<lead, inquiry, history, notice, tx, renumbered>>

(* The INSERT; the foreign key asks for the matched lead.                  *)
ArrivalStored(e) ==
  /\ event[e].status = "arriving"
  /\ event[e].matched # None => Live(event[e].matched)
  /\ event' = [event EXCEPT ![e].status = "open"]
  /\ UNCHANGED <<lead, inquiry, history, notice, tx, renumbered>>

(* The request fails, or the match was deleted: the site sends it again.   *)
ArrivalFails(e) ==
  /\ event[e].status = "arriving"
  /\ event' = [event EXCEPT ![e].status = "absent", ![e].mobile = None,
                            ![e].matched = None]
  /\ UNCHANGED <<lead, inquiry, history, notice, tx, renumbered>>

(* createLead's direct branch for a number without a lead: the INSERT.     *)
CreateLead(l, m, owner) ==
  /\ lead[l].state = "unused"
  /\ ~MobileTaken(m)
  /\ lead' = [lead EXCEPT ![l] = [state |-> "inserted", mobile |-> m, owner |-> owner]]
  /\ UNCHANGED <<event, inquiry, history, notice, tx, renumbered>>

Unclaimed(l) == lead[l].state = "inserted" /\ \A p \in Staff : tx[p].lead # l

CreateCommits(l) ==
  /\ Unclaimed(l)
  /\ lead' = [lead EXCEPT ![l].state = "live"]
  /\ UNCHANGED <<event, inquiry, history, notice, tx, renumbered>>

Blank(state) == [state |-> state, mobile |-> None, owner |-> None]

(* The id of an INSERT that is rolled back is not handed out again.        *)
CreateFails(l) ==
  /\ Unclaimed(l)
  /\ lead' = [lead EXCEPT ![l] = Blank("deleted")]
  /\ UNCHANGED <<event, inquiry, history, notice, tx, renumbered>>

(* A decision that has written its rows holds a foreign-key lock on the    *)
(* lead they refer to: whoever would update that lead waits.               *)
Shared(l) == \E p \in Staff : tx[p].lead = l /\ tx[p].at \in {"notify", "commit"}

(* updateLead gives a lead another number; the conflict check, and the     *)
(* unique index after it, refuse one that is taken.                        *)
Renumber(l, m) ==
  /\ Live(l)
  /\ ~Shared(l)
  /\ ~MobileTaken(m)
  /\ lead' = [lead EXCEPT ![l].mobile = m]
  /\ renumbered' = renumbered \union {l}
  /\ UNCHANGED <<event, inquiry, history, notice, tx>>

(* claimLead and assignLead; a save of a copy read before one of them can  *)
(* also take the owner away again.                                         *)
HandOver(l, owner) ==
  /\ Live(l)
  /\ ~Shared(l)
  /\ owner # lead[l].owner
  /\ lead' = [lead EXCEPT ![l].owner = owner]
  /\ UNCHANGED <<event, inquiry, history, notice, tx, renumbered>>

(* It keeps deleteLead out, too, and so do the locks on the events that    *)
(* refer to the lead.                                                      *)
Pinned(l) ==
  \/ Shared(l)
  \/ \E e \in EventId : l \in {event[e].matched, event[e].resolved} /\ Locked(e)

(* ON DELETE SET NULL.                                                     *)
Unlinked(l, row) ==
  IF row.status = "arriving" THEN row
  ELSE [row EXCEPT !.matched = IF @ = l THEN None ELSE @,
                   !.resolved = IF @ = l THEN None ELSE @]

(* deleteLead, one transaction; inquiries and history go with the lead.    *)
DeleteLead(l) ==
  /\ Live(l)
  /\ ~Pinned(l)
  /\ lead' = [lead EXCEPT ![l].state = "deleted"]
  /\ event' = [e \in EventId |-> Unlinked(l, event[e])]
  /\ inquiry' = {i \in inquiry : i[1] # l}
  /\ history' = {h \in history : h.lead # l}
  /\ UNCHANGED <<notice, tx, renumbered>>

-----------------------------------------------------------------------------
(* Decisions.                                                              *)

(* Mutant: the event is read without FOR UPDATE.                           *)
ReadWithoutLock(p, e, request) ==
  /\ At(p, "idle")
  /\ event[e].status = "open"
  /\ request = "convert" \/ p \in Decider
  /\ request = "accept" => event[e].matched # None
  /\ tx' = [tx EXCEPT ![p] =
              [NoTransaction EXCEPT
                 !.at = IF request = "acknowledge" /\ event[e].matched = None
                        THEN "acknowledge" ELSE "find",
                 !.request = request, !.event = e]]
  /\ UNCHANGED <<tables, renumbered>>

(* lockOpenEvent and the checks after it: an event that is locked is       *)
(* waited for with nothing held, a decided one is refused with 409.        *)
LockOpenEvent(p, e, request) ==
  /\ ~Locked(e)
  /\ ReadWithoutLock(p, e, request)

(* Mutant: the query for the siblings leaves the number out.               *)
OpenSiblingsOfAll(m) == {e \in EventId : event[e].status = "open"}

OpenSiblings(m) == {e \in EventId : event[e].status = "open" /\ event[e].mobile = m}

(* convertEventRecord looks for a lead created meanwhile.  The siblings    *)
(* are read after the INSERT, from the snapshot this SELECT fixes.         *)
FindMeanwhile(p) ==
  /\ At(p, "find") /\ tx[p].request = "convert"
  /\ LET m == event[tx[p].event].mobile
         found == {l \in LeadId : Live(l) /\ lead[l].mobile = m}
     IN tx' = IF found = {}
              THEN [tx EXCEPT ![p].at = "insert", ![p].siblings = OpenSiblings(m)]
              ELSE [tx EXCEPT ![p].at = "attach", ![p].lead = CHOOSE l \in found : TRUE]
  /\ UNCHANGED <<tables, renumbered>>

(* acceptEventRecord and acknowledgeEvent read the matched lead.           *)
FindMatched(p) ==
  /\ At(p, "find") /\ tx[p].request # "convert"
  /\ Live(event[tx[p].event].matched)
  /\ tx' = [tx EXCEPT ![p].at = IF tx[p].request = "accept" THEN "attach" ELSE "acknowledge",
                      ![p].lead = event[tx[p].event].matched,
                      ![p].owner = lead[event[tx[p].event].matched].owner]
  /\ UNCHANGED <<tables, renumbered>>

(* notifyLeadOwner: the owner of the copy of the lead that was read, but   *)
(* not for a decision on one's own lead; convert never notifies.           *)
Notifies(p) ==
  /\ tx[p].request # "convert"
  /\ tx[p].lead # None
  /\ tx[p].owner \notin {None, p}

(* Mutant: notifyLeadOwner is forgotten.                                   *)
CommitsAtOnce(p) == "commit"

AfterWrites(p) == IF Notifies(p) THEN "notify" ELSE "commit"

(* The inquiry, follow-up, note, event and history of one event.           *)
WriteAttached(p) ==
  /\ At(p, "attach")
  /\ Live(tx[p].lead)
  /\ tx' = [tx EXCEPT ![p].at = AfterWrites(p), ![p].saved = {tx[p].event}]
  /\ UNCHANGED <<tables, renumbered>>

WriteAcknowledged(p) ==
  /\ At(p, "acknowledge")
  /\ tx[p].lead # None => Live(tx[p].lead)
  /\ tx' = [tx EXCEPT ![p].at = AfterWrites(p), ![p].saved = {tx[p].event}]
  /\ UNCHANGED <<tables, renumbered>>

(* A new lead waits for an uncommitted one with its number.                *)
InsertLead(p, l) ==
  /\ At(p, "insert")
  /\ lead[l].state = "unused"
  /\ ~MobileTaken(event[tx[p].event].mobile)
  /\ lead' = [lead EXCEPT ![l] = [state |-> "inserted", owner |-> None,
                                  mobile |-> event[tx[p].event].mobile]]
  /\ tx' = [tx EXCEPT ![p].at = "save", ![p].lead = l]
  /\ UNCHANGED <<event, inquiry, history, notice, renumbered>>

(* The siblings are saved in the order of the SELECT, which names none.    *)
Unsaved(p) == tx[p].siblings \ tx[p].saved
NextSibling(p) == CHOOSE e \in Unsaved(p) : TRUE

(* eventRepo.save compares the sibling with the snapshot, where it is      *)
(* open, and updates the row whatever it has become since.                 *)
SaveSibling(p) ==
  /\ At(p, "save") /\ Unsaved(p) # {}
  /\ ~LockedByOther(p, NextSibling(p))
  /\ tx' = [tx EXCEPT ![p].saved = @ \union {NextSibling(p)}]
  /\ UNCHANGED <<tables, renumbered>>

SiblingsSaved(p) ==
  /\ At(p, "save") /\ Unsaved(p) = {}
  /\ Goto(p, "commit")
  /\ UNCHANGED <<tables, renumbered>>

(* createNotification runs on a connection of its own, at once.            *)
NotifyLeadOwner(p) ==
  /\ At(p, "notify")
  /\ notice' = notice \union {[event |-> tx[p].event, lead |-> tx[p].lead, by |-> p,
                               to |-> tx[p].owner]}
  /\ Goto(p, "commit")
  /\ UNCHANGED <<lead, event, inquiry, history, renumbered>>

Creates(p) == tx[p].lead # None /\ lead[tx[p].lead].state = "inserted"

Outcome(p) ==
  CASE tx[p].request = "acknowledge" -> "acknowledged"
    [] tx[p].request = "accept"      -> "attached"
    [] tx[p].request = "convert"     -> IF Creates(p) THEN "converted" ELSE "attached"

(* Mutant: the inquiry of the clicked event only.                          *)
InquiryOfClicked(p) ==
  IF Outcome(p) = "acknowledged" THEN {} ELSE {<<tx[p].lead, tx[p].event>>}

(* inquiryFromEvent for every event the transaction resolves.              *)
InquiriesOf(p) ==
  IF Outcome(p) = "acknowledged" THEN {} ELSE {<<tx[p].lead, e>> : e \in tx[p].saved}

(* writeEventHistory, skipped when there is no lead.                       *)
HistoryOf(p) ==
  IF tx[p].lead = None THEN {}
  ELSE {[type |-> Outcome(p), lead |-> tx[p].lead, by |-> p]}

Commit(p) ==
  /\ At(p, "commit")
  /\ event' = [e \in EventId |->
                 IF e \in tx[p].saved
                 THEN [event[e] EXCEPT !.status = Outcome(p), !.resolved = tx[p].lead, !.by = p]
                 ELSE event[e]]
  /\ lead' = IF Creates(p) THEN [lead EXCEPT ![tx[p].lead].state = "live"] ELSE lead
  /\ inquiry' = inquiry \union InquiriesOf(p)
  /\ history' = history \union HistoryOf(p)
  /\ tx' = [tx EXCEPT ![p] = NoTransaction]
  /\ UNCHANGED <<notice, renumbered>>

Rollback(p) ==
  /\ ~At(p, "idle")
  /\ lead' = IF Creates(p) THEN [lead EXCEPT ![tx[p].lead] = Blank("deleted")] ELSE lead
  /\ tx' = [tx EXCEPT ![p] = NoTransaction]
  /\ UNCHANGED <<event, inquiry, history, notice, renumbered>>

(* The matched lead is missing (404), the foreign key finds no lead, or    *)
(* the number has a committed lead by now (duplicate entry).  The last     *)
(* case is the bound on lead ids.                                          *)
Refused(p) ==
  /\ \/ At(p, "find") /\ tx[p].request # "convert" /\ ~Live(event[tx[p].event].matched)
     \/ tx[p].at \in {"attach", "acknowledge"} /\ tx[p].lead # None /\ ~Live(tx[p].lead)
     \/ At(p, "insert") /\ \E l \in LeadId : Live(l) /\ lead[l].mobile = event[tx[p].event].mobile
     \/ At(p, "insert") /\ \A l \in LeadId : lead[l].state # "unused"
  /\ Rollback(p)

Waits(p, q) ==
  /\ p # q
  /\ \/ At(p, "insert") /\ Creates(q) /\ lead[tx[q].lead].mobile = event[tx[p].event].mobile
     \/ At(p, "save") /\ Unsaved(p) # {} /\ NextSibling(p) \in Held(q)

(* Mutant: nobody breaks a deadlock.                                       *)
NoVictim(p) == FALSE

(* InnoDB rolls back one transaction of a cycle.                           *)
DeadlockVictim(p) ==
  /\ \E q \in Staff : Waits(p, q) /\ Waits(q, p)
  /\ Rollback(p)

-----------------------------------------------------------------------------
Init ==
  /\ lead = [l \in LeadId |-> Blank("unused")]
  /\ event = [e \in EventId |-> [status |-> "absent", mobile |-> None, matched |-> None,
                                 resolved |-> None, by |-> None]]
  /\ inquiry = {}
  /\ history = {}
  /\ notice = {}
  /\ tx = [p \in Staff |-> NoTransaction]
  /\ renumbered = {}

Intake ==
  \/ \E e \in EventId, m \in Mobile : Arrive(e, m)
  \/ \E e \in EventId : ArrivalStored(e) \/ ArrivalFails(e)
  \/ \E l \in LeadId, m \in Mobile, o \in Staff \union {None} : CreateLead(l, m, o)
  \/ \E l \in LeadId : CreateCommits(l) \/ CreateFails(l) \/ DeleteLead(l)
  \/ \E l \in LeadId, m \in Mobile : Renumber(l, m)
  \/ \E l \in LeadId, o \in Staff \union {None} : HandOver(l, o)

Decide(p) ==
  \/ FindMeanwhile(p) \/ FindMatched(p)
  \/ WriteAttached(p) \/ WriteAcknowledged(p)
  \/ \E l \in LeadId : InsertLead(p, l)
  \/ SaveSibling(p) \/ SiblingsSaved(p)
  \/ NotifyLeadOwner(p)
  \/ Commit(p)
  \/ Refused(p) \/ DeadlockVictim(p)

(* Rollback alone is a crash, a lost connection or a lock wait timeout.    *)
Next ==
  \/ Intake
  \/ \E p \in Staff, e \in EventId, r \in {"convert", "accept", "acknowledge"} :
       LockOpenEvent(p, e, r)
  \/ \E p \in Staff : Decide(p) \/ Rollback(p)

Spec == Init /\ [][Next]_vars

(* The statements of a request follow each other, and so do those of a     *)
(* direct creation.  SF: InnoDB queues those who wait for a lock, so a     *)
(* lock that is released again and again is granted.  Nothing is asked of  *)
(* staff or of the website.                                                *)
Fairness ==
  /\ \A p \in Staff : SF_vars(Decide(p))
  /\ \A l \in LeadId : WF_vars(CreateCommits(l))

FairSpec == Spec /\ Fairness

-----------------------------------------------------------------------------
TypeOK ==
  /\ lead \in [LeadId -> Lead]
  /\ event \in [EventId -> Event]
  /\ inquiry \subseteq LeadId \X EventId
  /\ history \subseteq History
  /\ notice \subseteq Notice
  /\ tx \in [Staff -> Transaction]
  /\ renumbered \subseteq LeadId

(* What is recorded of an enquiry agrees in all tables, whatever came      *)
(* between the statements of a decision and whichever leads were deleted:  *)
(* an attached or converted one has its inquiry on the lead it names, and  *)
(* that lead exists (inquiryFromEvent, deleteLead).                        *)
EnquiryKept ==
  \A e \in EventId :
    event[e].status \in {"attached", "converted"} /\ event[e].resolved # None
      => <<event[e].resolved, e>> \in inquiry /\ Live(event[e].resolved)

(* The lead's history names the decision and who made it                   *)
(* (writeEventHistory).                                                    *)
HistoryKept ==
  \A e \in EventId :
    event[e].status \in Decided /\ event[e].resolved # None
      => [type |-> event[e].status, lead |-> event[e].resolved, by |-> event[e].by] \in history

(* Both, for every decision there has been.                                *)
RecordsKept == EnquiryKept /\ HistoryKept

(* One customer, one lead: whatever was converted for a number is on one   *)
(* lead, which has that number, however the converts raced with each other *)
(* and with leads created, renumbered and deleted meanwhile.  A lead whose *)
(* own number was changed is no longer asked about (convertEventRecord).   *)
Placed(e) == /\ event[e].status = "converted"
             /\ event[e].resolved \in LeadId \ renumbered

OneLeadPerCustomer ==
  \A e \in EventId : Placed(e) =>
    /\ lead[event[e].resolved].mobile = event[e].mobile
    /\ \A d \in EventId : Placed(d) /\ event[d].mobile = event[e].mobile
                           => event[d].resolved = event[e].resolved

(* The event a request was made for stays open until the request decides   *)
(* it (lockOpenEvent).                                                     *)
HeldIsOpen ==
  \A p \in Staff : ~At(p, "idle") => event[tx[p].event].status = "open"

(* The matched lead of an event that is being decided cannot disappear:    *)
(* the foreign key makes deleteLead wait, and 'Matched lead not found' is  *)
(* never answered (acceptEventRecord, acknowledgeEvent).                   *)
MatchedLeadStays ==
  \A p \in Staff :
    ~At(p, "idle") /\ tx[p].request = "accept" => Live(event[tx[p].event].matched)

(* A decision, once made, is replaced only by a convert that creates a     *)
(* lead and takes the event for an open sibling; accept, acknowledge and   *)
(* an attaching convert never touch an event that is decided.              *)
OnlyConvertOverwrites ==
  [][\A e \in EventId :
       event[e].status \in Decided /\ <<event'[e].status, event'[e].by>> # <<event[e].status, event[e].by>>
         => event'[e].status = "converted" /\ lead[event'[e].resolved].state = "inserted"]_vars

(* The owner of a lead is told before somebody else's accept or            *)
(* acknowledge of an enquiry on it takes effect, unless the lead was       *)
(* handed over after the decision had read it (notifyLeadOwner).           *)
OwnerIsTold ==
  [][\A p \in Staff :
       LET l == tx[p].lead
       IN  Commit(p) /\ tx[p].request # "convert" /\ l # None =>
             \/ lead[l].owner \in {None, p}
             \/ lead[l].owner # tx[p].owner
             \/ \E n \in notice : /\ n.event = tx[p].event /\ n.by = p
                                   /\ n.lead = l /\ n.to = lead[l].owner]_vars

(* Whatever requests race for the enquiries of a number, and whichever     *)
(* leads are deleted, each enquiry keeps the promise of EnquiryPromise.    *)
StageOf(e) == IF event[e].status = "arriving" THEN "absent" ELSE event[e].status

Promise == INSTANCE EnquiryPromise
             WITH Enquiry <- EventId, Customer <- LeadId,
                  stage <- [e \in EventId |-> StageOf(e)],
                  place <- [e \in EventId |-> {l \in LeadId : <<l, e>> \in inquiry}]

KeepsPromise == Promise!Spec

(* Every request for a decision ends, though two converts of one number    *)
(* can wait for each other's event and lead.                               *)
DecisionsEnd == \A p \in Staff : ~At(p, "idle") ~> At(p, "idle")

-----------------------------------------------------------------------------
(* What a comment says, and the code does not keep.                        *)

(* lead-routing.service.ts:527: a decision is refused with "409 (with      *)
(* handledBy) when another staff member already resolved it": it stands.   *)
DecisionStands ==
  [][\A e \in EventId : event[e].status \in Decided => event'[e].by = event[e].by]_vars

=============================================================================
