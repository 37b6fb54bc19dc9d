---------------------------- MODULE LeadRouting ----------------------------
(***************************************************************************)
(* Who owns a lead (lead-routing.service.ts, transfer-to-sales.ts, and     *)
(* addFollowUp, updateLeadStatus and deleteLead of leads.service.ts).      *)
(*                                                                         *)
(* One lead: no request touches two.  Claiming is a conditional UPDATE.    *)
(* Every other request reads the lead, changes its copy and saves it:      *)
(* repository.save reads the row again and UPDATEs, by id, the columns in  *)
(* which the copy differs from that second read, or INSERTs the copy when  *)
(* the row is gone.                                                        *)
(***************************************************************************)
EXTENDS Integers, FiniteSets

CONSTANTS
  Staff,
  Request,   \* bound: how many requests run at once
  RnrLimit,  \* the 5 of rnr5Release; higher counts are like it
  Mishaps,   \* which of "crash" and "delete" happen in between
  None       \* NULL

ASSUME RnrAssumption == RnrLimit \in Nat \ {0}
ASSUME MishapAssumption == Mishaps \subseteq {"crash", "delete"}
ASSUME NoneAssumption == None \notin Staff /\ None \notin Request

VARIABLES
  exists,  \* the leads table has the row
  row,     \* its committed columns
  trail,   \* to_user_id of the lead's latest routing_histories row, or
           \* the owner it was created with
  locked,  \* the claim that has updated the row and not yet committed
  req,     \* [Request -> record]
  orderly  \* history: requests came one after the other and completed

vars == <<exists, row, trail, locked, req, orderly>>

Column == {"owner", "department", "status", "rnr"}

(* "visited" stands for SALES_PIPELINE_STATUSES, "open" for the statuses   *)
(* before the site visit.                                                  *)
Row == [owner      : Staff \union {None},
        department : {"telecalling", "sales"},
        status     : {"open", "visited", "Converted"},
        rnr        : 0..RnrLimit]

NewLead == [owner |-> None, department |-> "telecalling", status |-> "open", rnr |-> 0]

HistoryEvent == {"Claimed", "Assigned", "Returned to Queue", "Auto-unassigned",
                 "Converted", "Auto-transferred"}

(* entity is the lead in memory, changed; owner the owner it was read      *)
(* with; event the history row to write, "none" if there is none.          *)
RequestState ==
  [at     : {"idle", "save", "update", "insert", "history", "claimed"},
   event  : HistoryEvent \union {"none"},
   entity : Row,
   dirty  : SUBSET Column,
   by     : Staff \union {None}]

IdleRequest == [at |-> "idle", event |-> "none", entity |-> NewLead, dirty |-> {}, by |-> None]

At(q, step) == req[q].at = step
Becomes(q, state) == req' = [req EXCEPT ![q] = state]
Goto(q, step) == req' = [req EXCEPT ![q].at = step]
Done(q) == Becomes(q, IdleRequest)

(* A request begins: is it the only one?                                   *)
Begins(q) ==
  /\ At(q, "idle") /\ exists
  /\ orderly' = (orderly /\ \A p \in Request \ {q} : At(p, "idle"))

-----------------------------------------------------------------------------
(* claimLead: one transaction.                                             *)

(* Mutant: claiming looks for an owner without the row lock.               *)
ClaimsUnlocked(q, s) ==
  /\ Begins(q)
  /\ row.owner = None
  /\ locked' = q
  /\ Becomes(q, [IdleRequest EXCEPT !.at = "claimed", !.by = s])
  /\ UNCHANGED <<exists, row, trail>>

(* UPDATE ... WHERE assigned_staff_id IS NULL; the row is locked.          *)
Claim(q, s) ==
  /\ locked = None
  /\ ClaimsUnlocked(q, s)

ClaimCommits(q) ==
  /\ At(q, "claimed")
  /\ row' = [row EXCEPT !.owner = req[q].by]
  /\ trail' = req[q].by
  /\ locked' = None
  /\ Done(q)
  /\ UNCHANGED <<exists, orderly>>

(* A notification or another statement of the transaction fails.           *)
ClaimFails(q) ==
  /\ At(q, "claimed")
  /\ locked' = None
  /\ Done(q)
  /\ UNCHANGED <<exists, row, trail, orderly>>

-----------------------------------------------------------------------------
(* Requests that read and save.                                            *)

(* findOne, and the changes to the entity.                                 *)
Read(q, event, entity) ==
  /\ Begins(q)
  /\ Becomes(q, [IdleRequest EXCEPT !.at = "save", !.event = event, !.entity = entity])
  /\ UNCHANGED <<exists, row, trail, locked>>

AssignLead(q, s) == Read(q, "Assigned", [row EXCEPT !.owner = s])

ReturnToQueue(q) == Read(q, "Returned to Queue", [row EXCEPT !.owner = None])

Rnr5Release(q) ==
  /\ row.rnr >= RnrLimit
  /\ Read(q, "Auto-unassigned", [row EXCEPT !.owner = None, !.rnr = 0])

ConvertLead(q) ==
  Read(q, "Converted", [row EXCEPT !.owner = None, !.status = "Converted"])

SetsStatus(q, status) == Read(q, "none", [row EXCEPT !.status = status])

(* A status at or past the site visit moves a telecalling lead to Sales.   *)
UpdateLeadStatus(q, status) ==
  IF status = "visited" /\ row.department # "sales"
  THEN Read(q, "Auto-transferred", [row EXCEPT !.status = status, !.department = "sales"])
  ELSE SetsStatus(q, status)

SiteVisitComplete(q) ==
  /\ row.department = "telecalling" /\ row.status = "visited"
  /\ Read(q, "Auto-transferred", [row EXCEPT !.department = "sales"])

(* addFollowUp: an RNR call sets the count, any other call resets it.      *)
AddFollowUp(q, count) ==
  /\ count > 0 \/ row.rnr > 0
  /\ Read(q, "none", [row EXCEPT !.rnr = count])

Differing(q) == {c \in Column : req[q].entity[c] # row[c]}

(* save, first half: the row is read again.                                *)
SaveReads(q) ==
  /\ At(q, "save")
  /\ IF exists
     THEN Becomes(q, [req[q] EXCEPT !.at = "update", !.dirty = Differing(q)])
     ELSE Goto(q, "insert")
  /\ UNCHANGED <<exists, row, trail, locked, orderly>>

(* Of the copy the history takes the owner.                                *)
ToHistory(q) ==
  Becomes(q, [IdleRequest EXCEPT !.at = "history", !.event = req[q].event,
                                 !.entity = [NewLead EXCEPT !.owner = req[q].entity.owner]])

(* A transfer writes its history in the transaction of the save, with the  *)
(* owner its copy has; the others write theirs after it.                   *)
AfterSave(q) ==
  IF req[q].event = "Auto-transferred"
  THEN /\ trail' = req[q].entity.owner
       /\ Done(q)
  ELSE /\ IF req[q].event = "none" THEN Done(q) ELSE ToHistory(q)
       /\ UNCHANGED trail

(* save, second half: UPDATE by id, if anything differs, and the history   *)
(* of a transfer.  Both wait for a claim to commit.                        *)
SaveUpdates(q) ==
  /\ At(q, "update") /\ exists
  /\ req[q].dirty # {} \/ req[q].event = "Auto-transferred" => locked = None
  /\ row' = [c \in Column |-> IF c \in req[q].dirty THEN req[q].entity[c] ELSE row[c]]
  /\ AfterSave(q)
  /\ UNCHANGED <<exists, locked, orderly>>

SaveInserts(q) ==
  /\ At(q, "insert") /\ ~exists
  /\ exists' = TRUE
  /\ row' = req[q].entity
  /\ AfterSave(q)
  /\ UNCHANGED <<locked, orderly>>

(* The row was deleted since (the UPDATE finds nothing, the foreign key of *)
(* the history no lead), or somebody else inserted it (duplicate key).     *)
SaveFails(q) ==
  /\ \/ At(q, "update") /\ ~exists
     \/ At(q, "insert") /\ exists
     \/ At(q, "history") /\ ~exists
  /\ Done(q)
  /\ UNCHANGED <<exists, row, trail, locked, orderly>>

(* Mutant: the history of a release keeps the owner who released.          *)
HistoryKeepsOwner(q) ==
  /\ At(q, "history") /\ exists /\ locked = None
  /\ trail' = IF req[q].event = "Auto-unassigned" THEN trail ELSE req[q].entity.owner
  /\ Done(q)
  /\ UNCHANGED <<exists, row, locked, orderly>>

(* The insert needs the lead's row, not its owner.                         *)
WriteHistory(q) ==
  /\ At(q, "history") /\ exists /\ locked = None
  /\ trail' = req[q].entity.owner
  /\ Done(q)
  /\ UNCHANGED <<exists, row, locked, orderly>>

(* deleteLead; the history goes with the lead.                             *)
DeleteLead ==
  /\ "delete" \in Mishaps
  /\ exists /\ locked = None
  /\ exists' = FALSE
  /\ trail' = None
  /\ orderly' = FALSE
  /\ UNCHANGED <<row, locked, req>>

(* The container stops: what was committed stays, a claim is rolled back.  *)
Crash(q) ==
  /\ "crash" \in Mishaps
  /\ req[q].at \in {"save", "update", "insert", "history"}
  /\ Done(q)
  /\ orderly' = FALSE
  /\ UNCHANGED <<exists, row, trail, locked>>

-----------------------------------------------------------------------------
Init ==
  /\ exists = TRUE
  /\ \E s \in Staff \union {None} : row = [NewLead EXCEPT !.owner = s]
  /\ trail = row.owner
  /\ locked = None
  /\ req = [q \in Request |-> IdleRequest]
  /\ orderly = TRUE

Ask(q) ==
  \/ \E s \in Staff : Claim(q, s) \/ AssignLead(q, s)
  \/ ReturnToQueue(q) \/ Rnr5Release(q) \/ ConvertLead(q) \/ SiteVisitComplete(q)
  \/ \E status \in {"open", "visited"} : UpdateLeadStatus(q, status)
  \/ \E count \in 0..RnrLimit : AddFollowUp(q, count)

Proceed(q) ==
  \/ ClaimCommits(q) \/ ClaimFails(q)
  \/ SaveReads(q) \/ SaveUpdates(q) \/ SaveInserts(q) \/ SaveFails(q)
  \/ WriteHistory(q)

Next ==
  \/ \E q \in Request : Ask(q) \/ Proceed(q) \/ Crash(q)
  \/ DeleteLead

Spec == Init /\ [][Next]_vars

TypeOK ==
  /\ exists \in BOOLEAN
  /\ row \in Row
  /\ trail \in Staff \union {None}
  /\ locked \in Request \union {None}
  /\ req \in [Request -> RequestState]
  /\ orderly \in BOOLEAN

AtRest == \A q \in Request : At(q, "idle")

(* A claim succeeds only on a lead nobody owns, whatever assigns, saves or *)
(* other claims run at the same time (claimLead).                          *)
ClaimTakesUnowned ==
  [][\A q \in Request : ClaimCommits(q) => row.owner = None]_vars

(* As long as requests come one after the other and complete, the latest   *)
(* history row names the owner whenever none is running, transfers and     *)
(* status changes included (assignLead, returnToQueue, rnr5Release,        *)
(* convertLead, transferLeadToSales).                                      *)
TrailNamesOwner == orderly /\ AtRest => exists /\ trail = row.owner

-----------------------------------------------------------------------------
(* What a comment says, and the code does not keep.                        *)

Saves(q, event) == req[q].event = event /\ SaveUpdates(q)

(* transfer-to-sales.ts:8: a lead moves to Sales "without touching its     *)
(* owner", so a lead "already handed to a sales person keeps that person". *)
TransferKeepsOwner ==
  [][\A q \in Request : Saves(q, "Auto-transferred") => row'.owner = row.owner]_vars

=============================================================================
