------------------------------- MODULE MCDesk -------------------------------
(***************************************************************************)
(* The parts of the CRM that staff and their phones work on and that do    *)
(* not meet, as one specification for TLC.  They share no variable and no  *)
(* property relates two of them, so that each behaviour needs to move one  *)
(* only: `area' says which.                                                *)
(*                                                                         *)
(* Neither the row of a submission nor its floors are read to write the    *)
(* other: edits of the one and of the other go separately.  A lead's       *)
(* documents are followed until requests cross or one stops half way,      *)
(* after which nothing is said of them, its visits until an event is lost  *)
(* or two requests that crossed have ended.  Of the staff who edit a       *)
(* property, or a project, one at most has a draft, and saves are of       *)
(* something edited; the others are away while one uploads a floor plan of *)
(* a project or has left the save of it to itself.                         *)
(***************************************************************************)
EXTENDS Accounts, LoggerDevices, CallSync, TaskMetrics, Inbounds, PropertyForm,
        MailAttachments, LeadDocuments, HrImport, ProjectForm, Listings,
        LeadVisits, TLC

CONSTANTS k1, u1, u2, d1, d2, p1, p2, x1, x2

VARIABLE area

deskVars == <<accountVars, deviceVars, callVars, taskVars, inboundVars, formVars, fileVars,
              docVars, importVars, projectVars, listingVars, visitVars, area>>

MCEdit ==
  {[role |-> "Admin", department |-> Same, active |-> Same, password |-> FALSE, keys |-> {k1}],
   [role |-> "Staff", department |-> TRUE, active |-> TRUE, password |-> TRUE, keys |-> {}]}

MCHolder == (d1 :> {u1}) @@ (d2 :> {u2})

MCBooks == <<"leads", "agents">>

DeskInit ==
  /\ AccountsInit /\ DevicesInit /\ CallsInit /\ TasksInit /\ InboundsInit
  /\ FormInit /\ FilesInit /\ DocumentsInit /\ HrInit /\ ProjectInit /\ ListingInit
  /\ VisitsInit
  /\ area \in {"accounts", "devices", "syncs", "reports", "tasks", "inbounds", "floors",
               "forms", "files", "documents", "imports", "projects", "listings",
               "visits"}
  /\ area = "listings" \/ listing.source = "crm"
  /\ area = "inbounds" \/ (inbound.staff = Unassigned /\ ~inbound.queued)

Still(a, vars) == IF area = a THEN TRUE ELSE UNCHANGED vars

FewDrafts ==
  /\ \E s \in Author : \A t \in Author \ {s} : paper'[t] = NoPaper
  /\ \A s \in Author : flight[s].at = "none" /\ flight'[s].at = "sent" =>
       form[s].data # form[s].base

FewVisits ==
  /\ ~lost /\ Cardinality(followUps') <= (IF inTurn' THEN 2 ELSE 3)
  /\ (inTurn /\ ~inTurn') => drafted = open
  /\ inTurn \/ \A q \in Booker : Rests(q) => Rests(q)'

Away(s) == sheet'[s] = NoSheet /\ errand'[s] = NoErrand

FewProjects ==
  /\ \E s \in Planner : \A t \in Planner \ {s} : stash'[t] = NoStash
  /\ \A s \in Planner : errand'[s].at = "sent" => Touched(errand'[s]) # {}
  /\ \A s \in Planner : sheet'[s].uploading \/ errand'[s].at = "deaf" =>
       \A t \in Planner \ {s} : Away(t)

DeskNext ==
  /\ \/ area = "accounts" /\ AccountsNext
     \/ area = "devices" /\ DevicesNext
     \/ area = "syncs" /\ SyncNext
     \/ area = "reports" /\ ReportNext
     \/ area = "tasks" /\ TasksNext
     \/ area = "inbounds" /\ InboundsNext /\ \A e \in Editor : draft'[e].at # "clear"
     \/ area = "floors" /\ InboundsNext /\ inbound' = inbound
     \/ area = "forms" /\ FormNext /\ FewDrafts
     \/ area = "files" /\ FilesNext
     \/ area = "documents" /\ DocumentsNext /\ ~(crossed \/ broken)
     \/ area = "imports" /\ HrNext
     \/ area = "projects" /\ ProjectNext /\ FewProjects
     \/ area = "listings" /\ ListingNext
     \/ area = "visits" /\ VisitsNext /\ FewVisits
  /\ Still("accounts", accountVars) /\ Still("devices", deviceVars)
  /\ IF area \in {"syncs", "reports"} THEN TRUE ELSE UNCHANGED callVars
  /\ IF area \in {"inbounds", "floors"} THEN TRUE ELSE UNCHANGED inboundVars
  /\ Still("tasks", taskVars) /\ Still("forms", formVars) /\ Still("files", fileVars)
  /\ Still("documents", docVars) /\ Still("imports", importVars)
  /\ Still("projects", projectVars) /\ Still("listings", listingVars)
  /\ Still("visits", visitVars)
  /\ UNCHANGED area

DeskSpec == DeskInit /\ [][DeskNext]_deskVars

Symmetry == Permutations({p1, p2}) \cup Permutations({x1, x2})

=============================================================================
