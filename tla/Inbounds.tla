------------------------------ MODULE Inbounds ------------------------------
(***************************************************************************)
(* One property submission (inbounds.service.ts): whom it is assigned to,  *)
(* whether it waits in the queue, where its location came from, and its    *)
(* floors.  An edit saves its copy of the row: the columns in which the    *)
(* copy differs from the row as save reads it again.  Assigning, the photo *)
(* and the device's late fix are one statement or one locked transaction.  *)
(***************************************************************************)
CONSTANTS
  Staff,
  Editor,  \* bound: how many edits run at once
  Floor,
  Unassigned,  \* NULL
  Absent     \* a field the body of the edit leaves out

ASSUME InboundAssumption == Unassigned \notin Staff /\ Absent \notin Staff \cup {Unassigned}

VARIABLES
  inbound,    \* the row
  floors,     \* its inbound_units
  draft,      \* [Editor -> record]: edits under way
  pinned,     \* history: a photo or an edit has given a location, which no edit has
              \* overwritten with that of an outdated copy
  torn,       \* history: since the latest assignment, an edit wrote back who had the
              \* submission, or that it waited, as its outdated copy had it
  sent,       \* history: the floors of the latest edit to delete the old ones, and of
              \* those that had deleted some by then and inserted none yet
  halved      \* history: one of these has stopped between the two statements

floorVars == <<floors, sent, halved>>
inboundVars == <<inbound, draft, pinned, torn, floorVars>>

InboundColumn == {"staff", "queued", "location"}

(* given: by a photo or by an edit.                                        *)
Location == {"missing", "device", "given"}

(* What an edit asks for, but its floors, which it comes to last; located: *)
(* it gives a location.                                                    *)
Body == [staff : Staff \cup {Unassigned, Absent}, located : BOOLEAN]

NoDraft == [at |-> "idle"]

(* Quick captures wait in the queue; other submissions come with their     *)
(* assignee, if any.                                                       *)
InboundsInit ==
  /\ inbound \in {[staff |-> s, queued |-> q, location |-> "missing"] :
                    s \in Staff \cup {Unassigned}, q \in BOOLEAN}
  /\ inbound.queued => inbound.staff = Unassigned
  /\ floors = {}
  /\ draft = [e \in Editor |-> NoDraft]
  /\ pinned = FALSE
  /\ torn = FALSE
  /\ sent = {}
  /\ halved = FALSE

-----------------------------------------------------------------------------

Keeps(e, record) == draft' = [draft EXCEPT ![e] = record]

(* updateAuthorized: the assignee a form sends along must be the current.  *)
StartEdit(e, body) ==
  /\ draft[e].at = "idle"
  /\ body.staff \in {Absent, inbound.staff}
  /\ Keeps(e, [at |-> "load", body |-> body])
  /\ UNCHANGED <<inbound, pinned, torn, floorVars>>

Changed(row, body) ==
  [row EXCEPT !.staff = IF body.staff = Absent THEN @ ELSE body.staff,
              !.location = IF body.located THEN "given" ELSE @]

LoadEdit(e) ==
  LET body == draft[e].body IN
  /\ draft[e].at = "load"
  /\ Keeps(e, [at |-> "save", copy |-> Changed(inbound, body),
               located |-> body.located])
  /\ UNCHANGED <<inbound, pinned, torn, floorVars>>

Dirty(copy) == {c \in InboundColumn : copy[c] # inbound[c]}

(* save's own read.                                                        *)
SaveEdit(e) ==
  LET d == draft[e] IN
  /\ d.at = "save"
  /\ Keeps(e, [at |-> "write", change |-> [c \in Dirty(d.copy) |-> d.copy[c]],
               located |-> d.located])
  /\ UNCHANGED <<inbound, pinned, torn, floorVars>>

WriteEdit(e, new) ==
  LET d == draft[e] IN
  /\ d.at = "write"
  /\ inbound' = [c \in InboundColumn |->
                   IF c \in DOMAIN d.change THEN d.change[c] ELSE inbound[c]]
  /\ pinned' = IF "location" \in DOMAIN d.change THEN d.located ELSE pinned
  /\ torn' = (torn \/ {"staff", "queued"} \cap DOMAIN d.change # {})
  /\ Keeps(e, IF new = Absent THEN NoDraft ELSE [at |-> "clear", floors |-> new])
  /\ UNCHANGED floorVars

(* Mutant: the floors there are are not deleted.                           *)
NoneDeleted == floors

FloorsLeft == {}

(* Those whose floors are still to come.                                   *)
Filling == {e \in Editor : draft[e].at = "fill"}

(* The floors are replaced when the form sends them: deleted, then saved.  *)
ClearFloors(e) ==
  LET new == draft[e].floors IN
  /\ draft[e].at = "clear"
  /\ floors' = FloorsLeft
  /\ sent' = new \cup UNION {draft[o].floors : o \in Filling}
  /\ halved' = FALSE
  /\ Keeps(e, IF new = {} THEN NoDraft ELSE [at |-> "fill", floors |-> new])
  /\ UNCHANGED <<inbound, pinned, torn>>

FillFloors(e) ==
  /\ draft[e].at = "fill"
  /\ floors' = floors \cup draft[e].floors
  /\ Keeps(e, NoDraft)
  /\ UNCHANGED <<inbound, pinned, torn, sent, halved>>

EditStops(e) ==
  /\ draft[e].at # "idle"
  /\ Keeps(e, NoDraft)
  /\ halved' = (halved \/ draft[e].at = "fill")
  /\ UNCHANGED <<inbound, floors, pinned, torn, sent>>

(* assign: one UPDATE of both columns.                                     *)
Assign(s) ==
  /\ inbound' = [inbound EXCEPT !.staff = s, !.queued = s = Unassigned]
  /\ torn' = FALSE
  /\ UNCHANGED <<draft, pinned, floorVars>>

(* The last part of uploadImage, its locked transaction; the coordinates   *)
(* are the photo's, if it has any.                                         *)
SavePhoto(gps) ==
  /\ inbound' = [inbound EXCEPT !.location = IF gps THEN "given" ELSE @]
  /\ pinned' = (pinned \/ gps)
  /\ UNCHANGED <<draft, torn, floorVars>>

(* Mutant: whatever location there is.                                     *)
SaveLocation ==
  /\ inbound' = [inbound EXCEPT !.location = "device"]
  /\ UNCHANGED <<draft, pinned, torn, floorVars>>

(* One conditional UPDATE.                                                 *)
SaveLocationIfMissing ==
  /\ inbound.location = "missing"
  /\ inbound' = [inbound EXCEPT !.location = "device"]
  /\ UNCHANGED <<draft, pinned, torn, floorVars>>

InboundsNext ==
  \/ \E e \in Editor :
       \/ \E body \in Body : StartEdit(e, body)
       \/ LoadEdit(e) \/ SaveEdit(e)
       \/ \E new \in (SUBSET Floor) \cup {Absent} : WriteEdit(e, new)
       \/ ClearFloors(e) \/ FillFloors(e) \/ EditStops(e)
  \/ \E s \in Staff \cup {Unassigned} : Assign(s)
  \/ \E gps \in BOOLEAN : SavePhoto(gps)
  \/ SaveLocationIfMissing

InboundsSpec == InboundsInit /\ [][InboundsNext]_inboundVars

-----------------------------------------------------------------------------

(* "a delayed device fix must never replace photo GPS or staff edits"      *)
(* (saveLocationIfMissing), whatever edits, photos and fixes cross.        *)
DeviceFixYields == pinned => inbound.location = "given"

(* What waits in the queue is nobody's: an assignment takes it out, or     *)
(* puts it back, whatever edits are under way, until one writes back what  *)
(* its outdated copy had.                                                  *)
QueuedIsUnassigned == ~torn /\ inbound.queued => inbound.staff = Unassigned

(* However edits that replace the floors cross each other: no floor from   *)
(* before the latest deletion is left, and each edit that deleted by then  *)
(* and had not inserted has all its floors in the end, unless one of them  *)
(* stopped between its two statements.                                     *)
FloorsAsSent ==
  /\ floors \subseteq sent
  /\ Filling = {} /\ ~halved => floors = sent

=============================================================================
