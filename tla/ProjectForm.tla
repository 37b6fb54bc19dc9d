---------------------------- MODULE ProjectForm ----------------------------
(***************************************************************************)
(* Several staff edit one project (ProjectForm.tsx, project-form-draft.ts, *)
(* projects.service.ts).  Unlike the form of a property, a save sends what *)
(* its author changed, and the project's type, with the revision it        *)
(* started from; the site backend refuses it if one of those was changed   *)
(* since.  Whether it goes by what the body names as changed or by all the *)
(* body has is open: it may do either, each time.                          *)
(*                                                                         *)
(* Each edit types a value of its own, numbered in the order of typing.    *)
(***************************************************************************)
EXTENDS Naturals

CONSTANTS
  Planner,     \* staff, who have one tab each
  Section,     \* what is edited on its own: a field, or the unit of one code
  AlwaysSend,  \* those that are sent though they were not edited
  MaxWritten,  \* bound on the edits
  MaxRevision  \* bound: no save begins once the project was saved so often

ASSUME AlwaysSendAssumption == AlwaysSend \subseteq Section
ASSUME MaxWrittenAssumption == MaxWritten \in Nat
ASSUME MaxRevisionAssumption == MaxRevision \in Nat

VARIABLES
  project,  \* at the site backend: each section's value and the revision that set it, revision
  sheet,    \* [Planner -> record]: the form that is open
  stash,    \* [Planner -> record]: the draft in localStorage
  errand,   \* [Planner -> record]: the save under way; ours: its form is the open one
  written   \* history: edits so far

projectVars == <<project, sheet, stash, errand, written>>

Unwritten == [f \in Section |-> 0]

NoSheet == [at |-> "closed", data |-> Unwritten, base |-> Unwritten, revision |-> 0,
            offer |-> FALSE, restored |-> FALSE, uploading |-> FALSE]
NoStash == [there |-> FALSE, data |-> Unwritten, revision |-> 0]
NoErrand == [at |-> "none", data |-> Unwritten, base |-> Unwritten, revision |-> 0, ours |-> FALSE]

ProjectInit ==
  /\ project = [value |-> Unwritten, since |-> Unwritten, revision |-> 0]
  /\ sheet = [s \in Planner |-> NoSheet]
  /\ stash = [s \in Planner |-> NoStash]
  /\ errand = [s \in Planner |-> NoErrand]
  /\ written = 0

-----------------------------------------------------------------------------

Mounted(s) == sheet[s].at \in {"open", "saving"}
Editable(s) == Mounted(s) /\ ~sheet[s].offer

(* flushDraft.  What was restored carries other row ids than the form was  *)
(* mounted with, and never counts as unedited again.                       *)
FlushedDraft(s) ==
  IF ~Editable(s) THEN stash[s]
  ELSE IF sheet[s].data = sheet[s].base /\ ~sheet[s].restored THEN NoStash
  ELSE [there |-> TRUE, data |-> sheet[s].data, revision |-> sheet[s].revision]

(* Mutant: a draft is restored onto whatever the project is by now.        *)
RestorableAlways(draft, revision) == draft.there

(* canRestoreProjectDraft.                                                 *)
CanRestore(draft, revision) == draft.there /\ draft.revision = revision

(* The page reads the project, and mounts the form when it has it.         *)
OpenProject(s) ==
  /\ sheet[s].at = "closed"
  /\ sheet' = [sheet EXCEPT ![s] = [NoSheet EXCEPT
       !.at = "loading", !.data = project.value, !.base = project.value,
       !.revision = project.revision]]
  /\ UNCHANGED <<project, stash, errand, written>>

(* A draft is offered, or removed, with a word to the user if somebody has *)
(* saved since.                                                            *)
MountForm(s) ==
  LET usable == CanRestore(stash[s], sheet[s].revision)
  IN /\ sheet[s].at = "loading"
     /\ sheet' = [sheet EXCEPT ![s].at = "open", ![s].offer = usable]
     /\ stash' = IF usable THEN stash ELSE [stash EXCEPT ![s] = NoStash]
     /\ UNCHANGED <<project, errand, written>>

RestoreChanges(s) ==
  /\ sheet[s].offer
  /\ sheet' = [sheet EXCEPT ![s].offer = FALSE, ![s].restored = TRUE, ![s].data = stash[s].data]
  /\ UNCHANGED <<project, stash, errand, written>>

KeepSavedVersion(s) ==
  /\ sheet[s].offer
  /\ sheet' = [sheet EXCEPT ![s].offer = FALSE]
  /\ stash' = [stash EXCEPT ![s] = NoStash]
  /\ UNCHANGED <<project, errand, written>>

EnterValue(s, f) ==
  /\ Editable(s)
  /\ written < MaxWritten
  /\ written' = written + 1
  /\ sheet' = [sheet EXCEPT ![s].data[f] = written + 1]
  /\ UNCHANGED <<project, stash, errand>>

UndoValue(s, f) ==
  /\ Editable(s)
  /\ sheet[s].data[f] # sheet[s].base[f]
  /\ sheet' = [sheet EXCEPT ![s].data[f] = sheet[s].base[f]]
  /\ UNCHANGED <<project, stash, errand, written>>

(* A floor plan is uploaded when it is chosen; the form has it when that   *)
(* has worked.                                                             *)
ChooseFloorPlan(s) ==
  /\ Editable(s)
  /\ ~sheet[s].uploading
  /\ written < MaxWritten
  /\ sheet' = [sheet EXCEPT ![s].uploading = TRUE]
  /\ UNCHANGED <<project, stash, errand, written>>

FloorPlanUploaded(s, f) ==
  /\ Mounted(s)
  /\ sheet[s].uploading
  /\ written < MaxWritten
  /\ written' = written + 1
  /\ sheet' = [sheet EXCEPT ![s].uploading = FALSE, ![s].data[f] = written + 1]
  /\ UNCHANGED <<project, stash, errand>>

FloorPlanFailed(s) ==
  /\ Mounted(s)
  /\ sheet[s].uploading
  /\ sheet' = [sheet EXCEPT ![s].uploading = FALSE]
  /\ UNCHANGED <<project, stash, errand, written>>

(* 600 ms after a render.                                                  *)
FlushDraft(s) ==
  /\ stash' = [stash EXCEPT ![s] = FlushedDraft(s)]
  /\ UNCHANGED <<project, sheet, errand, written>>

-----------------------------------------------------------------------------

NobodyWaits(save) ==
  IF save.at \in {"sent", "deaf"} THEN [save EXCEPT !.at = "deaf", !.ours = FALSE] ELSE NoErrand

(* The form goes: with the tab, or its reload from the conflict dialog,    *)
(* the draft is flushed (unless the browser dies) and nobody waits for the *)
(* save under way; within the app the save goes on, and the Back button    *)
(* flushes nothing.                                                        *)
CloseProject(s) ==
  /\ sheet[s].at # "closed"
  /\ sheet' = [sheet EXCEPT ![s] = NoSheet]
  /\ stash' \in {stash, [stash EXCEPT ![s] = FlushedDraft(s)]}
  /\ errand' \in {[errand EXCEPT ![s].ours = FALSE], [errand EXCEPT ![s] = NobodyWaits(@)]}
  /\ UNCHANGED <<project, written>>

(* leaveDiscarding, from the leave dialog.                                 *)
DiscardProject(s) ==
  /\ sheet[s].at = "open"
  /\ ~sheet[s].offer
  /\ sheet[s].data # sheet[s].base \/ sheet[s].restored
  /\ stash' = [stash EXCEPT ![s] = NoStash]
  /\ sheet' = [sheet EXCEPT ![s] = NoSheet]
  /\ errand' = [errand EXCEPT ![s].ours = FALSE]
  /\ UNCHANGED <<project, written>>

(* Bound: one save of each of them is under way at a time, though one that *)
(* left and came back could send another.                                  *)
SubmitProject(s) ==
  /\ sheet[s].at = "open"
  /\ ~sheet[s].offer
  /\ ~sheet[s].uploading
  /\ errand[s].at = "none"
  /\ project.revision < MaxRevision
  /\ errand' = [errand EXCEPT ![s] = [at |-> "sent", data |-> sheet[s].data,
       base |-> sheet[s].base, revision |-> sheet[s].revision, ours |-> TRUE]]
  /\ sheet' = [sheet EXCEPT ![s].at = "saving"]
  /\ UNCHANGED <<project, stash, written>>

Touched(save) == {f \in Section : save.data[f] # save.base[f]}

(* editRequestBody: named are the fields, and the codes of the units, that *)
(* differ from what the form was mounted with.                             *)
ChangedFields(save) == Touched(save)

BodyFields(save) == ChangedFields(save) \cup AlwaysSend

(* The site backend, which goes by what is named, or by all that is there: *)
(* 409, nothing written.                                                   *)
GoesBy(save) == {ChangedFields(save), BodyFields(save)}

Clashes(save, fields) == \E f \in fields : project.since[f] > save.revision

Applied(save, fields) ==
  LET next == project.revision + 1
      Put(old, new) == [f \in Section |-> IF f \in fields THEN new[f] ELSE old[f]]
  IN [value    |-> Put(project.value, save.data),
      since    |-> Put(project.since, [f \in Section |-> next]),
      revision |-> next]

Answers(s, how) ==
  errand' = [errand EXCEPT ![s] = IF @.at = "deaf" THEN NoErrand
                                  ELSE [NoErrand EXCEPT !.at = how, !.ours = errand[s].ours]]

UpdateProject(s) ==
  /\ errand[s].at \in {"sent", "deaf"}
  /\ \E checked, stored \in GoesBy(errand[s]) :
       IF Clashes(errand[s], checked)
         THEN Answers(s, "conflict") /\ UNCHANGED project
         ELSE /\ project' = Applied(errand[s], stored)
              /\ Answers(s, "ok") \/ Answers(s, "failed")
  /\ UNCHANGED <<sheet, stash, written>>

UpdateLost(s) ==
  /\ errand[s].at \in {"sent", "deaf"}
  /\ Answers(s, "failed")
  /\ UNCHANGED <<project, sheet, stash, written>>

(* The draft is removed, and the list is shown, whatever was shown.        *)
ProjectSaved(s) ==
  /\ errand[s].at = "ok"
  /\ stash' = [stash EXCEPT ![s] = NoStash]
  /\ sheet' = [sheet EXCEPT ![s] = NoSheet]
  /\ errand' = [errand EXCEPT ![s] = NoErrand]
  /\ UNCHANGED <<project, written>>

ProjectRefused(s) ==
  /\ errand[s].at \in {"conflict", "failed"}
  /\ sheet' = IF errand[s].ours THEN [sheet EXCEPT ![s].at = "open"] ELSE sheet
  /\ errand' = [errand EXCEPT ![s] = NoErrand]
  /\ UNCHANGED <<project, stash, written>>

ProjectNext ==
  \E s \in Planner :
    \/ OpenProject(s) \/ MountForm(s) \/ RestoreChanges(s) \/ KeepSavedVersion(s) \/ FlushDraft(s)
    \/ \E f \in Section : EnterValue(s, f) \/ UndoValue(s, f) \/ FloorPlanUploaded(s, f)
    \/ ChooseFloorPlan(s) \/ FloorPlanFailed(s) \/ CloseProject(s) \/ DiscardProject(s)
    \/ SubmitProject(s) \/ UpdateProject(s) \/ UpdateLost(s) \/ ProjectSaved(s) \/ ProjectRefused(s)

ProjectSpec == ProjectInit /\ [][ProjectNext]_projectVars

-----------------------------------------------------------------------------

(* "Staff editing other fields or other units of this project at the same  *)
(* time don't block or overwrite each other" (submit), with whatever was   *)
(* left, kept as a draft and restored meanwhile: a save changes only what  *)
(* its author edited, never back to what was typed before the value it     *)
(* has, and is refused only if one of those was changed since.  The        *)
(* project's type, which every save sends, may be refused for, or set,     *)
(* though nobody edited it.                                                *)
SavesKeepOutOfTheWay ==
  [][\A s \in Planner :
       LET save == errand[s]
       IN save.at = "sent" /\ errand'[s].at \in {"ok", "conflict"} =>
            IF errand'[s].at = "conflict"
              THEN \E f \in Touched(save) \cup AlwaysSend : project.since[f] > save.revision
              ELSE \A f \in Section :
                     /\ f \notin Touched(save) \cup AlwaysSend =>
                          project'.value[f] = project.value[f]
                     /\ f \in Touched(save) => project'.value[f] >= project.value[f]]_projectVars

=============================================================================
