---------------------------- MODULE PropertyForm ----------------------------
(***************************************************************************)
(* Several staff edit one property (PropertyForm.tsx,                      *)
(* property-form-draft.ts): each in a form of a tab of theirs, with a      *)
(* draft in localStorage and a save that carries the version it started    *)
(* from.  The site backend, behind properties.service.ts, checks it.       *)
(*                                                                         *)
(* Each edit types a value of its own, numbered in the order of typing; a  *)
(* form fills nothing in by itself once it shows, so that                  *)
(* syncBaselineIfUntouched finds nothing to do.                            *)
(***************************************************************************)
EXTENDS Naturals

CONSTANTS
  Author,    \* staff, who have one tab each
  Entry,     \* fields of the form
  MaxTyped,  \* bound on the edits
  MaxSaves   \* bound: no save begins once the property was saved so often

ASSUME MaxTypedAssumption == MaxTyped \in Nat
ASSUME MaxSavesAssumption == MaxSaves \in Nat

VARIABLES
  record,  \* the property at the site backend: value of each field, version
  form,    \* [Author -> record]: the form that is open
  paper,   \* [Author -> record]: the draft in localStorage
  flight,  \* [Author -> record]: the save under way; ours: its form is the open one
  typed,   \* history: edits so far
  owed     \* history: [Author -> SUBSET (Entry \X Nat)]: what a settled form had that was
           \* typed, with no save under way, and neither undone, given up nor saved since

formVars == <<record, form, paper, flight, typed, owed>>

Original == [f \in Entry |-> 0]

NoForm == [at |-> "closed", data |-> Original, base |-> Original, version |-> 0, offer |-> FALSE]
NoPaper == [there |-> FALSE, data |-> Original, base |-> Original, version |-> 0]
NoFlight == [at |-> "none", data |-> Original, version |-> 0, ours |-> FALSE]

FormInit ==
  /\ record = [value |-> Original, version |-> 0]
  /\ form = [s \in Author |-> NoForm]
  /\ paper = [s \in Author |-> NoPaper]
  /\ flight = [s \in Author |-> NoFlight]
  /\ typed = 0
  /\ owed = [s \in Author |-> {}]

-----------------------------------------------------------------------------

(* saveDraft: what it leaves in localStorage.                              *)
SavedDraft(s) ==
  IF form[s].at \in {"closed", "blank"} \/ form[s].offer THEN paper[s]
  ELSE IF form[s].data = form[s].base THEN NoPaper
  ELSE [there |-> TRUE, data |-> form[s].data, base |-> form[s].base, version |-> form[s].version]

(* isDraftOutdated, and reviewDraft: saved data wins.                      *)
Outdated(d, version) == d.version # version

Merged(d, now) ==
  [f \in Entry |-> IF d.data[f] # d.base[f] /\ now[f] \in {d.base[f], d.data[f]}
                     THEN d.data[f] ELSE now[f]]

(* The page reads the property; what it then shows is what edits are       *)
(* measured against, from when the form has settled.                       *)
OpenForm(s) ==
  /\ form[s].at = "closed"
  /\ form' = [form EXCEPT ![s] = [NoForm EXCEPT !.at = "blank", !.data = record.value,
                                                !.base = record.value,
                                                !.version = record.version]]
  /\ UNCHANGED <<record, paper, flight, typed, owed>>

(* What is on the form, not as it was and not saved, no save being under   *)
(* way.                                                                    *)
Edits(s) ==
  LET data == form[s].data
  IN IF flight[s].at \in {"none", "deaf"}
       THEN {<<f, data[f]>> : f \in {f \in Entry : data[f] \notin {form[s].base[f], record.value[f]}}}
       ELSE {}

(* 400 ms after it shows, which somebody may have typed in, the form has   *)
(* settled: the draft is offered for what the form was when it showed, or  *)
(* thrown away, with a word to the user if somebody has saved since.       *)
Settle(s) ==
  LET base  == form[s].base
      usual == paper[s].there /\ ~Outdated(paper[s], form[s].version)
      offer == usual /\ Merged(paper[s], base) # base
      kept  == IF paper[s].there /\ ~usual THEN {} ELSE owed[s]
  IN /\ form[s].at = "blank"
     /\ form' = [form EXCEPT ![s].at = "open", ![s].offer = offer]
     /\ paper' = IF offer THEN paper ELSE [paper EXCEPT ![s] = NoPaper]
     /\ owed' = [owed EXCEPT ![s] = IF offer THEN kept ELSE kept \cup Edits(s)]
     /\ UNCHANGED <<record, flight, typed>>

(* The form becomes what the dialog was made of.                           *)
RestoreDraft(s) ==
  /\ form[s].offer
  /\ form' = [form EXCEPT ![s].offer = FALSE, ![s].data = Merged(paper[s], form[s].base)]
  /\ UNCHANGED <<record, paper, flight, typed, owed>>

DiscardDraft(s) ==
  /\ form[s].offer
  /\ form' = [form EXCEPT ![s].offer = FALSE]
  /\ paper' = [paper EXCEPT ![s] = NoPaper]
  /\ owed' = [owed EXCEPT ![s] = Edits(s)]
  /\ UNCHANGED <<record, flight, typed>>

Forgotten(s, f) == {o \in owed[s] : o[1] # f}

(* Fields can be edited from when the form shows, also while a save runs;  *)
(* what is typed meanwhile goes with the redirect when the save works.     *)
Type(s, f) ==
  /\ form[s].at \in {"blank", "open", "saving"}
  /\ ~form[s].offer
  /\ typed < MaxTyped
  /\ typed' = typed + 1
  /\ form' = [form EXCEPT ![s].data[f] = typed + 1]
  /\ owed' = [owed EXCEPT ![s] = Forgotten(s, f) \cup
       IF form[s].at = "open" /\ flight[s].at \in {"none", "deaf"} THEN {<<f, typed + 1>>} ELSE {}]
  /\ UNCHANGED <<record, paper, flight>>

Undo(s, f) ==
  /\ form[s].at \in {"blank", "open"}
  /\ ~form[s].offer
  /\ form[s].data[f] # form[s].base[f]
  /\ form' = [form EXCEPT ![s].data[f] = form[s].base[f]]
  /\ owed' = [owed EXCEPT ![s] = Forgotten(s, f)]
  /\ UNCHANGED <<record, paper, flight, typed>>

(* 800 ms after a render.                                                  *)
Autosave(s) ==
  /\ paper' = [paper EXCEPT ![s] = SavedDraft(s)]
  /\ UNCHANGED <<record, form, flight, typed, owed>>

-----------------------------------------------------------------------------

Unheard(save) ==
  IF save.at \in {"sent", "deaf"} THEN [save EXCEPT !.at = "deaf", !.ours = FALSE] ELSE NoFlight

(* Mutant: what the last autosave had not yet is not flushed.              *)
LeavesUnsaved(s) ==
  /\ form[s].at # "closed"
  /\ form' = [form EXCEPT ![s] = NoForm]
  /\ \/ flight' = [flight EXCEPT ![s].ours = FALSE]
     \/ flight' = [flight EXCEPT ![s] = Unheard(@)]
  /\ UNCHANGED <<record, paper, typed, owed>>

(* The form is left with the draft flushed: within the app, where the save *)
(* under way goes on; with the tab, the conflict dialog's reload included, *)
(* where nobody waits for its reply any more.                              *)
Leave(s) ==
  /\ form[s].at # "closed"
  /\ paper' = [paper EXCEPT ![s] = SavedDraft(s)]
  /\ form' = [form EXCEPT ![s] = NoForm]
  /\ \/ flight' = [flight EXCEPT ![s].ours = FALSE]
     \/ flight' = [flight EXCEPT ![s] = Unheard(@)]
  /\ UNCHANGED <<record, typed, owed>>

(* leaveDiscarding.                                                        *)
LeaveDiscarding(s) ==
  /\ form[s].at = "open"
  /\ ~form[s].offer
  /\ form[s].data # form[s].base
  /\ paper' = [paper EXCEPT ![s] = NoPaper]
  /\ form' = [form EXCEPT ![s] = NoForm]
  /\ owed' = [owed EXCEPT ![s] = {}]
  /\ UNCHANGED <<record, flight, typed>>

(* The browser dies: what was not yet in the draft is lost.                *)
Killed(s) ==
  /\ form[s].at # "closed"
  /\ form' = [form EXCEPT ![s] = NoForm]
  /\ flight' = [flight EXCEPT ![s] = Unheard(@)]
  /\ owed' = [owed EXCEPT ![s] =
       {o \in @ : paper[s].there /\ paper[s].data[o[1]] = o[2]}]
  /\ UNCHANGED <<record, paper, typed>>

Submit(s) ==
  /\ form[s].at = "open"
  /\ ~form[s].offer
  /\ flight[s].at = "none"
  /\ record.version < MaxSaves
  /\ flight' = [flight EXCEPT ![s] = [at |-> "sent", data |-> form[s].data,
                                      version |-> form[s].version, ours |-> TRUE]]
  /\ form' = [form EXCEPT ![s].at = "saving"]
  /\ UNCHANGED <<record, paper, typed, owed>>

(* Mutant: the version is not checked.                                     *)
AcceptedAlways(s) == TRUE

(* The version is checked inside the save: 409, nothing overwritten.       *)
Accepted(s) == flight[s].version = record.version

Answered(s, how) ==
  flight' = [flight EXCEPT ![s] = IF @.at = "deaf" THEN NoFlight
                                  ELSE [NoFlight EXCEPT !.at = how, !.ours = flight[s].ours]]

Arrive(s) ==
  /\ flight[s].at \in {"sent", "deaf"}
  /\ IF Accepted(s)
       THEN /\ record' = [value |-> flight[s].data, version |-> record.version + 1]
            /\ owed' = [a \in Author |-> {o \in owed[a] : flight[s].data[o[1]] # o[2]}]
            /\ Answered(s, "ok") \/ Answered(s, "failed")
       ELSE Answered(s, "conflict") /\ UNCHANGED <<record, owed>>
  /\ UNCHANGED <<form, paper, typed>>

GetLost(s) ==
  /\ flight[s].at \in {"sent", "deaf"}
  /\ Answered(s, "failed")
  /\ UNCHANGED <<record, form, paper, typed, owed>>

(* The reply: a save that failed, or met a conflict, leaves the form as it *)
(* is; one that worked clears the draft and goes to the list, from         *)
(* whatever page is shown by then.                                         *)
ReplySaved(s) ==
  /\ flight[s].at = "ok"
  /\ paper' = [paper EXCEPT ![s] =
       IF flight[s].ours \/ form[s].at = "closed" THEN NoPaper
       ELSE IF form[s].at = "blank" \/ form[s].offer THEN NoPaper
       ELSE SavedDraft(s)]
  /\ form' = [form EXCEPT ![s] = NoForm]
  /\ flight' = [flight EXCEPT ![s] = NoFlight]
  /\ UNCHANGED <<record, typed, owed>>

ReplyRefused(s) ==
  /\ flight[s].at \in {"conflict", "failed"}
  /\ form' = IF flight[s].ours THEN [form EXCEPT ![s].at = "open"] ELSE form
  /\ flight' = [flight EXCEPT ![s] = NoFlight]
  /\ UNCHANGED <<record, paper, typed, owed>>

FormNext ==
  \E s \in Author :
    \/ OpenForm(s) \/ Settle(s) \/ RestoreDraft(s) \/ DiscardDraft(s) \/ Autosave(s)
    \/ \E f \in Entry : Type(s, f) \/ Undo(s, f)
    \/ Leave(s) \/ LeaveDiscarding(s) \/ Killed(s)
    \/ Submit(s) \/ Arrive(s) \/ GetLost(s) \/ ReplySaved(s) \/ ReplyRefused(s)

FormSpec == FormInit /\ [][FormNext]_formVars

-----------------------------------------------------------------------------

(* "Unsaved property edits are kept in localStorage so a refresh or an     *)
(* accidental navigation loses nothing" (property-form-draft.ts): what was *)
(* typed and still on the form when it has settled, or later, stays on the *)
(* form, or in the draft, or is saved, until its author undoes it or gives *)
(* it up.                                                                  *)
NothingTypedIsLost ==
  \A s \in Author : \A o \in owed[s] :
    \/ (form[s].at # "closed" /\ form[s].data[o[1]] = o[2])
    \/ (paper[s].there /\ paper[s].data[o[1]] = o[2])

(* "Never saves over a newer save by someone else" (submit): no field goes *)
(* back to what was typed before the value it has, by whatever drafts,     *)
(* conflicts and saves whose reply was lost.                               *)
NoSaveGoesBack ==
  [][\A f \in Entry : record'.value[f] >= record.value[f]]_formVars

=============================================================================
