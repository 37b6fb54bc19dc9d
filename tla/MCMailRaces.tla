---------------------------- MODULE MCMailRaces ----------------------------
(***************************************************************************)
(* Two races that do not meet, in one run for TLC: of the runs of triggers *)
(* for the mails that staff confirm, while staff use them, and of the      *)
(* containers for those that go out by themselves.  `race' says which; the *)
(* containers set out once the mails are there, which do not expire.       *)
(***************************************************************************)
EXTENDS MCMailSystem

VARIABLE race

RaceInit == Init /\ race \in {"triggers", "containers"}

RaceNext ==
  /\ Next
  /\ UNCHANGED race
  /\ IF race = "triggers" THEN UNCHANGED dispatcherVars ELSE UNCHANGED request
  /\ race = "containers" => \A r \in RowId : outbox'[r].expires = "never"
  /\ UNCHANGED dispatcherVars \/ (edits = 0 /\ TriggersAtRest)
  /\ \A t \in Trigger : trigger'[t].at # "idle" =>
       (trigger'[t].slot \in AutoSlot <=> race = "containers")

RaceSpec == RaceInit /\ [][RaceNext]_<<vars, race>>

RaceSymmetry ==
  Symmetry \union Permutations(Trigger) \union Permutations(Content \ {FirstContent})
=============================================================================
