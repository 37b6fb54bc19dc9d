---------------------------- MODULE MCMailSystem ----------------------------
(* Instances of MailSystem for TLC. *)
EXTENDS MailSystem, TLC

Symmetry == Permutations(Dispatcher) \union Permutations(Clerk)

Faults(crash, slow, database, retention, delete, suppress) ==
  [k \in FaultKind |->
     CASE k = "crash"     -> crash
       [] k = "slow"      -> slow
       [] k = "database"  -> database
       [] k = "retention" -> retention
       [] k = "delete"    -> delete
       [] k = "suppress"  -> suppress]

MCFaultKind == {"crash", "slow", "database", "retention", "delete", "suppress"}

DraftFaults     == Faults(1, 0, 0, 0, 1, 0)
NoFaults        == Faults(0, 0, 0, 0, 0, 0)
AllFaults       == Faults(1, 1, 1, 0, 0, 1)
CrashFaults     == Faults(1, 0, 0, 0, 0, 0)
RetentionFaults == Faults(1, 0, 0, 1, 1, 0)
=============================================================================
