----------------------------- MODULE TaskMetrics -----------------------------
(***************************************************************************)
(* One staff member's tasks of a month (tasks.service.ts): the counts per  *)
(* week of a metric staff log by hand and of the one that follows the      *)
(* receipts uploaded, and the week's target that is computed from them.    *)
(***************************************************************************)
EXTENDS Integers, FiniteSets

CONSTANTS
  Receipt,
  Clerk,     \* bound: how many requests run at once
  Monthly,   \* the metric's monthly_target
  MaxLogged  \* bound on what is logged by hand

ASSUME MonthlyAssumption == Monthly \in Nat
ASSUME MaxLoggedAssumption == MaxLogged \in Nat

VARIABLES
  week,      \* the current week of the month
  receipts,  \* the task_receipts rows
  used,      \* history: receipts ever uploaded
  uploaded,  \* [Week -> Nat]: achieved_count of receipts_uploaded
  logged,    \* the rows of task_activity_logs
  achieved,  \* [Week -> Nat]: achieved_count of the metric logged by hand
  task,      \* [Clerk -> record]: requests under way
  raced,     \* history: a deletion was overtaken between its read and its save, came
             \* before the count of the upload, or was made twice at once
  cut        \* history: a request stopped half way

taskVars == <<week, receipts, used, uploaded, logged, achieved, task, raced, cut>>

Week == 1..4

Idle == [at |-> "idle"]

TasksInit ==
  /\ week = 1
  /\ receipts = {}
  /\ used = {}
  /\ uploaded = [w \in Week |-> 0]
  /\ logged = 0
  /\ achieved = [w \in Week |-> 0]
  /\ task = [c \in Clerk |-> Idle]
  /\ raced = FALSE
  /\ cut = FALSE

-----------------------------------------------------------------------------

Goes(c, record) == task' = [task EXCEPT ![c] = record]

At(c, where) == task[c].at = where

(* uploadReceipt: the file and the row, then the count, in the week it is  *)
(* by then.                                                                *)
UploadReceipt(c, r) ==
  /\ At(c, "idle")
  /\ r \notin used
  /\ receipts' = receipts \cup {r}
  /\ used' = used \cup {r}
  /\ Goes(c, [at |-> "count"])
  /\ UNCHANGED <<week, uploaded, logged, achieved, raced, cut>>

(* A deletion that has read this week's count and not yet saved it.        *)
Overtaken(c) == \E o \in Clerk \ {c} : At(o, "save") /\ task[o].week = week

(* upsertProgress: one atomic statement.                                   *)
CountReceipt(c) ==
  /\ At(c, "count")
  /\ uploaded' = [uploaded EXCEPT ![week] = @ + 1]
  /\ raced' = (raced \/ Overtaken(c))
  /\ Goes(c, Idle)
  /\ UNCHANGED <<week, receipts, used, logged, achieved, cut>>

(* deleteReceipt: the row is found; its file and it are removed; the count *)
(* of the current week is read, and saved if it is not zero.               *)
DeleteReceipt(c, r) ==
  /\ At(c, "idle")
  /\ r \in receipts
  /\ raced' = (raced \/ \E o \in Clerk : At(o, "remove") /\ task[o].receipt = r)
  /\ Goes(c, [at |-> "remove", receipt |-> r])
  /\ UNCHANGED <<week, receipts, used, uploaded, logged, achieved, cut>>

RemoveReceipt(c) ==
  /\ At(c, "remove")
  /\ receipts' = receipts \ {task[c].receipt}
  /\ Goes(c, [at |-> "read"])
  /\ UNCHANGED <<week, used, uploaded, logged, achieved, raced, cut>>

ReadCount(c) ==
  /\ At(c, "read")
  /\ Goes(c, IF uploaded[week] > 0 THEN [at |-> "save", week |-> week, count |-> uploaded[week]]
             ELSE Idle)
  /\ raced' = (raced \/ (uploaded[week] = 0 /\ \E o \in Clerk : At(o, "count")))
  /\ UNCHANGED <<week, receipts, used, uploaded, logged, achieved, cut>>

(* Mutant: the count is saved as it was read.                              *)
Undiminished(count) == count

Decremented(count) == count - 1

SaveCount(c) ==
  /\ At(c, "save")
  /\ uploaded' = [uploaded EXCEPT ![task[c].week] = Decremented(task[c].count)]
  /\ raced' = (raced \/ \E o \in Clerk \ {c} : At(o, "save") /\ task[o].week = task[c].week)
  /\ Goes(c, Idle)
  /\ UNCHANGED <<week, receipts, used, logged, achieved, cut>>

(* logManualProgress: the activity log, then the upsert.                   *)
LogManualProgress(c) ==
  /\ At(c, "idle")
  /\ logged < MaxLogged
  /\ logged' = logged + 1
  /\ Goes(c, [at |-> "upsert"])
  /\ UNCHANGED <<week, receipts, used, uploaded, achieved, raced, cut>>

UpsertProgress(c) ==
  /\ At(c, "upsert")
  /\ achieved' = [achieved EXCEPT ![week] = @ + 1]
  /\ Goes(c, Idle)
  /\ UNCHANGED <<week, receipts, used, uploaded, logged, raced, cut>>

TaskFails(c) ==
  /\ ~At(c, "idle")
  /\ cut' = TRUE
  /\ Goes(c, Idle)
  /\ UNCHANGED <<week, receipts, used, uploaded, logged, achieved, raced>>

NextWeek ==
  /\ week < 4
  /\ week' = week + 1
  /\ UNCHANGED <<receipts, used, uploaded, logged, achieved, task, raced, cut>>

TasksNext ==
  \/ NextWeek
  \/ \E c \in Clerk :
       \/ \E r \in Receipt : UploadReceipt(c, r) \/ DeleteReceipt(c, r)
       \/ CountReceipt(c) \/ RemoveReceipt(c) \/ ReadCount(c) \/ SaveCount(c)
       \/ LogManualProgress(c) \/ UpsertProgress(c) \/ TaskFails(c)

TasksSpec == TasksInit /\ [][TasksNext]_taskVars

-----------------------------------------------------------------------------

(* computeWeeklyTargets, without overrides: the last week takes the rest.  *)
WeekTarget(w) == IF w < 4 THEN Monthly \div 4 ELSE Monthly - 3 * (Monthly \div 4)

(* Mutant: only the week before is carried on.                             *)
ShortfallOfLastWeek(w) ==
  IF w = week - 1 /\ achieved[w] < WeekTarget(w) THEN WeekTarget(w) - achieved[w] ELSE 0

(* enrichWithProgress: what the weeks before the current one fell short.   *)
Shortfall(w) ==
  IF w < week /\ achieved[w] < WeekTarget(w) THEN WeekTarget(w) - achieved[w] ELSE 0

OverdueAmount == Shortfall(1) + Shortfall(2) + Shortfall(3)

EffectiveTarget == WeekTarget(week) + OverdueAmount

Total(count) == count[1] + count[2] + count[3] + count[4]

AtRest == \A c \in Clerk : At(c, "idle")

(* Each receipt there is counts, however uploads, deletions and weeks      *)
(* follow each other; within the first week nothing else counts.  Only a   *)
(* deletion that raced, or a request cut short, leaves the count off.      *)
ReceiptsCount ==
  AtRest /\ ~raced /\ ~cut =>
    /\ Total(uploaded) >= Cardinality(receipts)
    /\ week = 1 => Total(uploaded) = Cardinality(receipts)

(* No progress without an entry in the activity log to account for it, and *)
(* none lost by requests of the same moment.                               *)
ProgressIsLogged ==
  /\ Total(achieved) <= logged
  /\ AtRest /\ ~cut => Total(achieved) = logged

(* Both: what is shown as done is what was done.                           *)
CountsAreTrue == ReceiptsCount /\ ProgressIsLogged

(* The target shown for the week, with those of the weeks to come, asks    *)
(* for all that is missing of the month: rounding loses nothing, and the   *)
(* shortfall of a week is carried on.                                      *)
TargetsCoverTheMonth ==
  LET later  == (IF week < 2 THEN WeekTarget(2) ELSE 0) + (IF week < 3 THEN WeekTarget(3) ELSE 0)
                + (IF week < 4 THEN WeekTarget(4) ELSE 0)
      before == (IF 1 < week THEN achieved[1] ELSE 0) + (IF 2 < week THEN achieved[2] ELSE 0)
                + (IF 3 < week THEN achieved[3] ELSE 0)
  IN EffectiveTarget + later >= Monthly - before

=============================================================================
