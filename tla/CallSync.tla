------------------------------ MODULE CallSync ------------------------------
(***************************************************************************)
(* What the call logger's phones send (syncCallLogs and                    *)
(* recordDeviceHeartbeat of contact-logs.service.ts): batches of calls,    *)
(* each logged with the record whose number it was, and reports of how the *)
(* phone is doing.                                                         *)
(***************************************************************************)
EXTENDS Integers, Sequences, FiniteSets

CONSTANTS
  Call,       \* calls, by their source ids
  Books,      \* the log tables, in the order the pre-check reads them
  Sync,       \* bound: how many batches are under way at once
  MaxReports, \* bound on the reports
  NoBook      \* the number matches no record, or a colleague's, or too late a one

ASSUME BooksAssumption ==
  /\ Books \in Seq({Books[i] : i \in DOMAIN Books}) /\ Books # <<>>
  /\ NoBook \notin {Books[i] : i \in DOMAIN Books}
ASSUME CallAssumption == IsFiniteSet(Call)
ASSUME MaxReportsAssumption == MaxReports \in Nat

VARIABLES
  match,    \* [Call -> Book \cup {NoBook}]: where the call would be logged now
  log,      \* SUBSET (Book \X Call): the committed rows, unique in each table
  acked,    \* the calls whose receipt, accepted or already_synced, has arrived
  sync,     \* [Sync -> record]: batches under way
  counted,  \* history: the sum of the replies' "synced"
  shared,   \* history: calls two batches had under way at once
  moved,    \* history: those of them the two had matched differently
  report,   \* the phone's row of logger_devices
  sending,  \* reports on their way to the database
  clock     \* the time of the latest report

syncVars == <<match, log, acked, sync, counted, shared, moved>>
reportVars == <<report, sending, clock>>
callVars == <<match, log, acked, sync, counted, shared, moved, report, sending, clock>>

Book == {Books[i] : i \in DOMAIN Books}

NoSync == [at |-> "idle", pending |-> {}, existing |-> {}, read |-> 0]

NoReport == [granted |-> FALSE, attempt |-> 0, success |-> 0, result |-> "none"]

CallsInit ==
  /\ match = [c \in Call |-> NoBook]
  /\ log = {}
  /\ acked = {}
  /\ sync = [s \in Sync |-> NoSync]
  /\ counted = 0
  /\ shared = {}
  /\ moved = {}
  /\ report = NoReport
  /\ sending = {}
  /\ clock = 0

-----------------------------------------------------------------------------

(* A record is created, reassigned, given another number, or closed.       *)
Rematch(c, b) ==
  /\ b # match[c]
  /\ match' = [match EXCEPT ![c] = b]
  /\ UNCHANGED <<log, acked, sync, counted, shared, moved>>
  /\ UNCHANGED reportVars

Calls(rows) == {r[2] : r \in rows}

(* The records and the colleagues' numbers are read once for the batch;    *)
(* what matches none is rejected there and then.                           *)
Receive(s, batch) ==
  LET pending == {<<match[c], c>> : c \in {c \in batch : match[c] # NoBook}}
      others  == UNION {sync[o].pending : o \in Sync}
  IN /\ sync[s].at = "idle"
     /\ sync' = [sync EXCEPT ![s] = [NoSync EXCEPT !.at = "check", !.pending = pending]]
     /\ shared' = shared \cup (Calls(pending) \cap Calls(others))
     /\ moved' = moved \cup {c \in Calls(pending) : \E b \in Book \ {match[c]} : <<b, c>> \in others}
     /\ UNCHANGED <<match, log, acked, counted>>
     /\ UNCHANGED reportVars

(* Mutant: a call is looked for in its own record's table only.            *)
CheckOwnBook(s) ==
  LET n == sync[s].read + 1 IN
  /\ sync[s].at = "check"
  /\ sync' = [sync EXCEPT
       ![s].read = IF n = Len(Books) THEN 0 ELSE n,
       ![s].at = IF n = Len(Books) THEN "insert" ELSE "check",
       ![s].existing = @ \cup {r[2] : r \in {r \in sync[s].pending \cap log : r[1] = Books[n]}}]
  /\ UNCHANGED <<match, log, acked, counted, shared, moved>>
  /\ UNCHANGED reportVars

(* findExistingSourceIds: one query per table.                             *)
CheckBook(s) ==
  LET n == sync[s].read + 1 IN
  /\ sync[s].at = "check"
  /\ sync' = [sync EXCEPT
       ![s].read = IF n = Len(Books) THEN 0 ELSE n,
       ![s].at = IF n = Len(Books) THEN "insert" ELSE "check",
       ![s].existing = @ \cup {c \in Calls(sync[s].pending) : <<Books[n], c>> \in log}]
  /\ UNCHANGED <<match, log, acked, counted, shared, moved>>
  /\ UNCHANGED reportVars

(* Mutant: what is there is inserted, and counted, again.                  *)
AllRows(s) == sync[s].pending

NewRows(s) == {r \in sync[s].pending : r[2] \notin sync[s].existing}

(* The five inserts, in one transaction; the receipts, if they arrive.     *)
Insert(s) ==
  /\ sync[s].at = "insert"
  /\ log' = log \cup NewRows(s)
  /\ counted' = counted + Cardinality(NewRows(s))
  /\ acked' \in {acked, acked \cup Calls(sync[s].pending)}
  /\ sync' = [sync EXCEPT ![s] = NoSync]
  /\ UNCHANGED <<match, shared, moved>>
  /\ UNCHANGED reportVars

(* The transaction is rolled back and the request fails, or it is lost.    *)
SyncFails(s) ==
  /\ sync[s].at # "idle"
  /\ sync' = [sync EXCEPT ![s] = NoSync]
  /\ UNCHANGED <<match, log, acked, counted, shared, moved>>
  /\ UNCHANGED reportVars

-----------------------------------------------------------------------------

(* result as the phone's row keeps it: the event without "sync_".          *)
Result == {"started", "success", "error", "permission_denied", "none"}

(* The server takes the time of a report before it asks for a connection.  *)
Report(result, granted) ==
  /\ clock < MaxReports
  /\ clock' = clock + 1
  /\ sending' = sending \cup {[at |-> clock + 1, result |-> result, granted |-> granted]}
  /\ UNCHANGED report
  /\ UNCHANGED syncVars

(* Mutant: only the beginning of a sync is an attempt.                     *)
AttemptsBegun(row, r) ==
  [granted |-> r.granted,
   attempt |-> IF r.result = "started" THEN r.at ELSE row.attempt,
   success |-> IF r.result = "success" THEN r.at ELSE row.success,
   result  |-> IF r.result = "none" THEN row.result ELSE r.result]

(* The upsert, whose CASEs keep what the report does not speak of.         *)
Recorded(row, r) ==
  [granted |-> r.granted,
   attempt |-> IF r.result \in {"started", "success", "error"} THEN r.at ELSE row.attempt,
   success |-> IF r.result = "success" THEN r.at ELSE row.success,
   result  |-> IF r.result = "none" THEN row.result ELSE r.result]

Record(r) ==
  /\ report' = Recorded(report, r)
  /\ sending' = sending \ {r}
  /\ UNCHANGED clock
  /\ UNCHANGED syncVars

(* getLoggerDevices, for a phone whose times are all within the hour.      *)
Health(row) ==
  IF ~row.granted THEN "permission_required"
  ELSE IF row.result = "error" THEN "sync_error"
  ELSE IF row.success > 0 /\ row.result = "success" THEN "healthy"
  ELSE "awaiting_sync"

SyncNext ==
  \/ \E c \in Call, b \in Book \cup {NoBook} : Rematch(c, b)
  \/ \E s \in Sync : CheckBook(s) \/ Insert(s) \/ SyncFails(s)
                     \/ \E batch \in SUBSET Call : Receive(s, batch)

ReportNext ==
  \/ \E result \in Result, granted \in BOOLEAN : Report(result, granted)
  \/ \E r \in sending : Record(r)

CallsNext == SyncNext \/ ReportNext

CallsSpec == CallsInit /\ [][CallsNext]_callVars

-----------------------------------------------------------------------------

Logged(c) == {b \in Book : <<b, c>> \in log}

(* "so the client checkpoint ... never diverges" (syncCallLogs): a call    *)
(* whose receipt let the phone forget it is in the log, whatever failed,   *)
(* was sent again, or was reassigned meanwhile.                            *)
AckedIsLogged == \A c \in acked : Logged(c) # {}

(* A call is logged with one record only, though each table is unique by   *)
(* itself: a batch sent again finds it wherever the first one put it.      *)
(* Unless two batches matched it differently while both were under way.    *)
LoggedOnce == \A c \in Call \ moved : Cardinality(Logged(c)) <= 1

(* Both: what a receipt promises is there, and there once.                 *)
AckedLoggedOnce == AckedIsLogged /\ LoggedOnce

(* "every row in `values` is a genuine new insert" (insertCallLogs): the   *)
(* replies count each logged row once, as long as no call is under way     *)
(* twice.                                                                  *)
CountsWhatItLogs == shared = {} => counted = Cardinality(log)

(* A phone shown as healthy has not begun, or failed, another sync since   *)
(* the one that succeeded, in whatever order its reports were written.     *)
HealthyMeansSynced == Health(report) = "healthy" => report.attempt = report.success

=============================================================================
