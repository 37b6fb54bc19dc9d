--------------------------- MODULE ConnectionPool ---------------------------
(***************************************************************************)
(* The connections of the CRM database (app.module.ts).  A transaction     *)
(* holds one; claimLead, acceptEvent and acknowledgeEvent take another for *)
(* each statement of the notifications they make inside it                 *)
(* (lead-routing.service.ts, createNotification of                         *)
(* notifications.service.ts); other requests take one at a time.  The pool *)
(* is the driver's: it serves those who wait in their order, and has them  *)
(* wait for as long as it takes.                                           *)
(***************************************************************************)
EXTENDS Naturals, Sequences, FiniteSets

CONSTANTS
  Notifier,   \* the requests that notify inside a transaction
  Plain,      \* the other requests
  PoolSize,   \* connectionLimit
  MaxNotices  \* bound on the statements a request makes for its notifications

ASSUME PoolAssumption ==
  /\ PoolSize \in Nat
  /\ MaxNotices \in Nat
  /\ IsFiniteSet(Notifier)

VARIABLES
  stage,    \* [Notifier \cup Plain -> where the request is]
  notices,  \* [Notifier -> Nat]: the statements still to make
  waiting,  \* the pool's queue
  free      \* the connections nobody holds

poolVars == <<stage, notices, waiting, free>>

PoolInit ==
  /\ stage = [r \in Notifier \cup Plain |-> "idle"]
  /\ notices \in [Notifier -> 0..MaxNotices]
  /\ waiting = <<>>
  /\ free = PoolSize

-----------------------------------------------------------------------------

(* A connection, now or when it is one's turn.                             *)
Turn(now) == IF now = "idle" THEN "first" ELSE "second"

Acquire(r) ==
  IF free > 0
    THEN /\ free' = free - 1
         /\ stage' = [stage EXCEPT ![r] = Turn(@)]
         /\ UNCHANGED waiting
    ELSE /\ waiting' = Append(waiting, r)
         /\ stage' = [stage EXCEPT ![r] = IF @ = "idle" THEN "waits" ELSE "wantsMore"]
         /\ UNCHANGED free

Got(now) == IF now = "waits" THEN "first" ELSE "second"

(* r gives one back, which goes to the first who waits.                    *)
Release(r, next) ==
  IF waiting = <<>>
    THEN /\ free' = free + 1
         /\ stage' = [stage EXCEPT ![r] = next]
         /\ UNCHANGED waiting
    ELSE /\ waiting' = Tail(waiting)
         /\ stage' = [stage EXCEPT ![r] = next, ![Head(waiting)] = Got(@)]
         /\ UNCHANGED free

BeginRequest(r) ==
  /\ stage[r] = "idle"
  /\ Acquire(r)
  /\ UNCHANGED notices

Notify(c) ==
  /\ stage[c] = "first"
  /\ notices[c] > 0
  /\ Acquire(c)
  /\ UNCHANGED notices

(* Mutant: the statement keeps its connection.                             *)
KeepsConnection(c) ==
  /\ stage[c] = "second"
  /\ notices' = [notices EXCEPT ![c] = @ - 1]
  /\ stage' = [stage EXCEPT ![c] = "first"]
  /\ UNCHANGED <<waiting, free>>

Notified(c) ==
  /\ stage[c] = "second"
  /\ notices' = [notices EXCEPT ![c] = @ - 1]
  /\ Release(c, "first")

(* A commit; or, after any failure, a rollback.                            *)
EndTransaction(c) ==
  /\ stage[c] = "first"
  /\ Release(c, "done")
  /\ UNCHANGED notices

EndPlain(r) ==
  /\ stage[r] = "first"
  /\ Release(r, "done")
  /\ UNCHANGED notices

PoolNext ==
  \/ \E r \in Notifier \cup Plain : BeginRequest(r)
  \/ \E c \in Notifier : Notify(c) \/ Notified(c) \/ EndTransaction(c)
  \/ \E r \in Plain : EndPlain(r)

PoolFairness ==
  /\ \A c \in Notifier : WF_poolVars(Notify(c) \/ Notified(c) \/ EndTransaction(c))
  /\ \A r \in Plain : WF_poolVars(EndPlain(r))

PoolSpec == PoolInit /\ [][PoolNext]_poolVars /\ PoolFairness

-----------------------------------------------------------------------------

(* Every connection is held by a transaction that waits for another one.   *)
AllWaitForMore ==
  Cardinality({c \in Notifier : stage[c] = "wantsMore"}) = PoolSize

(* Nobody waits for ever, but for one case: as many transactions as there  *)
(* are connections, each of them with its notifications still to make      *)
(* (claimLead, notifyLeadOwner), hold one each and wait for a second.      *)
(* However requests mix otherwise, all of them come to their end.          *)
RequestsEnd ==
  \A r \in Notifier \cup Plain :
    (stage[r] # "idle") ~> (stage[r] = "done" \/ AllWaitForMore)

=============================================================================
