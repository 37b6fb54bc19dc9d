--------------------------- MODULE LocationQueue ---------------------------
(***************************************************************************)
(* The browser's outbox of quick-capture locations                         *)
(* (inbound-location-queue.ts, with the storage and the save of            *)
(* inbound-location.ts and the timer of inbound-location-sync.tsx): an     *)
(* inbound is created at once, and the device's position follows when the  *)
(* fix, the photo and the network allow, unless the photo had one.  The    *)
(* form's part is in inbound/new/page.tsx: it sends the inbound, waits for *)
(* the reply, and only then enqueues, whoever is signed in by then.        *)
(*                                                                         *)
(* One browser tab.  A job in the list and the same job in the snapshot    *)
(* that flush goes through are one object; restore makes new ones.         *)
(***************************************************************************)
EXTENDS Naturals, Sequences, SequencesExt

CONSTANTS
  Submission,  \* quick captures, each by a form of its own
  Person,      \* who may be signed in
  Unknown      \* no position yet; nobody

ASSUME UnknownAssumption == Unknown \notin Person

VARIABLES
  who,       \* identity()
  scope,     \* this.scope
  jobs,      \* this.jobs, a sequence of [id, ready, fix]
  capture,   \* [Submission -> record]: this.captures
  strays,    \* locate() calls of captures that restore has dropped
  flush,     \* the loop of flush(): what is left of its snapshot
  stored,    \* [Person -> jobs]: localStorage
  refused,   \* a store has failed, as with a full or a forbidden localStorage
  dropped,   \* jobs the memory lost before they were stored
  author,    \* [Submission -> Person \cup {Unknown}]: who sent it
  post,      \* the submissions whose POST is under way
  keeper,    \* [Submission -> Person \cup {Unknown}]: in whose list it was put
  photo,     \* the submissions whose photo is still being uploaded
  located,   \* the inbounds that have a location on the server
  calm       \* positions and saves come through, and nobody reloads the page or signs in
             \* as another, from now on

outboxVars == <<jobs, strays, flush, stored, refused, dropped>>
quickVars == <<author, post, keeper, photo, located>>
queueVars == <<who, scope, capture, outboxVars, quickVars, calm>>

NoCapture == [active |-> FALSE, asking |-> FALSE, fix |-> Unknown]
NoFlush == [todo |-> <<>>, stale |-> FALSE]

QueueInit ==
  /\ who \in Person
  /\ scope = Unknown
  /\ jobs = <<>>
  /\ capture = [s \in Submission |-> NoCapture]
  /\ strays = {}
  /\ flush = NoFlush
  /\ stored = [p \in Person |-> <<>>]
  /\ refused = FALSE
  /\ dropped = {}
  /\ author = [s \in Submission |-> Unknown]
  /\ post = {}
  /\ keeper = [s \in Submission |-> Unknown]
  /\ photo = {}
  /\ located = {}
  /\ calm = FALSE

-----------------------------------------------------------------------------

Ids(list) == {list[i].id : i \in DOMAIN list}

(* A form's job is in a list once.                                         *)
JobAt(list, c) == CHOOSE i \in DOMAIN list : list[i].id = c

Without(list, c) == IF c \in Ids(list) THEN RemoveAt(list, JobAt(list, c)) ELSE list

(* restore(), when somebody else has signed in since.                      *)
Switched == scope # who
RestoredJobs ==
  IF Switched THEN [i \in DOMAIN stored[who] |-> [stored[who][i] EXCEPT !.ready = TRUE]]
  ELSE jobs
RestoredCapture == IF Switched THEN [s \in Submission |-> NoCapture] ELSE capture
RestoredStrays ==
  IF Switched THEN strays \cup {<<s, scope>> : s \in {s \in Submission : capture[s].asking}}
  ELSE strays
LostJobs == IF scope = Unknown THEN {} ELSE Ids(jobs) \ (Ids(stored[scope]) \cup located)
RestoredDropped == IF Switched THEN dropped \cup LostJobs ELSE dropped
RestoredFlush == IF Switched /\ flush # NoFlush THEN [flush EXCEPT !.stale = TRUE] ELSE flush

(* Where the loop stands: jobs that cannot be sent are passed over, those  *)
(* of its snapshot that are still in the list being the list's.            *)
Sendable(job, s) == job.ready /\ job.fix # Unknown /\ s = who

Current(job, list, stale) ==
  IF ~stale /\ job.id \in Ids(list) THEN list[JobAt(list, job.id)]
  ELSE job

Rest(todo, list, stale, s) ==
  LET now  == [i \in DOMAIN todo |-> Current(todo[i], list, stale)]
      next == {i \in DOMAIN now : Sendable(now[i], s)}
  IN IF next = {} THEN NoFlush
     ELSE [todo |-> SubSeq(now, CHOOSE i \in next : \A k \in next : i <= k, Len(now)),
           stale |-> stale]

(* flush(), which is already running if there is something left to send.   *)
Flushed(f, list, s) ==
  IF f.todo # <<>> THEN [f EXCEPT !.todo = [i \in DOMAIN @ |-> Current(@[i], list, f.stale)]]
  ELSE Rest(list, list, FALSE, s)

(* request(): of the captures in S, those that neither ask nor know.       *)
Requested(cs, S) ==
  [c \in Submission |->
    IF c \in S /\ ~cs[c].asking /\ cs[c].fix = Unknown
      THEN [cs[c] EXCEPT !.asking = TRUE] ELSE cs[c]]

(* The browser may refuse to store, which the queue takes for done.        *)
Persist(s, list) ==
  \/ stored' = [stored EXCEPT ![s] = list] /\ UNCHANGED refused
  \/ refused' = TRUE /\ UNCHANGED stored

Restores ==
  /\ scope' = who
  /\ strays' = RestoredStrays
  /\ dropped' = RestoredDropped

(* The form opens: startCapture, with a key of its own.                    *)
StartCapture(c) ==
  /\ author[c] = Unknown
  /\ RestoredCapture[c] = NoCapture
  /\ \A p \in Person : <<c, p>> \notin RestoredStrays
  /\ Restores
  /\ jobs' = RestoredJobs
  /\ capture' = Requested([RestoredCapture EXCEPT ![c].active = TRUE], {c})
  /\ flush' = RestoredFlush
  /\ UNCHANGED <<who, stored, refused, quickVars, calm>>

(* The form goes: stopCapture.                                             *)
StopCapture(c) ==
  /\ capture[c].active
  /\ capture' = [capture EXCEPT ![c].active = FALSE]
  /\ UNCHANGED <<who, scope, outboxVars, quickVars, calm>>

(* The form sends the inbound; it goes on to the reply though the form     *)
(* goes, and though another signs in.                                      *)
PostInbound(c) ==
  /\ capture[c].active
  /\ c \notin post
  /\ keeper[c] = Unknown
  /\ author' = [author EXCEPT ![c] = who]
  /\ post' = post \cup {c}
  /\ UNCHANGED <<who, scope, capture, outboxVars, keeper, photo, located, calm>>

(* It is refused, or its reply is lost: the form may send it again.        *)
PostFails(c) ==
  /\ ~calm
  /\ c \in post
  /\ post' = post \ {c}
  /\ UNCHANGED <<who, scope, capture, outboxVars, author, keeper, photo, located, calm>>

(* The reply has come, the inbound goes into the list of whoever is signed *)
(* in; hasPhoto: it waits for one.                                         *)
Enqueue(c, hasPhoto) ==
  LET list == Append(RestoredJobs,
                     [id |-> c, ready |-> ~hasPhoto, fix |-> RestoredCapture[c].fix])
  IN /\ c \in post
     /\ post' = post \ {c}
     /\ keeper' = [keeper EXCEPT ![c] = who]
     /\ photo' = IF hasPhoto THEN photo \cup {c} ELSE photo
     /\ Restores
     /\ jobs' = list
     /\ Persist(who, list)
     /\ capture' = Requested(RestoredCapture, {c})
     /\ flush' = Flushed(RestoredFlush, list, who)
     /\ UNCHANGED <<who, author, located, calm>>

(* The upload ends, well or not; its reply says whether there is a         *)
(* location now.                                                           *)
PhotoFinished(c, hasLocation) ==
  LET left == IF hasLocation THEN Without(jobs, c) ELSE jobs
      list == [i \in DOMAIN left |-> IF left[i].id = c THEN [left[i] EXCEPT !.ready = TRUE]
                                     ELSE left[i]]
  IN /\ c \in photo
     /\ photo' = photo \ {c}
     /\ located' = IF hasLocation THEN located \cup {c} ELSE located
     /\ jobs' = list
     /\ IF scope = Unknown THEN UNCHANGED <<stored, refused>> ELSE Persist(scope, list)
     /\ flush' = Flushed(flush, list, scope)
     /\ UNCHANGED <<who, scope, capture, strays, dropped, author, post, keeper, calm>>

(* Mutant: positions that failed are not asked for again.                  *)
RetriesSaves ==
  /\ Restores
  /\ jobs' = RestoredJobs
  /\ capture' = RestoredCapture
  /\ flush' = Flushed(RestoredFlush, RestoredJobs, who)
  /\ UNCHANGED <<who, stored, refused, quickVars, calm>>

(* On the timer, on focus, when the network is back, or by the toast.      *)
Retry ==
  /\ Restores
  /\ jobs' = RestoredJobs
  /\ capture' = Requested(RestoredCapture,
       {c \in Submission : \/ RestoredCapture[c].active
                           \/ \E i \in DOMAIN RestoredJobs :
                                RestoredJobs[i].id = c /\ RestoredJobs[i].fix = Unknown})
  /\ flush' = Flushed(RestoredFlush, RestoredJobs, who)
  /\ UNCHANGED <<who, stored, refused, quickVars, calm>>

(* locate() resolves; the position is the signed-in person's, if it is     *)
(* still the one who asked.                                                *)
Fixed(c) ==
  [i \in DOMAIN jobs |-> IF jobs[i].id = c THEN [jobs[i] EXCEPT !.fix = who] ELSE jobs[i]]

Located(c) ==
  /\ capture[c].asking
  /\ IF scope = who
       THEN /\ capture' = [capture EXCEPT ![c].asking = FALSE, ![c].fix = who]
            /\ jobs' = Fixed(c)
            /\ Persist(scope, Fixed(c))
            /\ flush' = Flushed(flush, Fixed(c), scope)
       ELSE /\ capture' = [capture EXCEPT ![c].asking = FALSE]
            /\ UNCHANGED <<jobs, stored, refused, flush>>
  /\ UNCHANGED <<who, scope, strays, dropped, quickVars, calm>>

LocateFails(c) ==
  /\ ~calm
  /\ capture[c].asking
  /\ capture' = [capture EXCEPT ![c].asking = FALSE]
  /\ UNCHANGED <<who, scope, outboxVars, quickVars, calm>>

(* The same of a capture dropped meanwhile: its object is not in the map,  *)
(* the jobs of its form may be in the list again.                          *)
StrayLocated(c, p) ==
  /\ <<c, p>> \in strays
  /\ strays' = strays \ {<<c, p>>}
  /\ IF p = who
       THEN /\ jobs' = Fixed(c)
            /\ Persist(scope, Fixed(c))
            /\ flush' = Flushed(flush, Fixed(c), scope)
       ELSE UNCHANGED <<jobs, stored, refused, flush>>
  /\ UNCHANGED <<who, scope, capture, dropped, quickVars, calm>>

(* The PATCH arrives, or not, and its reply too; the job that was sent     *)
(* leaves the list if it is the list's own.                                *)
Saved ==
  LET job  == Head(flush.todo)
      list == IF flush.stale THEN jobs ELSE Without(jobs, job.id)
  IN /\ flush.todo # <<>>
     /\ located' = located \cup {job.id}
     /\ jobs' = list
     /\ Persist(scope, list)
     /\ flush' = Rest(Tail(flush.todo), list, flush.stale, scope)
     /\ UNCHANGED <<who, scope, capture, strays, dropped, author, post, keeper, photo, calm>>

(* Mutant: the job is dropped all the same.                                *)
SaveDrops(arrives) ==
  LET job  == Head(flush.todo)
      list == IF flush.stale THEN jobs ELSE Without(jobs, job.id)
  IN /\ ~calm
     /\ flush.todo # <<>>
     /\ located' = IF arrives THEN located \cup {job.id} ELSE located
     /\ jobs' = list
     /\ Persist(scope, list)
     /\ flush' = Rest(Tail(flush.todo), list, flush.stale, scope)
     /\ UNCHANGED <<who, scope, capture, strays, dropped, author, post, keeper, photo, calm>>

SaveFails(arrives) ==
  LET job == Head(flush.todo)
  IN /\ ~calm
     /\ flush.todo # <<>>
     /\ located' = IF arrives THEN located \cup {job.id} ELSE located
     /\ flush' = Rest(Tail(flush.todo), jobs, flush.stale, scope)
     /\ UNCHANGED <<who, scope, jobs, capture, strays, stored, refused, dropped, author, post, keeper,
                    photo, calm>>

(* Another account: it takes a page of its own, which unmounts the forms.   *)
SignIn(p) ==
  /\ ~calm
  /\ p # who
  /\ who' = p
  /\ capture' = [c \in Submission |-> [capture[c] EXCEPT !.active = FALSE]]
  /\ UNCHANGED <<scope, outboxVars, quickVars, calm>>

(* The page is reloaded, or closed and opened again.  What was sent and     *)
(* not answered is never put in a list.                                    *)
Reload ==
  /\ ~calm
  /\ dropped' = dropped \cup LostJobs
  /\ post' = {}
  /\ scope' = Unknown
  /\ jobs' = <<>>
  /\ capture' = [c \in Submission |-> NoCapture]
  /\ strays' = {}
  /\ flush' = NoFlush
  /\ photo' = {}
  /\ UNCHANGED <<who, stored, refused, author, keeper, located, calm>>

BecomeCalm ==
  /\ ~calm
  /\ calm' = TRUE
  /\ UNCHANGED <<who, scope, capture, outboxVars, quickVars>>

QueueNext ==
  \/ \E c \in Submission :
       \/ StartCapture(c) \/ StopCapture(c) \/ PostInbound(c) \/ PostFails(c)
       \/ \E b \in BOOLEAN : Enqueue(c, b) \/ PhotoFinished(c, b)
       \/ Located(c) \/ LocateFails(c) \/ \E p \in Person : StrayLocated(c, p)
  \/ Retry \/ Saved \/ \E b \in BOOLEAN : SaveFails(b)
  \/ \E p \in Person : SignIn(p)
  \/ Reload \/ BecomeCalm

(* The timer fires, uploads end, and what is asked for comes when all is   *)
(* calm.                                                                   *)
QueueFairness ==
  /\ WF_queueVars(calm /\ (Retry \/ Saved))
  /\ \A c \in Submission :
       /\ WF_queueVars(calm /\ Located(c))
       /\ WF_queueVars(\E b \in BOOLEAN : PhotoFinished(c, b))

QueueSpec == QueueInit /\ [][QueueNext]_queueVars /\ QueueFairness

-----------------------------------------------------------------------------

(* "Outbox lives outside the form so GPS and network retries survive": an   *)
(* inbound without a location is in the stored list it was put in, whatever *)
(* reload, change of account, photo or lost reply comes in between.  Once a *)
(* store has been refused it may be in memory only, and go with it.        *)
NothingForgotten ==
  \A c \in Submission :
    keeper[c] # Unknown /\ c \notin located =>
      \/ c \in Ids(stored[keeper[c]])
      \/ refused /\ c \in dropped
      \/ refused /\ scope = keeper[c] /\ c \in Ids(jobs)

(* Put in another's list, who had signed in before the reply came.         *)
Misplaced == {c \in Submission : keeper[c] \notin {Unknown, author[c]}}

(* "does not attach a prior user's coordinates after an account switch"    *)
(* (inbound-location-queue.test.ts): neither in the list, nor in storage,  *)
(* nor in what is being sent, of an inbound in its author's list.          *)
FixesAreTheAuthors ==
  \A p \in Person :
    \A list \in {stored[p], jobs, flush.todo} :
      \A i \in DOMAIN list :
        list[i].id \notin Misplaced => list[i].fix \in {Unknown, author[list[i].id]}

(* Both: each author's list is complete, with nobody else's positions.     *)
ListsAreTheAuthors == NothingForgotten /\ FixesAreTheAuthors

(* The location arrives in the end, for one who stays signed in, however   *)
(* often what it takes has failed before, unless the list lost the inbound *)
(* for want of a store.                                                    *)
LocationsArrive ==
  \A c \in Submission :
    (calm /\ keeper[c] = who /\ c \notin dropped) ~> (c \in located)

=============================================================================
