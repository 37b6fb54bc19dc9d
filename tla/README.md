# Verification of majestan-crm

Formal models of the majestan-crm backend (`src/crm-backend`, NestJS over
TypeORM and MySQL) and of the parts of its frontend that keep state between
requests (`src/crm-frontend`, Next.js), model-checked with TLC, with theorems
proved by TLAPS.

## 1. The system

The backend is a set of identical containers over one MySQL database. There is
no message broker: components interact through tables, through calls inside a
request, and through in-process domain events (`EventEmitter2.emitAsync`). Two
things run without a request: the mail dispatcher and the mail scheduler, both
driven by `setInterval` in every container. What makes the code hard is

* requests of several staff (and of external callers) on the same row, each a
  sequence of SQL statements, most of them outside a transaction;
* TypeORM: `repo.save(entity)` writes back the columns in which the entity in
  memory differs from a fresh read, unguarded; `repo.update(id, ...)` is an
  UPDATE by id that looks at nothing; only the conditional UPDATEs and the
  `FOR UPDATE` reads protect a decision;
* background work in several containers, crashes between two statements,
  SMTP calls whose outcome is lost, retries.

The frontend is one page per table. Most pages only forward a form; some keep state
that outlives a request: the drafts of the forms of properties and projects (`localStorage`,
shared by the tabs of a browser), the outbox of quick-capture locations, and the lists that fetch
while the user moves on. The properties themselves live in another system,
the site backend, behind `SiteApiService`.

| component | state | operations | talks to | correct when | modules |
|---|---|---|---|---|---|
| **mail** dispatcher, policy, transports | `mail_outbox`, per-container `running`, `lastSendAt`, `lastPurgeAt` | `tick`: expireDrafts, recoverStuck, purgeOldBodies, processBatch, deliver | SMTP server, records, contact logs | a mail goes out once per place in the queue, never after it was withdrawn, and every queued mail is settled | `MailOutbox`, `MailDispatcher`, `MailSystem` |
| **mail** service, triggers, scheduler, composer | `mail_outbox`, `mail_suppressions` | preview, send, confirm, composeSend, cancel, retry, createFromTrigger, suppressions | dispatcher (by rows), domain events | the record's present data are suggested; open drafts of one email no more than runs of triggers that overlap; unique keys | `MailService` |
| mail attachments | `mail_attachments` | upload, remove, claim, filesFor, purges | composeSend, dispatcher | a mail carries exactly the files its composer linked | `MailAttachments` |
| mail templates, registry, rendering | `mail_templates` | edit, reset, render | composer | pure functions and one table | - |
| **lead intake and enquiry events** (leads, lead-routing) | `website_enquiry_events`, `leads`, `lead_inquiries`, `routing_histories`, `notifications` | website and portal intake, convertEvent, acceptEvent, acknowledgeEvent, updateLead, claimLead, assignLead, deleteLead | notifications, mail | an enquiry ends up on exactly one lead, a customer on one lead, none is lost | `EnquiryEvents` |
| **lead routing** | `leads.assigned_staff_id`, department, status, RNR count, `routing_histories` | claimLead, assignLead, convertLead, returnToQueue, siteVisitComplete, rnr5Release, transfer to sales, follow-ups, status | history, notifications | one owner at a time; history names the owner | `LeadRouting` |
| lead enquiries and visits | `lead_inquiries`, `lead_follow_ups` | createLead, convertEvent, acceptEvent, bulkCreateLeads, scheduleVisit, updateLead, updateInquiry, deleteLead | mail triggers | the confirmation names the visit that was booked | `LeadVisits` |
| lead documents | `lead_documents`, bucket objects | uploadDocument, deleteDocument | bucket | every row has its object, at most two rows | `LeadDocuments` |
| **call logger**: devices and sync | device secrets, `contact_logs`, sync state | registerDevice, revokeDevice, revokeAllUserDevices, the guard, syncCallLogs, heartbeat | leads, agents, users | a call is logged once, what is acknowledged is logged; a dead secret opens nothing | `LoggerDevices`, `CallSync` |
| **inbounds** (property submissions) | `inbounds`, floors | create, assign, update, photo, saveLocationIfMissing | mail, site API, browser outbox | the late fix never replaces a better location; floors as sent | `Inbounds` |
| **site API client** | session token in memory | login, request, retry after a 401 | external site | a request is done at most once; every call ends | `SiteSession` |
| tasks, metrics | `tasks`, progress, receipts | upsertProgress, logManualProgress, deleteReceipt, weekly targets | - | the count agrees with the receipts; the weeks cover the month | `TaskMetrics` |
| hr | candidates | create, update, remove, bulkImport | mail triggers | an import makes one candidate per number | `HrImport` |
| users, permissions | users, grants | update, disable, setUserPermissions | devices | an edit that ended has taken effect as a whole | `Accounts` |
| request plumbing | connection pool | transactions, notifications | MySQL | nobody waits for a connection for ever, unless all who hold one wait for a second | `ConnectionPool` |
| **property form** (frontend) | form, draft, version | open, type, autosave, restore, save, leave | site backend | nothing typed is lost, no save overwrites what it did not see | `PropertyForm` |
| **project form** (frontend) | form, draft, revision | open, type, upload, autosave, restore, save what changed, leave | site backend | a save changes what its author edited and nothing else, and never goes back | `ProjectForm` |
| **properties** (requests on a stored property) | what each request has read | update, toggleVisibility, setApprovalStatus, remove | site API client | an edit undoes nothing it was not asked to | `Listings` |
| location outbox (frontend) | jobs in `localStorage`, captures | enqueue, fix, photo, flush, retry | inbounds | every position arrives under the account of its author | `LocationQueue` |
| property list (frontend) | page, filter, fetches | move, row action, refetch | properties | it shows what it says, on a page that exists | `ListPage` |
| notifications, activity-logs | append-only tables | notify, read | all | - | part of `EnquiryEvents`, `ConnectionPool` |
| agents, assets, ads, blog, builders, showcases, communications, master data, health | one table each | CRUD | - | - | - |

The hard behaviours, each at its line, are the `hazards` of `PROJECT.json`.

## 2. Modules

Paths of the backend are under `src/crm-backend/src/modules/`, those of the
frontend under `src/crm-frontend/src/`.

| module | models |
|---|---|
| `MailOutbox` | the `mail_outbox` rows, the records the mails are about, what the SMTP server accepted |
| `MailDispatcher` | `mail/core/mail-dispatcher.service.ts`: one action per SQL statement or SMTP answer of a container's tick |
| `MailService` | `mail/mail.service.ts`: requests of staff and `createFromTrigger` |
| `MailSystem` | the composition of the three, its fairness and properties |
| `MailPromise` | abstract: what each email promises |
| `MailAttachments` | `mail/attachments/mail-attachments.service.ts` and its callers |
| `EnquiryEvents` | the enquiry queue of `lead-routing/lead-routing.service.ts` and its intake in `leads/leads.service.ts` |
| `EnquiryPromise` | abstract: what each enquiry promises |
| `LeadRouting` | who owns a lead: claim, assign, release, return, convert, transfer, follow-up, status |
| `LeadVisits` | the enquiries of one lead, their visits and the confirmation drafted from them: `leads/leads.service.ts`, `leads/mail`, `createFromTrigger` |
| `LeadDocuments` | `uploadDocument` and `deleteDocument` of `leads/leads.service.ts` |
| `LoggerDevices` | the device secrets of `contact-logs/contact-logs.service.ts` and the guard |
| `CallSync` | `syncCallLogs` and the heartbeat of the same service |
| `Inbounds` | one submission of `inbounds/inbounds.service.ts` |
| `SiteSession` | `properties/site-api.service.ts` |
| `TaskMetrics` | one member of staff in `tasks/tasks.service.ts` |
| `HrImport` | `hr/hr.service.ts`: creation, edit, removal and import, by number |
| `Accounts` | `users/users.service.ts` and `setUserPermissions` |
| `ConnectionPool` | the pool of `app.module.ts` under `createNotification` and the transactions that call it: `claimLead`, `acceptEvent`, `acknowledgeEvent` |
| `PropertyForm` | `PropertyForm.tsx`, `property-form-draft.ts`, and the versioned PATCH behind them |
| `ProjectForm` | `ProjectForm.tsx`, `project-form-draft.ts`, and the PATCH of changed fields behind them |
| `Listings` | `properties/properties.service.ts`: read a property, write what was made of it |
| `LocationQueue` | `lib/inbound-location-queue.ts`, `lib/inbound-location.ts`, the sync component, the submission in `inbound/new/page.tsx` |
| `ListPage` | `properties/page.tsx`, `hooks/use-properties-list.ts`, `useClampedPage` |
| `MCMailSystem`, `MCMailRaces`, `MCEnquiryEvents`, `MCLeadRouting`, `MCDesk`, `MCDuty` | instances for TLC |
| `*_proofs` | theorems (section 6) |

`MailDispatcher` and `MailService` both extend `MailOutbox` and share its
variables; `MailSystem` conjoins them. `EnquiryEvents` and `LeadRouting` look at
`leads` from two sides: the first at which leads exist and which enquiries are on
them, with transactions and locks; the second at the columns of one lead that
requests read, change and save. The other components do not meet in state: where
one calls another, the call is a step of the caller's (a decision's notification in
`ConnectionPool`, an edit's revocation of devices in `Accounts`). `MCDesk` and `MCDuty` are
the sums of these, one of which moves in a behaviour (section 4). Mutants
(a definition with a plausible bug) stand next to the definition they replace and
are named so in their comments.

### 2.1 The mail pipeline

* `outbox[r]` is row `r` of `mail_outbox`; ids are handed out in order, up to
  `MaxRows`. `timer` stands for whichever timestamp the code compares with the
  clock in that status (`next_attempt_at`, `updated_at` + 10 min, `sent_at` + 24 h);
  `TimerElapses` lets it pass. `expires` is `expires_at`.
* A slot is an (event, entity type, entity id) triple. What a mail would say is one
  value of `Content`; an idempotency key is a function of slot and content, as
  `idempotencyKey` of the mail events is.
* `worker[d]` is where container `d` is inside `tick()`. `running` makes its ticks
  sequential, so one program counter per container is enough. Every `await`
  separates two actions: `SelectDue`, `Claim` (the conditional UPDATE), `Reread`,
  `CheckRecord`, `CheckSuppression`, `CheckQuota`, `SmtpAccepts` or `SmtpRejects`,
  `MarkSent`, `LogContact`.
* `MarkSentFails` is the UPDATE to `sent` failing inside the `try`: the delivered
  mail is treated as an SMTP error. `Crash` is a container that dies anywhere.
* `request[c]` and `trigger[t]` are requests in progress. A request's last read and
  its write are separate steps, except where a conditional UPDATE repeats the
  read's condition.
* `copies` counts what the SMTP server accepted, `grants` how often a row was put
  in the queue, `past[s]` what the record of a slot said before each change of it, `overtaken` the rows a retry
  wrote after they had ceased to be failed (history variables).

### 2.2 The enquiry queue

* `event[e]` is a row of `website_enquiry_events`, `lead[l]` one of `leads`,
  `inquiry` those rows of `lead_inquiries` that were made from events, `history`
  and `notice` the routing history and the notifications of decisions.
* A decision (convert, accept, acknowledge) is one transaction, `tx[p]`. Its writes
  become visible in `Commit`; before that `Held(p)` are the events it has locked and
  a lead in state `inserted` is its uncommitted one, which already occupies its
  number in the unique index. `siblings` is what its snapshot holds of the other
  open events of the number: the first plain SELECT (`FindMeanwhile`) fixes the
  snapshot, the later SELECT of the siblings reads it.
* `SaveSibling` is `eventRepo.save`: the copy differs from the snapshot, so the
  UPDATE is executed by id, whatever the row has become.
* `NotifyLeadOwner` writes on a connection of its own: at once, and it stays when
  the decision is rolled back. It tells the owner of the copy that `FindMatched` has read (`tx[p].owner`), whoever
  has the lead by then: `HandOver` is `claimLead` or `assignLead`, `Renumber` is `updateLead` with another number.
  Both wait while a decision that has written refers to the lead (`Shared`). `renumbered` is history.
* `Rollback` is a crash, a lost connection or a lock wait timeout; `Refused` the
  errors the code answers; `DeadlockVictim` the rollback InnoDB chooses.

### 2.3 Lead routing

* One lead: no request touches two. `row` holds the columns handlers compete for.
* `Read` is `findOne` and the change of the copy in memory; `SaveReads` the SELECT
  that `repository.save` makes to find the columns that differ; `SaveUpdates` the
  UPDATE of those columns by id; `SaveInserts` the INSERT that `save` makes of a copy
  whose row is gone. `WriteHistory` follows the save, outside its transaction, except
  for a transfer, which writes it inside.
* `Claim` is the conditional UPDATE inside `claimLead`'s transaction; it locks the
  row until `ClaimCommits` or `ClaimFails`.

* `LeadVisits`: `enquiries` are the rows of one lead by their ids, each the visit it holds; `Shown` is the
  visit `loadLeadMailData` takes, that of the latest row that has one. `Inserts` are the transactions that only
  insert: `CreateLead`, `DecideEvents`, `BulkCreateLeads`. `ScheduleVisit` and `UpdateLead` are the read of a transaction,
  `VisitCommits` and `EditCommits` its commit of the columns that differ (`Saves`); `UpdateInquiry`, `SaveReads` and
  `SaveCommits` the three statements of a save outside one. `Draft` is the start of the handler of the event emitted after a
  commit, which composes the mail from the visit shown; `ChecksKey`, `WithdrawsOlder` and `InsertsDraft` are the three
  statements of `createFromTrigger`, `mailing[q]` where the handler of q's event is. `drafted` are the keys used, `open` those
  whose row is an open draft.
  `booked`, `inTurn`, `lost`, `overtaken` and `again` are history: the property speaks of the visit booked last while requests come
  in turn, and of its confirmation unless a crash lost the event, an inquiry's save wrote an old visit back, two handlers
  ran at once, or the visit had been confirmed before.

### 2.4 Files

* `MailAttachments`: `fileRow[f]` is a row (`outbox` its mail, `data` whether its contents
  are kept, `age`), `letter[e]` a mail with what was attached to it and what it carried, `asked[t]` a
  request under way. `CountUnsent` and `SaveFile` are the two statements of `upload`; `PendingFor`
  the check of `composeSend`, `QueueWithFiles` its transaction, whose affected count
  refuses a file taken or removed since. `Carry` is the dispatcher's read of the files in an attempt that
  is accepted. `PurgeUnsent` and `PurgeContents` are the two statements of `purge`.
* `LeadDocuments`: `NumberFor` computes the attachment's number from the rows, and with it the
  key in the `bucket`. `WriteObject` and `InsertRow`, `DeleteObject` and `RemoveRow` are separate; `broken`
  says that a deletion stopped between the two, `crossed` that two requests ran at once, which the
  code does nothing about and the property leaves out.

### 2.5 Call logger

* `LoggerDevices`: `device[d]` is the row of phone `d`, whose secret is a number in the
  order of issue. `Register` is `registerDevice`'s check of the user and `Enrol` its upsert after the hash,
  which leaves `user_id` as it was. `Knock` is the guard's checks on one read of the row, `Touch` the
  sliding expiry after the comparison. `dead` are the secrets replaced, revoked, or ended by a password change.
* `CallSync`: `Receive` matches a batch with the directory; `CheckBook` looks for its calls in one
  table after the other; `Insert` writes the new ones in one transaction, each table
  unique in the source id. `Rematch` is the directory that changes between two batches with one call.
  `Report` takes the time of a heartbeat, `Record` is its upsert, which keeps the columns it does not speak
  of; `Health` is what the dashboard makes of the row.

### 2.6 Submissions

* `Inbounds`: `inbound` is the row, `draft[e]` an edit: it holds the copy it read (`LoadEdit`), then
  the columns in which that differed when `save` read again (`SaveEdit`), which `WriteEdit` writes.
  `ClearFloors` and `FillFloors` are the DELETE and the INSERT after it, in no transaction. `Assign`,
  `SavePhoto` and `SaveLocationIfMissing` are atomic in the code: one UPDATE, or a transaction with a
  row lock. `pinned`, `torn`, `sent` and `halved` are history: `sent` are the floors of the latest deletion's edit and of those that
  had deleted and not yet inserted, `halved` that one of them stopped there.
* `LocationQueue`: `capture[c]` is one use of the quick-capture form, `post` the inbounds sent whose reply has not come
  (`PostInbound`, `PostFails`), `Enqueue` the continuation of that reply, in whatever account and with or without the form, `keeper` whose
  list it went to. `Persist` may be refused (`refused`). `jobs` the list in memory and
  `stored` that in `localStorage`, `flush` what is left of the snapshot the loop goes through while new
  positions arrive. Jobs in the list and in the snapshot are one object until `restore` makes new ones (`stale`).
  `SignIn` changes the account, `Reload` the page; `strays` are positions asked for by captures that
  `restore` has dropped.

### 2.7 Accounts, tasks, candidates, connections

* `Accounts`: an edit is a sequence of statements over one `account` and its `grants`: `Update` or
  `Disable` read, `Save` is the read of `save`, `Write` its UPDATE, then `ClearGrants`, `Grant`,
  `RevokeDevices`. `last` is what the edit that ended last asked for, if none ran beside it.
* `TaskMetrics`: `UploadReceipt` and `CountReceipt`, `DeleteReceipt`, `RemoveReceipt`, `ReadCount` and
  `SaveCount` are the statements of the two receipt handlers; counting is an atomic upsert, the
  decrement a read and a save. `WeekTarget`, `Shortfall` and `EffectiveTarget` are the
  weekly targets as computed.
* `HrImport`: `ReadExisting` and `SaveFresh` are the SELECT and the INSERT of an import, `UpdateCandidate` the UPDATE by id,
  which checks no number. `byFile` and `byHand` tell who gave a candidate its number.
* `ConnectionPool`: `free` connections, the driver's queue `waiting`, and transactions (`Notifier`: a claim, an accept, an
  acknowledge) that hold one connection and take another for each statement of a notification; the others (`Plain`) take one.

### 2.8 The site backend and its clients

* `SiteSession`: `call[c]` is one request, with the token it `carries` and whether it is the retry (`again`); `token`
  the cached session; `login` says that a login is under way, which every caller shares.
  The site is known by what the client makes of its replies; `handled[c]` counts how often it did what `c` asks.
* `PropertyForm`: one tab per author; `form[s]` is what is on screen, its `base` and the
  `version` it started from; `paper[s]` the draft in `localStorage`; `flight[s]` a save under way.
  Each edit types a fresh number, so that a later value is a larger one. `Settle`
  is what happens 400 ms after the form shows: the base is the form of the render that set the timer, so what is typed
  before then is an edit like any other. `Arrive` is the site's PATCH
  (409 for an outdated version), `GetLost` a request that is lost.
* `ProjectForm`: `sheet[s]` is the form, with its `base` and `revision`; `stash[s]` the draft; `errand[s]` a
  save under way, `ours` while the form that sent it is the open one. A section is a field or the unit
  of one code, edited by `EnterValue` and `UndoValue`; a floor plan reaches it when its upload has worked.
  `ChangedFields` is the `changedFields` of `editRequestBody`, `BodyFields` those with the type, which it sends always
  (`AlwaysSend`). `Clashes` and `Applied` are the site backend's side, which goes by one set or by the other (`GoesBy`):
  `since[f]` is the revision that last set `f`. `SavesKeepOutOfTheWay` is the comment in `submit`.
* `Listings`: `request[r]` is what request `r` has made of the property it read and is about to
  write. `MergedDetails` is the details row of the PATCH, which replaces the stored one: what the body
  gives over what `buildDetails` makes of what was read, which carries some stored values over and not others
  (`Fragile`); a description the body leaves out is blanked. `Sold`, `IsLive` are checked on what was read. `SiteWrites` is the backend's
  PATCH or DELETE, `RequestStops` a request that ends before it.
* `ListPage`: `asks` is the view and page asked for, `fetches` the requests whose reply has not come,
  of which an abandoned one is ignored; `answer` what is on the screen. `ClampedPage` is
  `useClampedPage`; `astray` says that a row action has fetched the view it began on.

## 3. Assumptions about what is not in the repository

* **MySQL InnoDB at REPEATABLE READ**, the default the code leaves alone: plain
  SELECTs of a transaction read one snapshot, `FOR UPDATE` and UPDATE read and lock
  the newest row, a unique index includes uncommitted entries, who waits for a lock
  is queued, and one transaction of a deadlock is rolled back.
* **TypeORM `save`**: SELECT by id, then UPDATE of the differing columns by id, or
  INSERT if the row is gone.
* **Foreign keys** as the entities declare them (the migrations in the repository do
  not contain the tables' DDL): ON DELETE SET NULL for the leads of an enquiry event,
  CASCADE for inquiries and history. Their shared locks make `deleteLead` wait for a
  decision on the lead (`Pinned`).
* `EnquiryEvents` has no leads that a `save` inserts again after a deletion; that
  behaviour is in `LeadRouting` (`SaveInserts`).
* **SMTP**: an accepted mail is delivered; an error means it was not accepted.
* **One person signs in on a phone** (`SoleHolders`, an antecedent of `DeadSecretsStayDead`):
  the upsert of `registerDevice` leaves the row's `user_id` alone, so with two
  people the row's owner is not who holds its secret.
* **One tab per author** in `PropertyForm` and `ProjectForm`: two tabs of one browser share a draft.
* **A lead has at most as many enquiries as an email looks at** (`WindowAssumption`; ten in the code). With more, a
  visit on an older enquiry is no longer shown.
* **The site's PATCH is atomic.** Of a property it checks the version it is given
  (`expectedUpdatedAt`; every write is taken to give a new one), and the status `available` approves it. Of a project it refuses a save
  with 409 only if a field or unit was set since `expectedRevision` that is among those the save names as changed or, which the
  repository does not settle, among all it sends; it stores the ones or the others. That is how `submit` and the
  conflict dialog describe it.
* **mysql2's pool** queues who waits without a limit of time: the `acquireTimeout` of `app.module.ts:123` is no option of it.

## 4. Runs

| run | instance | checks |
|---|---|---|
| `mail_faults` | 1 row, 2 containers, 2 requests, 1 trigger run, a crash, a stall, a failing UPDATE | `NoCopyWithoutGrant`, `SentWasAccepted`, `KeepsPromise`: until the first misfortune the pipeline implements `MailPromise` |
| `mail_attempts` | 2 requests of staff racing over retries, 1 container, a crash, a purge of bodies | `AttemptsBounded` |
| `mail_drafts` | 3 rows, 3 contents, one that nobody can be mailed, 3 changes, a crash, a deletion, 2 requests against a run of triggers | `CurrentIsSuggested` |
| `mail_liveness` | 2 emails, cap of one a day, 1 container that may crash | `QueueDrains` |
| `mail_races` | `MCMailRaces`: 2 runs of triggers over 3 rows of one email, whose data change, with a request; 2 containers under a cap of one a day | `OpenDraftsBounded`, `CapOvershootBounded` |
| `enquiry_tables` | 2 enquiries, 2 leads that may change number and hands, 2 numbers, 2 staff, 1 a decider | `RecordsKept`, `OneLeadPerCustomer`, `OnlyConvertOverwrites`, `OwnerIsTold` |
| `enquiry_ends` | 2 enquiries of one number | `DecisionsEnd`, `KeepsPromise`: implements `EnquiryPromise` |
| `lead_claim` | 2 requests, crashes, deletion, RNR limit | `ClaimTakesUnowned`, `TrailNamesOwner` |
| `desk_work` | `MCDesk`: 2 of each kind of actor in each part | `EditsTakeEffect`, `DeadSecretsStayDead`, `AckedLoggedOnce`, `CountsWhatItLogs`, `HealthyMeansSynced`, `CountsAreTrue`, `TargetsCoverTheMonth`, `DeviceFixYields`, `FloorsAsSent`, `NothingTypedIsLost`, `NoSaveGoesBack`, `SavesKeepOutOfTheWay`, `EditsUndoNothing`, `DeliversItsFiles`, `DocumentsHaveTheirObjects`, `OneImportedPerNumber`, `VisitIsConfirmed` |
| `duty_ends` | `MCDuty`: location queue, site session, list, pool (2 connections under 2 notifying and 2 other requests) | `ListsAreTheAuthors`, `ServedOnce`, `ShowsWhatItSays`, `LocationsArrive`, `EveryCallEnds`, `RestsOnARealPage`, `RequestsEnd` |
| `enquiry_stands` | 2 enquiries of one number | **violated**: `DecisionStands` |
| `lead_transfer` | 2 requests | **violated**: `TransferKeepsOwner` |

**Why the bounds are enough.** Rows of the outbox interact only through the
shared batch, the cap and the keys of one slot: one row shows every race for a
row, two the cap of one container, three the drafts of one slot with a staff row
beside them. Two containers, two requests and two decisions make every pair of
steps race; the code has no condition on three of them. `MaxFaults` bounds each kind of
misfortune by one, since one crash, stall or failed UPDATE reaches every recovery
path; `MaxGrants`, `MaxEdits`, `MaxEvents` and `Room` bound retries, record changes,
enquiries and rows. In the parts of `MCDesk` and `MCDuty` the same holds of two edits, phones,
batches, clerks, tabs or callers; `MaxTyped`, `MaxSaves`, `MaxLogged`, `MaxReports`,
`MaxSecret`, `MaxByHand`, `MaxMoves`, `MaxNotices`, `MaxSize`, `MaxWritten`, `MaxRevision`, `MaxWrites`,
`MaxEnquiries` and the second `MaxEdits` bound what grows. Two enquiries show each of an older and a later one with and without a visit, which is all `Shown` compares; visits
are followed until an event is lost, a save puts an old visit back, or requests that crossed have ended (`FewVisits`).
Three moves of a list's user are a row action, a change of view and one of page, which is all that a late refetch can meet. Two containers show an
overshoot of one, two runs of triggers two drafts. Of the staff with a form, one at most has a draft and saves are of something
edited (`FewDrafts`, `FewProjects`): two drafts meet only through the record their saves change. The theorems of section 6 hold
without these bounds.

**Why the sums are sound.** The parts of `MCDesk` and `MCDuty` share no variable and
no property relates two of them, so every behaviour of a part appears with the others at
rest, and an interleaving of two parts projects to one of each. In `MCDesk` a submission is followed twice:
once in its row, once in its floors, neither of which is read to write the other. A lead's
documents are followed until requests cross or break, after which its property says
nothing. In `MCDuty` a resting part starts in a state that enables no action it is fair to. There the location queue goes twice, with two people or with
two forms, and so does the list, with two moves among the changes of others or with three while nobody else changes anything.
`MCMailRaces` is one specification in which either the triggers or the containers move; the containers begin when the mails are there.

**What the violated runs show.**
`enquiry_stands`: a convert reads the open siblings of its number from its
snapshot; another member of staff acknowledges one of them; the convert's save by id then
turns it into `converted` by somebody else on another lead, although the comment at
`lead-routing.service.ts:527` says the decided event is refused with 409.
`lead_transfer`: `transferLeadToSales` saves the copy its caller read, over an
assignment made since, although the comment at `transfer-to-sales.ts:8` says the owner
is not touched.
**Symmetry** is used for sets whose members the specification treats alike, and in no
run that checks a leads-to property. `CHECK_DEADLOCK FALSE` is set where the instance may
stop: all enquiries decided and all lead ids used up, the lead deleted, or every bound reached.

## 5. Fairness

Safety runs assume none. `QueueDrains` assumes weak fairness of each container's
steps (`setInterval` keeps ticking, every await settles because the SMTP transport has
timeouts) and of the passing of time. `Crash` and `MarkSentFails` are not fair, nor
are they counted as progress. `DecisionsEnd` assumes strong fairness of each decision:
InnoDB queues the waiters of a lock, so one that is released again and again is
granted; and weak fairness of a direct creation's commit.

`LocationsArrive` assumes `QueueFairness`: the timer of the sync component goes on, a
fix or its timeout comes, a save is answered; and that the misfortunes end (`BecomeCalm`).
`EveryCallEnds` assumes `SiteFairness`: each await is answered or runs into its timeout, and the
site settles at some time (`SiteRecovers`). `RestsOnARealPage` assumes `ListFairness`: replies come, React
runs its effects; it speaks of lists that are left alone from some time on (`BecomeQuiet`).
`RequestsEnd` assumes `PoolFairness`: a request that has its connection goes on, and the driver
serves its queue in order. It holds of pools of any size: the one way not to end is that every connection is held by a transaction
waiting to notify (`AllWaitForMore`), which the instance reaches. Nothing is asked of staff, of triggers or of the website.

## 6. Theorems

Every theorem holds for any values of the constants that satisfy the assumptions
declared with them.

* `MailSystem_proofs!TypesOK`. Its content is that `attempts` stays in `Nat`
  through the racing refund of `CheckQuota`.
* `MailSystem_proofs!CopiesAreGranted` (`NoCopyWithoutGrant`) and `QueueIsGranted`. Inductive:
  `WithinGrants`, that copies, deliveries in progress and the place in the queue
  together stay within the grants. The copies alone are not inductive: the server's
  acceptance adds one, and only `Holders` says it was granted. Each step changes one
  of the three parts (`BalanceKept`), or the queue alone (`QueueKept`).
* `MailSystem_proofs!SentWasAcceptedBefore` and `KeysStayUnique`. Inductive: `RowInv`, the
  conjunction of both with what a container in `MarkSent` knows (`MarkedAccepted`), that
  what it holds exists (`HeldExists`), and that a resend's key is made of a row that
  exists (`ResendsOwnId`). A check of the key in an earlier step does not
  help: uniqueness comes from the INSERT alone.
* `MailPolicy_proofs!CapOvershootIsBounded`. Inductive: `WithinOvershoot`, the rows
  sent today together with the rows of the containers past the check are at most
  the cap and the containers less one. A container that passes the check saw fewer
  than the cap sent; the others are one row each.
* `MailPolicy_proofs!DraftsAreBounded` (`OpenDraftsBounded`), for any number of runs of triggers. Inductive: `DraftsWithin`, that the
  open drafts of a slot and the runs between their withdrawal of the older ones and their INSERT are together no more than there
  are runs: a withdrawal leaves no draft, and each draft made after it is the INSERT of a run that was counted.
* `MailPolicy_proofs!PresentDataAreSuggested` (`CurrentIsSuggested`), for one run of triggers at a time and until one is
  cut short. Inductive: `CurrentInv`, of four parts: a row replaced by a newer one says what the record
  was changed from (`RowsTell`); a run that is about to insert has composed the present data, and no draft of them is there
  (`RunsAreCurrent`); a request about to insert has them too, or they have their mail by now (`RequestsAreCurrent`); and the
  key of the present data is taken once the record has a mail and no run is about it (`MailIsCurrent`). The second part
  keeps a run from withdrawing the present draft, the third is needed because a request looks at the key in a step before its INSERT.
* `MailPolicy_proofs!MailPromiseIsKept` (the refinement `KeepsPromise` of `MailPromise`), for any requests, until the first
  crash, stall or database error, or the first retry written after its row was failed no more (`overtaken`): that one revives a mail (section 7).
  Inductive: `Intact`, while all is calm: a row that says
  `sending` is in the hands of exactly one container (`HandsIntact`, `SendingHeld`), and what the server accepted
  is being marked or says `sent` (`SentIsCopied`). Each statement then maps to a step of the promise or to none.
* `MailPolicy_proofs!AttemptsAreBounded` (`AttemptsBounded`), for one container: with two, a stalled delivery's late write can
  give back an attempt the other container has counted. Inductive: `AttemptsWithin`, that a row which may be claimed, now or after
  staff confirmed it or `recoverStuck`, has an attempt left in `Budget`, which grows with each delivery cut off.
* `EnquiryEvents_proofs`: `TypesOK`, `RecordsAreKept`,
  `OneLeadEach`, `HeldStaysOpen`, `MatchedLeadsStay`, `OnlyConvertsOverwrite`, and, with
  one more invariant (`Told`), `OwnersAreTold`. The inductive `IInv` says what a transaction may rely
  on between its steps: the shape of its own record (`Shape`); what its locks keep
  true of the tables (`Grounded`: its event is open and keeps its match, its lead
  stays, a lead not yet committed is one it inserted for its event's number); that
  locks exclude each other (`Exclusive`); and that the tables agree
  (`TablesAgree`). Without `Exclusive` a rollback could take the lead another decision
  attaches to; without `MatchesLive` an accept could find no lead.
* `EnquiryEvents_proofs!PromiseIsKept` (the refinement `KeepsPromise` of `EnquiryPromise`), for any staff. What the mapping
  reads beside the events is where they are: `InquiriesOfDecided` says that every inquiry is on a committed lead and of an
  enquiry decided so. All that a commit does is one step of the promise (`CommitDoes`); the rest of a decision is none. The promise lets a convert that creates a lead decide an enquiry
  anew, and leave it on two leads: that is what the code does (`enquiry_stands`).
* `EnquiryEvents_proofs!DeadlocksArePairs`, for any number of staff: if three transactions in a row each wait for the next, and
  the last one waits too, two neighbours wait for each other. A convert that saves siblings waits for one that holds an enquiry of its number; if that
  one waits as well, it is a convert at its INSERT, and waits for the first one's lead, since one lead
  has a number (`NumbersUnique`) and one transaction creates it (`Exclusive`). So `DeadlockVictim`, which looks at pairs,
  misses no deadlock with more staff than the two of `enquiry_ends`.
* `EnquiryEvents_proofs!UndisturbedDecisionsStand`: `DecisionStands`, which `enquiry_stands` refutes, holds as long as nobody decides
  an event which another convert in progress has read as an open sibling (`SiblingsLeftAlone`). Inductive: `SiblingsOpen`, that those
  siblings are open, and `SiblingsApart`, that no two converts have one in common.
* `LeadRouting_proofs`: `TypesOK`; `ClaimsTakeUnowned`, by the row lock from the
  UPDATE to the commit (`ClaimLocks`); `OrderlyTrailNamesOwner`, for one request at a time
  and no mishaps, by what a request in progress still owes the history.
* `LeadRouting_proofs!UndisturbedTransfersKeepOwner`: `TransferKeepsOwner`, which `lead_transfer` refutes, holds as long as the owner
  does not change between a transfer's `findOne` and the read inside its `save` (`OwnerLeftAlone`). Inductive: `CopiesUpToDate`, that
  until that read the copy has the row's owner, and that after it the owner is not among the columns to write, so that an
  assignment which comes after it is safe.
* `EnquiryEvents_proofs!OneLeadEach` (`OneLeadPerCustomer`): what was converted is on a lead that had its number when the transaction took it, and has
  it until somebody changes it (`ConvertedOnNumber`); two leads have no number in common (`NumbersUnique`).
  `OwnersAreTold`: between the notification and the commit the notice to the owner read is there (`Told`).
* `LeadWork_proofs!VisitsAreConfirmed` (`VisitIsConfirmed`), for any number of requests and handlers. Of the mails: one handler at a time has withdrawn
  every older draft when it inserts (`OneByOne`), and the visit shown is drafted, composed or about to be announced (`ShownOK`). Inductive: `HoldsRow`, that
  what a request is about to save is a row that is still there; `HoldsTheLatest`, that in turn its copy is the row as it is,
  so that the columns it writes make the row what was asked for; and `TurnsOK`, that in turn a request is alone. Which row is shown
  after an INSERT rests on `ShowsTheLatest` and `ShowsNoLess`: the latest of a set of positions is found by well-founded induction.
* `LeadWork_proofs!DocumentsKeepObjects` (`DocumentsHaveTheirObjects`). Inductive: `DocumentsSound`, that at one request at a time an
  upload has a number of no row and, from its write on, an object, and that a row without an object is that of a deletion between
  its two steps. The numbers are what makes a deletion take no other row's object.
* `LeadWork_proofs!PoolNeverStuck` (`ConnectionPool`), for any pool and any requests: no connection is lost, and whenever
  somebody waits, a request that waits for nothing holds a connection, or all of them are held by transactions that wait for a second one
  (`AllWaitForMore`), which takes as many notifying transactions as there are connections. Inductive: `PoolInv`, that all connections are free or
  held, by one or by two (`NoneLost`); that those who wait are in the queue, once, and wait only when none is free (`LineKept`); and that only who
  has notifications to make takes a second one (`SecondsAreOwed`). `RequestsEnd` adds fairness to this.
* `Desk_proofs`, of devices: `DeviceTypesOK`; `DeadSecretsStay`. Inductive: `SecretsAreOwned`,
  that the secret of a row was issued to the row's owner, who signs in on that phone, and
  is no other phone's.
* `SiteEdits_proofs!ListingEditsUndoNothing` (`EditsUndoNothing`). Inductive: `StillAsRead`, that an update whose version is still
  the property's holds what the property holds, in all it was not given, or is about to blank it where `Fragile` says it may. `ProjectSavesKeepOut`
  (`SavesKeepOutOfTheWay`). Inductive: what a form, or a save, started from is what the project has unless it was set
  after that revision (`StartsFrom`); a draft of a revision is no older than the sections not set after it
  (`DraftOf`), and than the form it is offered to (`OfferFits`); the fields every save names are left out. Without the last a restored draft
  could take the project back.
* `SiteEdits_proofs`, of submissions: `DeviceFixesYield`, `FloorsStayAsSent`, `QueuedAreUnassigned`. Inductive: that an
  edit that gives a location carries it to its statement (`CarriesLocation`), and that the floors there are, with those about to be
  inserted, are what was sent since the latest deletion, by any number of edits at once (`FloorsInv`).
* `Desk_proofs`, of calls: `AckedAreLoggedOnce` from `LogInv`: a call a batch holds is logged in no table but
  its own, one the batch has yet to read, or among those it found (`Found`); what it found stays logged
  (`ExistingIsLogged`); two batches that hold one call agree on its table (`Agree`). `HealthyPhonesSynced`,
  by the row alone: a success is written with its own time as the latest attempt. `RepliesCountTheLog` (`CountsWhatItLogs`), for
  finitely many calls (`CallAssumption`). Inductive: `Counted`, that as long as no call was in two batches at once, what a batch
  holds is logged nowhere but where it has found it or is still to look, so that each INSERT adds as many rows as its reply counts.
* `Desk_proofs!EditsAreWhole` (`EditsTakeEffect`). Inductive: `Progress`, how far an edit that no other overlaps has come:
  account and grants are as it found them up to its UPDATE, and what it writes is in which the copy differs from them; then the
  account is the copy and the grants are the old ones, none, or those given.
* `Desk_proofs`, of tasks: `CountsStayTrue` (`CountsAreTrue`) and `TargetsCover` (`TargetsCoverTheMonth`). Inductive: that no week to
  come has counts (`WeeksToCome`); that what is counted, with the uploads about to be, is as much as the receipts there are, with
  those about to be discounted, or more once weeks have passed (`Balanced`, with `ReadsHold` for what a deletion has read), until
  two deletions race or a request is cut short; and that what was entered by hand is in the counts or on its way (`LoggedOnes`).
* `Desk_proofs!EmailsTakeTheirFiles` (`DeliversItsFiles`). Inductive: that a draft has no files yet (`DraftsHaveNone`), for they are
  linked in the transaction that queues it, and that only a file past the retention has lost its contents (`PurgedAreOld`).
* `Desk_proofs!FilesImportOnce` (`OneImportedPerNumber`). Inductive: `RoomLeft`, that what
  the files have made of a number and the imports that may still add one are together no more than the importers; and, while no two overlapped,
  `UnseenAreNew`, that a number which an import has not seen has no candidate of a file.
* `Clients_proofs!RequestsServedOnce`. Inductive: `Sound`, that the site has not
  acted on a request that may still be sent, and that one made while the site is steady cannot
  fail, for its retry carries a token that stays good.
* `Clients_proofs!ListShowsWhatItSays` (`ShowsWhatItSays`). Inductive: `OneIsAwaited`, that a list waits for one fetch at most, of the
  place it asks for unless a row action led astray, and for none once it has stopped loading.
* `Clients_proofs!SavesGoOn` (`NoSaveGoesBack`). Inductive: `UpToDate`, that what would be saved of the property's present version,
  by a form, a draft or a save on its way, is nowhere older than the property.
* `Clients_proofs!DraftsLoseNothing` (`NothingTypedIsLost`), of what is on a form when it settles and later. Inductive: `BaseIsRead`, that edits are measured against the property as it was read, and
  `OwedIsKept`, that what is owed is on the form that shows it or else in the draft, differs there from that base, and was not saved.
  Without the base a draft that holds something owed could count as unchanged and be removed.
* `Clients_proofs!QueueKeepsLists` (`ListsAreTheAuthors`), for any accounts, submissions and order of reloads, changes of account, fixes,
  replies that come late, and stores that are refused. Inductive: that the jobs of a list, of a stored one and of the snapshot being sent
  have their author's position or none, but for those that went to another's list (`WellJob`, `JobOf`, `Misplaced`), that what is stored for
  an account is in its list (`ListsStand`), and that a capture, dropped or
  not, is of the account it began under (`CapturesSound`). Without the last a late fix could reach another account's job.

**Only model-checked**: all liveness (`QueueDrains`, `DecisionsEnd`, `LocationsArrive`, `EveryCallEnds`,
`RestsOnARealPage`, `RequestsEnd`), for fairness and `ENABLED` are beyond the prover; of `DecisionsEnd` and `RequestsEnd`
the safety part is proved (`DeadlocksArePairs`, `PoolNeverStuck`). Every invariant and every other action property of a passing run
is stated by a theorem, and the violated runs' properties by theorems with the one condition that is missing
(`UndisturbedDecisionsStand`, `UndisturbedTransfersKeepOwner`).
The two hypotheses on how much happens at once (one run of triggers in `PresentDataAreSuggested`, one container in `AttemptsAreBounded`) are not for the prover's sake:
with two the properties are false, as said with each and in section 7.
`TrailNamesOwner` is for requests one after the other: no line of the code
promises it under races, which break it.

## 7. Seen while modelling, and not among the runs

Behaviours the models have, in which a comment and the code part:

* a container that dies between the server's acceptance and the UPDATE to `sent`
  makes the mail go out twice (`mail-dispatcher.service.ts:21` says a second container
  can never send the same mail twice; `MailDispatcher!RecoverStuck`);
* `retry` checks `failed` and then updates by id: of two retries, or a retry and a
  cancel, the later one revives a mail sent or cancelled since (`mail.service.ts:159`;
  `MailService!RetryWrite`);
* bodies are purged whatever the row's status, so a row that waited goes out
  empty (`mail-dispatcher.service.ts:103`; `PurgeOldBodies`);
* an automatic mail stored as failed because of its issues is sent as it was by a
  retry, which does not compose it again (`mail.service.ts:160`, `:270`);
* two triggers for one record that run at once can both leave an open draft, or the older one's last
  (`mail.service.ts:264`; `OpenDraftsBounded`); data that changes and changes back finds its key taken by a withdrawn draft
  (`mail.service.ts:262`);
* an event accepted while a convert of its number runs has an inquiry on each of two
  leads (`lead-routing.service.ts:557` says one per event), and one that arrives
  during the convert stays open beside the new lead (`:701`);
* two releases both pass the check of five calls, and the second takes the lead from
  the next owner (`lead-routing.service.ts:390`); a POST and a PUT transfer a lead twice
  (`:366`); a save of a copy read before the transfer moves a visited lead back to
  telecalling (`leads.service.ts:297`); a save of a lead deleted since inserts it
  again;
* two visits scheduled at once leave the date of one and the slot of the other
  (`leads.service.ts:348`): each save writes the columns that differ from its own snapshot; that visit is what the
  second event confirms (`VisitIsConfirmed` says so);
* a visit moved from one time to another and back has its key taken by a withdrawn draft, so that no confirmation of it is open
  (`sales-mails.ts:55`, `mail.service.ts:261`; `again`); nor is one when the handlers of two bookings run out of order (`overtaken`);
* `updateInquiry` saves outside a transaction and can write an old visit back, which no event follows (`lost`);
* `updateLead` empties the enquiry's columns that the form leaves out, though it says that partial payloads must not
  blank fields (`leads.service.ts:384`), and edits whichever enquiry comes first;
* the body of `updateInquiry` is declared in snake case (`update-lead-inquiry.dto.ts`) and the service reads camel case:
  of what the edit of a requirement says it has updated, only funder and preferences are stored;
* an email shows the visit of one of the latest ten enquiries only (`lead.mail-entity.ts:71`);
* `bulkCreateLeads` says that a note row can never bury a live schedule; a row with notes on
  an existing lead does, though only a caller of the API can send one;
* an update of a property without `expectedUpdatedAt` writes a stale status back, and an approval or
  a toggle checks the status it read (`properties.service.ts`), so that either can undo a sale made meanwhile;
* two people who sign in on one phone share its row: the second one's calls are synced
  under the first one's `user_id` (`contact-logs.service.ts:205`);
* what is typed while a save of the property form is under way is lost with the redirect; so is what is typed in the first 400 ms of a
  form that is left before it has settled, or before a draft is restored over it;
* an inbound whose POST reply is lost, or comes after a reload, is in no list, and never gets its device location
  (`inbound/new/page.tsx:526`); one whose reply comes to another account goes into that account's list, and may get that person's position,
  though `inbound-location-queue.test.ts:80` says that no prior user's coordinates are attached (`Misplaced`); a job the browser refused to store is
  lost with the page (`refused`);
* two imports at once, or an edit of the number, make two candidates with one number (`hr.service.ts:202`, `:152`); an
  edit of a submission that stops between its two statements leaves it without floors (`inbounds.service.ts:367`);
* as many claims, accepts and acknowledges at once as the pool has connections wait for each other for ever (`AllWaitForMore`);
* drafts of a project are "three-way merged onto newer server data instead of being thrown away"
  (`project-form-draft.ts:41`), but the form removes one as soon as somebody has saved since
  (`ProjectForm.tsx:1266`): `rebaseDraft` has no caller outside its tests;
* a save of a project waits for a floor plan that is being uploaded, not for a cover, a brochure or a
  gallery image, which the save then lacks; the browser's Back button leaves either form without a word;
* a save of a project whose reply is lost has been made; sent again, it is refused as changed by
  another member of staff;
* the comment at `properties.service.ts:757` says omitted details are preserved so that an edit never erases imported fields; the merge
  drops those stored values that `buildDetails` would not take from a form, such as a plot area that is not a plain number (`:541`) and an empty
  list, and an update that leaves the description or the country out gives it its default (`:609`, `:628`): `Fragile`, `Blank`;
* a save of a project names its type whether it was edited or not (`project-form-draft.ts:95`): depending on the site backend it
  can be refused for it, or take back a colleague's change of it;
* a row action of the list refetches with the page and filter of the render it was clicked in
  (`use-properties-list.ts:49`, `page.tsx:112`), and its reply can replace that of the present view, which may then rest on a page past its end (`astray`).

## 8. Not modelled

* Text and layout of mails, the throttle between sends
  (`lastSendAt` only delays), the redirect of test environments.
* Permissions of endpoints, beyond who may accept and acknowledge; validation of
  forms; reports, dashboards and lists that only read.
* The profile columns of a lead other than its number, and the assignee an import chooses; roles and departments; the
  session token; and the components whose `PROJECT.json` entry says `not_modelled`, with the reason there.
* Notifications: the stream sends rows newer than its last poll, while the client of it
  replaces its list; with one reader and no writes of its own there is no protocol to state.
* Of the project form: creation, whose drafts have no revision, drafts of before version 3, and
  a browser without a signed-in user, which keeps no drafts. Of properties: the bulk import.
* Most of the repository is pages, forms and CRUD of one table: its lines render or forward, and a
  model of them would restate them. The models follow the parts that hold a protocol.

## 9. Plan

Done: the mail pipeline, the enquiry queue, lead routing, the visits of a lead, the call logger,
submissions, the site client, files, tasks, accounts, imports, connections, the forms
of properties and projects, stored properties, the location outbox and the list. What is left, in this order:

1. The other profile columns of a lead (`updateLead`) and the assignees of an import (`bulkCreateLeads`).
2. The other list pages, should one of them come to keep more state between requests than its own rows.
