--------------------------- MODULE MailAttachments ---------------------------
(***************************************************************************)
(* The files one staff member attaches to the emails they compose          *)
(* (mail-attachments.service.ts; composeSend of mail.service.ts; filesFor  *)
(* in deliver of mail-dispatcher.service.ts).  Another's files are refused *)
(* by every query, so that no two staff meet here.                         *)
(***************************************************************************)
EXTENDS Naturals, FiniteSets

CONSTANTS
  Attachment,  \* the files there may be
  Letter,      \* the emails: drafts of the outbox, or new ones
  Tab,         \* bound: how many requests run at once
  MaxPending,  \* MAX_PENDING_PER_USER
  NoLetter     \* outbox_id IS NULL

ASSUME MaxPendingAssumption == MaxPending \in Nat
ASSUME NoLetterAssumption == NoLetter \notin Letter

VARIABLES
  fileRow,  \* [Attachment -> record]: its row; the steps of its age
  letter,   \* [Letter -> record]: what was attached and, once it was sent, carried
  asked,    \* [Tab -> record]: requests under way
  expired   \* history: [Letter -> files past the retention when it was sent]

fileVars == <<fileRow, letter, asked, expired>>

(* age: fresh, over a day, past the retention.                             *)
NoFile == [there |-> FALSE, outbox |-> NoLetter, data |-> FALSE, age |-> 0]
GoneFile == [NoFile EXCEPT !.age = 2]
NoRequest == [at |-> "idle", files |-> {}, letter |-> NoLetter]

FilesInit ==
  /\ fileRow = [f \in Attachment |-> NoFile]
  /\ letter = [e \in Letter |-> [at |-> "draft", files |-> {}, carried |-> {}]]
  /\ asked = [t \in Tab |-> NoRequest]
  /\ expired = [e \in Letter |-> {}]

-----------------------------------------------------------------------------

Unsent == {f \in Attachment : fileRow[f].there /\ fileRow[f].outbox = NoLetter}

Linked(e) == {f \in Attachment : fileRow[f].there /\ fileRow[f].outbox = e}

(* upload: the count, then the row.                                        *)
CountUnsent(t) ==
  /\ asked[t].at = "idle"
  /\ Cardinality(Unsent) < MaxPending
  /\ asked' = [asked EXCEPT ![t] = [NoRequest EXCEPT !.at = "upload"]]
  /\ UNCHANGED <<fileRow, letter, expired>>

SaveFile(t, f) ==
  /\ asked[t].at = "upload"
  /\ fileRow[f] = NoFile
  /\ fileRow' = [fileRow EXCEPT ![f].there = TRUE, ![f].data = TRUE]
  /\ asked' = [asked EXCEPT ![t] = NoRequest]
  /\ UNCHANGED <<letter, expired>>

(* remove: one conditional DELETE.                                         *)
RemoveFile(f) ==
  /\ f \in Unsent
  /\ fileRow' = [fileRow EXCEPT ![f] = GoneFile]
  /\ UNCHANGED <<letter, asked, expired>>

(* composeSend: pendingFor, then the composition, then the transaction.    *)
PendingFor(t, e, files) ==
  /\ asked[t].at = "idle"
  /\ files \subseteq Unsent
  /\ asked' = [asked EXCEPT ![t] = [at |-> "send", files |-> files, letter |-> e]]
  /\ UNCHANGED <<fileRow, letter, expired>>

(* Mutant: the UPDATE takes files by their ids alone.                      *)
ClaimedAnyway(files) == files

Claimed(files) == files \cap Unsent

(* The row and claim in one transaction: rolled back if the email is no    *)
(* draft any more, or if not every file could be claimed.                  *)
QueueWithFiles(t) ==
  LET e == asked[t].letter
      files == asked[t].files
  IN /\ asked[t].at = "send"
     /\ asked' = [asked EXCEPT ![t] = NoRequest]
     /\ IF letter[e].at = "draft" /\ Claimed(files) = files
          THEN /\ letter' = [letter EXCEPT ![e].at = "pending", ![e].files = files]
               /\ fileRow' = [f \in Attachment |->
                                IF f \in Claimed(files) THEN [fileRow[f] EXCEPT !.outbox = e]
                                ELSE fileRow[f]]
          ELSE UNCHANGED <<letter, fileRow>>
     /\ UNCHANGED expired

FilesFor(e) == {f \in Linked(e) : fileRow[f].data}

(* An attempt the server accepts.                                          *)
Carry(e) ==
  /\ letter[e].at = "pending"
  /\ letter' = [letter EXCEPT ![e].at = "sent", ![e].carried = FilesFor(e)]
  /\ expired' = [expired EXCEPT ![e] = {f \in letter[e].files : fileRow[f].age = 2}]
  /\ UNCHANGED <<fileRow, asked>>

GrowOld(f) ==
  /\ fileRow[f].there
  /\ fileRow[f].age < 2
  /\ fileRow' = [fileRow EXCEPT ![f].age = @ + 1]
  /\ UNCHANGED <<letter, asked, expired>>

(* purge: two statements.                                                  *)
PurgeUnsent ==
  /\ fileRow' = [f \in Attachment |->
                   IF f \in Unsent /\ fileRow[f].age >= 1 THEN GoneFile
                   ELSE fileRow[f]]
  /\ UNCHANGED <<letter, asked, expired>>

PurgeContents ==
  /\ fileRow' = [f \in Attachment |->
                   IF fileRow[f].age = 2 THEN [fileRow[f] EXCEPT !.data = FALSE] ELSE fileRow[f]]
  /\ UNCHANGED <<letter, asked, expired>>

RequestFails(t) ==
  /\ asked[t].at # "idle"
  /\ asked' = [asked EXCEPT ![t] = NoRequest]
  /\ UNCHANGED <<fileRow, letter, expired>>

FilesNext ==
  \/ \E t \in Tab :
       \/ CountUnsent(t) \/ QueueWithFiles(t) \/ RequestFails(t)
       \/ \E f \in Attachment : SaveFile(t, f)
       \/ \E e \in Letter, files \in SUBSET Attachment : PendingFor(t, e, files)
  \/ \E f \in Attachment : RemoveFile(f) \/ GrowOld(f)
  \/ \E e \in Letter : Carry(e)
  \/ PurgeUnsent \/ PurgeContents

FilesSpec == FilesInit /\ [][FilesNext]_fileVars

-----------------------------------------------------------------------------

(* An email leaves the composer with all its files or not at all: whatever *)
(* was removed, purged or sent from another tab between the check and the  *)
(* transaction, those of an email in the queue stay linked to it.          *)
QueuedWithItsFiles ==
  \A e \in Letter : letter[e].at # "draft" => Linked(e) = letter[e].files

(* "Files whose content was purged are skipped": only those that were past *)
(* the retention when the email went out.                                  *)
SentWithItsFiles ==
  \A e \in Letter :
    letter[e].at = "sent" => letter[e].files \ expired[e] \subseteq letter[e].carried

(* Both: an email is delivered with what its author attached to it.        *)
DeliversItsFiles == QueuedWithItsFiles /\ SentWithItsFiles

=============================================================================
