---------------------------- MODULE LeadDocuments ----------------------------
(***************************************************************************)
(* The documents of one lead (uploadDocument and deleteDocument of         *)
(* leads.service.ts): at most two rows, each with an object in the bucket  *)
(* whose key is made of the lead, the number of the attachment and the     *)
(* extension.                                                              *)
(***************************************************************************)
EXTENDS Naturals, FiniteSets

CONSTANTS
  Upload,     \* the uploads there may be, each with the id of its row
  Extension,  \* of the file uploaded, or of the watermarked image
  Desk        \* bound: how many requests run at once

VARIABLES
  docs,     \* the lead_documents rows: [id, number, extension]
  bucket,   \* the keys of the lead's objects: <<number, extension>>
  chore,    \* [Desk -> record]: requests under way
  uploads,  \* history: uploads begun
  crossed,  \* history: two requests of the lead ran at once
  broken    \* history: a request stopped half way

docVars == <<docs, bucket, chore, uploads, crossed, broken>>

NoChore == [at |-> "idle"]

DocumentsInit ==
  /\ docs = {}
  /\ bucket = {}
  /\ chore = [t \in Desk |-> NoChore]
  /\ uploads = {}
  /\ crossed = FALSE
  /\ broken = FALSE

-----------------------------------------------------------------------------

DocKey(doc) == <<doc.number, doc.extension>>

Busy == {t \in Desk : chore[t].at # "idle"}

Begins(t, next) ==
  /\ chore[t].at = "idle"
  /\ chore' = [chore EXCEPT ![t] = next]
  /\ crossed' = (crossed \/ Busy # {})

(* Mutant: the number is the count of the rows.                            *)
NumberByCount(rows) == Cardinality(rows) + 1

NumberFor(rows) == IF \E d \in rows : d.number = 1 THEN 2 ELSE 1

(* The extension is known when the watermark has worked, or not.           *)
UploadDocument(t, u, x) ==
  /\ u \notin uploads
  /\ Cardinality(docs) < 2
  /\ Begins(t, [at |-> "write", doc |-> [id |-> u, number |-> NumberFor(docs), extension |-> x]])
  /\ uploads' = uploads \cup {u}
  /\ UNCHANGED <<docs, bucket, broken>>

WriteObject(t) ==
  /\ chore[t].at = "write"
  /\ bucket' = bucket \cup {DocKey(chore[t].doc)}
  /\ chore' = [chore EXCEPT ![t].at = "insert"]
  /\ UNCHANGED <<docs, uploads, crossed, broken>>

InsertRow(t) ==
  /\ chore[t].at = "insert"
  /\ docs' = docs \cup {chore[t].doc}
  /\ chore' = [chore EXCEPT ![t] = NoChore]
  /\ UNCHANGED <<bucket, uploads, crossed, broken>>

DeleteDocument(t, d) ==
  /\ d \in docs
  /\ Begins(t, [at |-> "delete", doc |-> d])
  /\ UNCHANGED <<docs, bucket, uploads, broken>>

(* An object that cannot be deleted is left behind.                        *)
DeleteObject(t) ==
  /\ chore[t].at = "delete"
  /\ bucket' \in {bucket, bucket \ {DocKey(chore[t].doc)}}
  /\ chore' = [chore EXCEPT ![t].at = "remove"]
  /\ UNCHANGED <<docs, uploads, crossed, broken>>

RemoveRow(t) ==
  /\ chore[t].at = "remove"
  /\ docs' = docs \ {chore[t].doc}
  /\ chore' = [chore EXCEPT ![t] = NoChore]
  /\ UNCHANGED <<bucket, uploads, crossed, broken>>

ChoreStops(t) ==
  /\ t \in Busy
  /\ chore' = [chore EXCEPT ![t] = NoChore]
  /\ broken' = (broken \/ chore[t].at = "remove")
  /\ UNCHANGED <<docs, bucket, uploads, crossed>>

DocumentsNext ==
  \E t \in Desk :
    \/ \E u \in Upload, x \in Extension : UploadDocument(t, u, x)
    \/ \E d \in docs : DeleteDocument(t, d)
    \/ WriteObject(t) \/ InsertRow(t) \/ DeleteObject(t) \/ RemoveRow(t) \/ ChoreStops(t)

DocumentsSpec == DocumentsInit /\ [][DocumentsNext]_docVars

-----------------------------------------------------------------------------

(* However uploads, failed uploads, deletions and failed deletions follow  *)
(* each other, each document listed has an object, and one of its own, so  *)
(* that neither a new upload nor a deletion takes another's.  Requests of  *)
(* the lead that overlap, and a deletion cut short between the object and  *)
(* the row, can break this.                                                *)
DocumentsHaveTheirObjects ==
  Busy = {} /\ ~crossed /\ ~broken =>
    /\ Cardinality(docs) <= 2
    /\ \A d \in docs : DocKey(d) \in bucket
    /\ \A d1, d2 \in docs : d1 # d2 => d1.number # d2.number

=============================================================================
