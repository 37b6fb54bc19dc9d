------------------------------ MODULE Listings ------------------------------
(***************************************************************************)
(* One property, as requests change it (properties.service.ts): each reads *)
(* it from the site backend, and then writes what it has made of what it   *)
(* read.  A write is one step of the site backend, which gives the         *)
(* property a new version.                                                 *)
(*                                                                         *)
(* Each edit sets a value of its own, numbered in the order of the edits.  *)
(***************************************************************************)
EXTENDS Naturals

CONSTANTS
  Detail,     \* columns of the details row, which a write replaces as a whole
  Fragile,    \* those with values that can be stored but buildDetails does not carry over:
              \* a plot area that is not written as a plain number, an empty list
  Requester,  \* bound: how many requests run at once
  MaxWrites,  \* bound: no request begins once the property was written so often
  MaxEdits,   \* bound on the edits
  Omitted,    \* not in the body of the request
  Blank       \* what a column has that was written without a value

ASSUME FragileAssumption == Fragile \subseteq Detail
ASSUME MaxWritesAssumption == MaxWrites \in Nat
ASSUME MaxEditsAssumption == MaxEdits \in Nat

VARIABLES
  listing,  \* [status, approval, source, details, description, version] or Removed
  request,  \* [Requester -> record]: what each is about to write
  edits     \* history: edits begun

listingVars == <<listing, request, edits>>

Removed == [status |-> "removed", version |-> 0]

NoWrite == [kind |-> "none"]

(* A new property is a draft.                                              *)
ListingInit ==
  /\ \E from \in {"crm", "owner-post"} :
       listing = [status |-> "unavailable", approval |-> "Pending", source |-> from,
                  details |-> [d \in Detail |-> 0], description |-> 0, version |-> 1]
  /\ request = [r \in Requester |-> NoWrite]
  /\ edits = 0

-----------------------------------------------------------------------------

(* findOne, and what follows from it.                                      *)
Reads(r, next) ==
  /\ request[r] = NoWrite
  /\ listing.version <= MaxWrites
  /\ request' = [request EXCEPT ![r] = next]
  /\ UNCHANGED listing

(* Mutant: the version is not handed on.                                   *)
VersionDropped(sent) == Omitted

ExpectedUpdatedAt(sent) == sent

(* buildDetails, of the details read and of the body: what the body leaves *)
(* out is sent as it was read, or not at all, and then is blank.           *)
MergedDetails(body, dropped) ==
  [d \in Detail |-> CASE d \in body            -> edits + 1
                      [] d \in dropped \ body  -> Blank
                      [] OTHER                 -> listing.details[d]]

(* buildSitePayload: the status is sent as it was read; a description that *)
(* is left out, as a country, gets the default of new properties.          *)
Payload(body, dropped, described, status, version) ==
  [kind        |-> "update",
   body        |-> body,
   details     |-> MergedDetails(body, dropped),
   replaces    |-> body # {},
   description |-> IF described THEN edits + 1 ELSE Blank,
   gives       |-> status # Omitted,
   status      |-> IF status = Omitted THEN listing.status ELSE status,
   sent        |-> version,
   expected    |-> ExpectedUpdatedAt(version)]

UpdateListing(r, body, described, status, version) ==
  /\ listing # Removed
  /\ edits < MaxEdits
  /\ edits' = edits + 1
  /\ \E dropped \in SUBSET Fragile : Reads(r, Payload(body, dropped, described, status, version))

Sold == {"sold", "rented"}

IsLive == listing.status = "available" /\ listing.approval = "Approved"

(* toggleVisibility.                                                       *)
ToggleVisibility(r) ==
  /\ listing # Removed
  /\ listing.status \notin Sold
  /\ Reads(r, [kind |-> "status", status |-> IF IsLive THEN "archived" ELSE "available"])
  /\ UNCHANGED edits

(* setApprovalStatus: an owner's post is published by its approval.        *)
SetApprovalStatus(r, approval) ==
  /\ listing # Removed
  /\ IF approval = "Approved" /\ listing.source = "owner-post"
       THEN listing.status \notin Sold /\ Reads(r, [kind |-> "status", status |-> "available"])
       ELSE Reads(r, [kind |-> "approval", approval |-> approval])
  /\ UNCHANGED edits

RemoveListing(r) ==
  /\ listing # Removed
  /\ Reads(r, [kind |-> "remove"])
  /\ UNCHANGED edits

Refused(r) ==
  \/ listing = Removed
  \/ request[r].kind = "update" /\ request[r].expected \notin {Omitted, listing.version}

(* The site backend's side of a write.                                     *)
Written(r) ==
  LET w == request[r]
      next == [listing EXCEPT !.version = @ + 1]
  IN CASE w.kind = "remove" -> Removed
       [] w.kind = "approval" -> [next EXCEPT !.approval = w.approval]
       [] w.kind = "status" ->
            [next EXCEPT !.status = w.status,
                         !.approval = IF w.status = "available" THEN "Approved" ELSE @]
       [] w.kind = "update" ->
            [next EXCEPT !.status = w.status,
                         !.description = w.description,
                         !.details = IF w.replaces THEN w.details ELSE @]

SiteWrites(r) ==
  /\ request[r] # NoWrite
  /\ listing' = IF Refused(r) THEN listing ELSE Written(r)
  /\ request' = [request EXCEPT ![r] = NoWrite]
  /\ UNCHANGED edits

RequestStops(r) ==
  /\ request[r] # NoWrite
  /\ request' = [request EXCEPT ![r] = NoWrite]
  /\ UNCHANGED <<listing, edits>>

(* The form of the property sends the version it has loaded; another       *)
(* client may send none.                                                   *)
ListingNext ==
  \E r \in Requester :
    \/ \E body \in SUBSET Detail, described \in BOOLEAN, status \in {"available", "sold", Omitted},
          version \in (1 .. listing.version) \cup {Omitted} :
         UpdateListing(r, body, described, status, version)
    \/ ToggleVisibility(r)
    \/ \E approval \in {"Approved", "Pending"} : SetApprovalStatus(r, approval)
    \/ RemoveListing(r) \/ SiteWrites(r) \/ RequestStops(r)

ListingSpec == ListingInit /\ [][ListingNext]_listingVars

-----------------------------------------------------------------------------

(* "The server checks this version inside the save ... nothing is          *)
(* overwritten" (submit of PropertyForm.tsx): although the details row is  *)
(* replaced by one read earlier, an edit that sent the version it had      *)
(* loaded changes only what it gives, whatever was written meanwhile.      *)
(* What it leaves out never goes back to an older value; buildDetails may  *)
(* drop it, where it does not carry over what is stored.                   *)
EditsUndoNothing ==
  [][\A r \in Requester :
       LET w == request[r]
       IN w.kind = "update" /\ request'[r] = NoWrite /\ w.sent # Omitted /\ listing' # listing =>
            /\ \A d \in Detail \ w.body :
                 \/ listing'.details[d] = listing.details[d]
                 \/ d \in Fragile /\ listing'.details[d] = Blank
            /\ ~w.gives => listing'.status = listing.status
            /\ listing'.approval = listing.approval]_listingVars

=============================================================================
