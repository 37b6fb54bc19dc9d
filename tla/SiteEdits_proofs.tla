-------------------------- MODULE SiteEdits_proofs --------------------------
(***************************************************************************)
(* Theorems about what staff change of a property, a project and a         *)
(* submission: Listings, for any number of details and requests,           *)
(* ProjectForm, for any number of sections and authors, and Inbounds, for  *)
(* any number of staff, floors and edits.                                  *)
(***************************************************************************)
EXTENDS Listings, ProjectForm, Inbounds, TLAPS

Status == {"unavailable", "available", "archived", "sold", "rented"}

Approval == {"Approved", "Pending"}

Value == Nat \cup {Blank}

Stored == [status : Status, approval : Approval, source : {"crm", "owner-post"},
           details : [Detail -> Value], description : Value, version : Nat \ {0}]

Update == [kind : {"update"}, body : SUBSET Detail, details : [Detail -> Value],
           replaces : BOOLEAN, description : Value, gives : BOOLEAN, status : Status,
           sent : Nat \cup {Omitted}, expected : Nat \cup {Omitted}]

Other == {NoWrite} \cup [kind : {"status"}, status : Status]
           \cup [kind : {"approval"}, approval : Approval] \cup [kind : {"remove"}]

ListingsTypeOK ==
  /\ listing \in Stored \cup {Removed}
  /\ request \in [Requester -> Update \cup Other]
  /\ edits \in Nat

(* Only what buildDetails does not carry over can be blank.                *)
SameOrBlank(new, old, fields) ==
  \A d \in fields : new[d] = old[d] \/ (d \in Fragile /\ new[d] = Blank)

(* What an update has not been given it has as the property still is,      *)
(* unless the property has been written since the version that was sent.   *)
StillAsRead(w) ==
  /\ w.expected = w.sent
  /\ listing # Removed => w.sent <= listing.version
  /\ listing # Removed /\ w.sent = listing.version =>
       /\ SameOrBlank(w.details, listing.details, Detail \ w.body)
       /\ ~w.gives => w.status = listing.status

ListingsInv ==
  /\ ListingsTypeOK
  /\ \A r \in Requester :
       request[r].kind = "update" /\ request[r].sent # Omitted => StillAsRead(request[r])

-----------------------------------------------------------------------------

LEMMA ListingInitHolds == ListingInit => ListingsInv
  <1>. SUFFICES ASSUME ListingInit PROVE ListingsInv
    OBVIOUS
  <1>1. listing \in Stored
    BY DEF ListingInit, Stored, Status, Approval, Value
  <1>2. \A r \in Requester : request[r].kind = "none"
    BY DEF ListingInit, NoWrite
  <1>. QED
    BY <1>1, <1>2 DEF ListingInit, ListingsInv, ListingsTypeOK, Other

(* A request that begins: the others are as they were.                     *)
LEMMA RequestBegins ==
  ASSUME ListingsInv, NEW r \in Requester, NEW w \in Update \cup Other, Reads(r, w), edits' \in Nat,
         w.kind = "update" /\ w.sent # Omitted => StillAsRead(w)
  PROVE  ListingsInv'
  <1>1. ListingsTypeOK'
    BY DEF ListingsInv, ListingsTypeOK, Reads
  <1>2. ASSUME NEW q \in Requester, request'[q].kind = "update", request'[q].sent # Omitted
        PROVE  StillAsRead(request[q])'
    <2>1. request'[q] = IF q = r THEN w ELSE request[q]
      BY DEF ListingsInv, ListingsTypeOK, Reads
    <2>2. StillAsRead(request'[q])
      BY <1>2, <2>1 DEF ListingsInv
    <2>. QED
      BY <2>2 DEF StillAsRead, Reads
  <1>. QED
    BY <1>1, <1>2 DEF ListingsInv

LEMMA UpdatePreserves ==
  ASSUME ListingsInv, NEW r \in Requester, NEW body \in SUBSET Detail, NEW described \in BOOLEAN,
         NEW status \in {"available", "sold", Omitted},
         NEW version \in (1 .. listing.version) \cup {Omitted},
         UpdateListing(r, body, described, status, version)
  PROVE  ListingsInv'
  <1>0. PICK dropped \in SUBSET Fragile :
               Reads(r, Payload(body, dropped, described, status, version))
    BY DEF UpdateListing
  <1>. DEFINE w == Payload(body, dropped, described, status, version)
  <1>1. listing \in Stored /\ edits \in Nat
    BY DEF UpdateListing, ListingsInv, ListingsTypeOK
  <1>2. w \in Update
    <2>1. MergedDetails(body, dropped) \in [Detail -> Value]
      BY <1>1 DEF MergedDetails, Stored, Value
    <2>2. version \in Nat \cup {Omitted}
      BY <1>1 DEF Stored
    <2>3. (IF status = Omitted THEN listing.status ELSE status) \in Status
      BY <1>1 DEF Stored, Status
    <2>4. (IF described THEN edits + 1 ELSE Blank) \in Value
      BY <1>1 DEF Value
    <2>. QED
      BY <2>1, <2>2, <2>3, <2>4 DEF Payload, Update, ExpectedUpdatedAt
  <1>3. w.sent # Omitted => StillAsRead(w)
    <2>1. SUFFICES ASSUME version # Omitted PROVE StillAsRead(w)
      BY DEF Payload
    <2>2. version <= listing.version
      BY <1>1, <2>1 DEF Stored
    <2>3. SameOrBlank(MergedDetails(body, dropped), listing.details, Detail \ body)
      BY DEF MergedDetails, SameOrBlank
    <2>. QED
      BY <2>2, <2>3 DEF StillAsRead, Payload, ExpectedUpdatedAt
  <1>4. edits' \in Nat
    BY DEF UpdateListing, ListingsInv, ListingsTypeOK
  <1>. QED
    BY <1>0, <1>2, <1>3, <1>4, RequestBegins

LEMMA WrittenIsStored ==
  ASSUME listing \in Stored, NEW row,
         NEW s \in Status, NEW a \in Approval, NEW d \in [Detail -> Value], NEW t \in Value,
         row = [status |-> s, approval |-> a, source |-> listing.source, details |-> d,
                description |-> t, version |-> listing.version + 1]
  PROVE  row \in Stored /\ row.version = listing.version + 1
  <1>1. listing.version + 1 \in Nat \ {0} /\ listing.source \in {"crm", "owner-post"}
    BY DEF Stored
  <1>. QED
    BY <1>1 DEF Stored

(* A write leaves no request with the version the property has by then.    *)
LEMMA SiteWritesPreserves ==
  ASSUME ListingsInv, NEW r \in Requester, SiteWrites(r)
  PROVE  ListingsInv'
  <1>1. request' \in [Requester -> Update \cup Other]
    BY DEF SiteWrites, ListingsInv, ListingsTypeOK, Other
  <1>2. request'[r].kind = "none" /\ \A q \in Requester \ {r} : request'[q] = request[q]
    BY DEF SiteWrites, ListingsInv, ListingsTypeOK, NoWrite
  <1>3. CASE Refused(r)
    BY <1>1, <1>2, <1>3 DEF SiteWrites, ListingsInv, ListingsTypeOK, StillAsRead
  <1>4. CASE ~Refused(r)
    <2>1. listing \in Stored /\ listing' = Written(r)
      BY <1>4 DEF Refused, SiteWrites, ListingsInv, ListingsTypeOK
    <2>2. \/ listing' = Removed
          \/ listing' \in Stored /\ listing'.version = listing.version + 1
      <3>1. request[r] \in Update \cup Other /\ request[r] # NoWrite
        BY DEF SiteWrites, ListingsInv, ListingsTypeOK
      <3>. DEFINE w == request[r]
      <3>2. CASE w \in Update
        <4>. DEFINE details == IF w.replaces THEN w.details ELSE listing.details
        <4>1. Written(r) = [status |-> w.status, approval |-> listing.approval,
                            source |-> listing.source, details |-> details,
                            description |-> w.description, version |-> listing.version + 1]
          BY <2>1, <3>2 DEF Written, Update, Stored
        <4>2. /\ w.status \in Status /\ listing.approval \in Approval
              /\ details \in [Detail -> Value] /\ w.description \in Value
          BY <2>1, <3>2 DEF Update, Stored
        <4>. QED
          BY <2>1, <4>1, <4>2, WrittenIsStored
      <3>3. CASE w \in [kind : {"status"}, status : Status]
        <4>. DEFINE approval == IF w.status = "available" THEN "Approved" ELSE listing.approval
        <4>1. Written(r) = [status |-> w.status, approval |-> approval,
                            source |-> listing.source, details |-> listing.details,
                            description |-> listing.description, version |-> listing.version + 1]
          BY <2>1, <3>3 DEF Written, Stored
        <4>2. /\ w.status \in Status /\ approval \in Approval
              /\ listing.details \in [Detail -> Value] /\ listing.description \in Value
          BY <2>1, <3>3 DEF Approval, Stored
        <4>. QED
          BY <2>1, <4>1, <4>2, WrittenIsStored
      <3>4. CASE w \in [kind : {"approval"}, approval : Approval]
        <4>1. Written(r) = [status |-> listing.status, approval |-> w.approval,
                            source |-> listing.source, details |-> listing.details,
                            description |-> listing.description, version |-> listing.version + 1]
          BY <2>1, <3>4 DEF Written, Stored
        <4>2. /\ listing.status \in Status /\ w.approval \in Approval
              /\ listing.details \in [Detail -> Value] /\ listing.description \in Value
          BY <2>1, <3>4 DEF Stored
        <4>. QED
          BY <2>1, <4>1, <4>2, WrittenIsStored
      <3>5. CASE request[r] \in [kind : {"remove"}]
        BY <2>1, <3>5 DEF Written
      <3>. QED
        BY <3>1, <3>2, <3>3, <3>4, <3>5 DEF Other
    <2>3. ASSUME NEW q \in Requester, request'[q].kind = "update", request'[q].sent # Omitted
          PROVE  StillAsRead(request[q])'
      <3>1. StillAsRead(request[q]) /\ request'[q] = request[q]
        BY <1>2, <2>3 DEF ListingsInv
      <3>2. listing # Removed /\ listing.version \in Nat
        BY <1>4, <2>1 DEF Refused, Stored
      <3>3. request[q].sent \in Nat
        BY <3>1, <2>3 DEF ListingsInv, ListingsTypeOK, Update, Other, NoWrite
      <3>. QED
        BY <2>2, <3>1, <3>2, <3>3 DEF StillAsRead
    <2>. QED
      BY <1>1, <2>2, <2>3 DEF ListingsInv, ListingsTypeOK, SiteWrites
  <1>. QED
    BY <1>3, <1>4

LEMMA ListingStep == ListingsInv /\ [ListingNext]_listingVars => ListingsInv'
  <1>. SUFFICES ASSUME ListingsInv, [ListingNext]_listingVars PROVE ListingsInv'
    OBVIOUS
  <1>1. ASSUME NEW r \in Requester, ToggleVisibility(r) PROVE ListingsInv'
    <2>. DEFINE w == [kind |-> "status", status |-> IF IsLive THEN "archived" ELSE "available"]
    <2>1. w \in Update \cup Other /\ w.kind # "update"
      BY DEF Other, Status
    <2>2. edits' \in Nat
      BY <1>1 DEF ToggleVisibility, ListingsInv, ListingsTypeOK
    <2>. QED
      BY <1>1, <2>1, <2>2, RequestBegins DEF ToggleVisibility
  <1>2. ASSUME NEW r \in Requester, NEW approval \in {"Approved", "Pending"},
               SetApprovalStatus(r, approval)
        PROVE  ListingsInv'
    <2>. DEFINE live == [kind |-> "status", status |-> "available"]
                given == [kind |-> "approval", approval |-> approval]
    <2>1. /\ live \in Update \cup Other /\ live.kind # "update"
          /\ given \in Update \cup Other /\ given.kind # "update"
      BY DEF Other, Status, Approval
    <2>2. edits' \in Nat
      BY <1>2 DEF SetApprovalStatus, ListingsInv, ListingsTypeOK
    <2>3. Reads(r, live) \/ Reads(r, given)
      BY <1>2 DEF SetApprovalStatus
    <2>. QED
      BY <2>1, <2>2, <2>3, RequestBegins
  <1>3. ASSUME NEW r \in Requester, RemoveListing(r) PROVE ListingsInv'
    <2>. DEFINE w == [kind |-> "remove"]
    <2>1. w \in Update \cup Other /\ w.kind # "update"
      BY DEF Other
    <2>2. edits' \in Nat
      BY <1>3 DEF RemoveListing, ListingsInv, ListingsTypeOK
    <2>. QED
      BY <1>3, <2>1, <2>2, RequestBegins DEF RemoveListing
  <1>4. ASSUME NEW r \in Requester, RequestStops(r) PROVE ListingsInv'
    <2>1. /\ request' \in [Requester -> Update \cup Other]
          /\ request'[r].kind = "none" /\ \A q \in Requester \ {r} : request'[q] = request[q]
      BY <1>4 DEF RequestStops, ListingsInv, ListingsTypeOK, Other, NoWrite
    <2>. QED
      BY <1>4, <2>1 DEF RequestStops, ListingsInv, ListingsTypeOK, StillAsRead
  <1>5. CASE UNCHANGED listingVars
    BY <1>5 DEF listingVars, ListingsInv, ListingsTypeOK, StillAsRead
  <1>. QED
    BY <1>1, <1>2, <1>3, <1>4, <1>5, UpdatePreserves, SiteWritesPreserves DEF ListingNext

(* Only the site's answer ends an update with a changed property.          *)
LEMMA EndsByItsWrite ==
  ASSUME ListingsInv, ListingNext, NEW r \in Requester, request[r].kind = "update",
         request'[r] = NoWrite, listing' # listing
  PROVE  SiteWrites(r)
  <1>1. request[r] # NoWrite
    BY DEF NoWrite
  <1>2. ASSUME NEW q \in Requester, NEW w, Reads(q, w) PROVE FALSE
    BY <1>2 DEF Reads
  <1>3. ASSUME NEW q \in Requester, SiteWrites(q) PROVE q = r
    BY <1>1, <1>3 DEF SiteWrites, ListingsInv, ListingsTypeOK
  <1>4. ASSUME NEW q \in Requester, RequestStops(q) PROVE FALSE
    BY <1>4 DEF RequestStops
  <1>. QED
    BY <1>2, <1>3, <1>4 DEF ListingNext, UpdateListing, ToggleVisibility, SetApprovalStatus,
                            RemoveListing

(* Whatever other requests write between an update's read and its write,   *)
(* one that was sent the version its author had loaded changes only what   *)
(* the author gave; of the rest nothing gets an older value, and only what *)
(* buildDetails does not carry over goes blank.                            *)
THEOREM ListingEditsUndoNothing == ListingSpec => EditsUndoNothing
  <1>1. ASSUME ListingsInv, ListingNext, NEW r \in Requester, request[r].kind = "update",
               request'[r] = NoWrite, request[r].sent # Omitted, listing' # listing
        PROVE  /\ SameOrBlank(listing'.details, listing.details, Detail \ request[r].body)
               /\ ~request[r].gives => listing'.status = listing.status
               /\ listing'.approval = listing.approval
    <2>1. SiteWrites(r) /\ ~Refused(r)
      BY <1>1, EndsByItsWrite DEF SiteWrites
    <2>2. StillAsRead(request[r]) /\ listing \in Stored
      BY <1>1, <2>1 DEF ListingsInv, ListingsTypeOK, Refused
    <2>3. listing # Removed /\ request[r].sent = listing.version
      BY <1>1, <2>1, <2>2 DEF Refused, StillAsRead
    <2>4. listing' = [listing EXCEPT !.version = @ + 1, !.status = request[r].status,
                        !.description = request[r].description,
                        !.details = IF request[r].replaces THEN request[r].details ELSE @]
      BY <1>1, <2>1 DEF SiteWrites, Written
    <2>5. listing'.approval = listing.approval /\ listing'.status = request[r].status
          /\ listing'.details = IF request[r].replaces THEN request[r].details ELSE listing.details
      BY <2>2, <2>4 DEF Stored
    <2>. QED
      BY <2>2, <2>3, <2>5 DEF StillAsRead, SameOrBlank
  <1>2. ListingsInv /\ [ListingNext]_listingVars =>
          [\A r \in Requester :
             LET w == request[r]
             IN w.kind = "update" /\ request'[r] = NoWrite /\ w.sent # Omitted /\ listing' # listing =>
                  /\ \A d \in Detail \ w.body :
                       \/ listing'.details[d] = listing.details[d]
                       \/ d \in Fragile /\ listing'.details[d] = Blank
                  /\ ~w.gives => listing'.status = listing.status
                  /\ listing'.approval = listing.approval]_listingVars
    BY <1>1 DEF SameOrBlank
  <1>. QED
    BY <1>2, ListingInitHolds, ListingStep, PTL DEF ListingSpec, EditsUndoNothing

-----------------------------------------------------------------------------

Values == [Section -> Nat]

Sheet == [at : {"closed", "loading", "open", "saving"}, data : Values, base : Values,
          revision : Nat, offer : BOOLEAN, restored : BOOLEAN, uploading : BOOLEAN]

Stash == [there : BOOLEAN, data : Values, revision : Nat]

Errand == [at : {"none", "sent", "deaf", "ok", "conflict", "failed"}, data : Values,
           base : Values, revision : Nat, ours : BOOLEAN]

ProjectTypeOK ==
  /\ project \in [value : Values, since : Values, revision : Nat]
  /\ sheet \in [Planner -> Sheet]
  /\ stash \in [Planner -> Stash]
  /\ errand \in [Planner -> Errand]
  /\ written \in Nat

(* No value is one that is yet to be typed.                                *)
AllTyped(values) == \A f \in Section : values[f] <= written

(* What an edit goes back to is what the project still has, unless that    *)
(* was changed since, and what it has typed is newer.                      *)
StartsFrom(edit) ==
  /\ edit.revision <= project.revision
  /\ \A f \in Section :
       /\ project.since[f] <= edit.revision => project.value[f] = edit.base[f]
       /\ edit.base[f] <= edit.data[f]
  /\ AllTyped(edit.data)

(* A draft of this version is no older than what the project has.          *)
DraftOf(kept) ==
  kept.there =>
    /\ kept.revision <= project.revision
    /\ \A f \in Section :
         project.since[f] <= kept.revision => project.value[f] <= kept.data[f]
    /\ AllTyped(kept.data)

(* The draft an open form may have offered it extends what the form shows. *)
OfferFits(open, kept) ==
  /\ open.offer => kept.there /\ kept.revision = open.revision
  /\ kept.there /\ kept.revision = open.revision =>
       \A f \in Section : open.base[f] <= kept.data[f]

(* The parts of the invariant that are about one author.                   *)
Sound(s) ==
  /\ sheet[s].at # "closed" => StartsFrom(sheet[s]) /\ OfferFits(sheet[s], stash[s])
  /\ DraftOf(stash[s])
  /\ sheet[s].offer => sheet[s].at = "open"
  /\ errand[s].ours => sheet[s].at = "saving"
  /\ errand[s].at \in {"sent", "deaf"} => StartsFrom(errand[s])

ProjectInv ==
  /\ ProjectTypeOK
  /\ AllTyped(project.value)
  /\ \A f \in Section : project.since[f] <= project.revision
  /\ \A s \in Planner : Sound(s)

-----------------------------------------------------------------------------

LEMMA BlankType ==
  /\ Unwritten \in Values /\ \A f \in Section : Unwritten[f] = 0
  /\ NoSheet \in Sheet /\ NoStash \in Stash /\ NoErrand \in Errand
  BY DEF Unwritten, Values, NoSheet, Sheet, NoStash, Stash, NoErrand, Errand

LEMMA ProjectInitHolds == ProjectInit => ProjectInv
  <1>. SUFFICES ASSUME ProjectInit PROVE ProjectInv
    OBVIOUS
  <1>1. ProjectTypeOK
    BY BlankType DEF ProjectInit, ProjectTypeOK
  <1>2. AllTyped(project.value) /\ \A f \in Section : project.since[f] <= project.revision
    BY BlankType DEF ProjectInit, AllTyped
  <1>3. \A s \in Planner : Sound(s)
    BY DEF ProjectInit, Sound, DraftOf, NoSheet, NoStash, NoErrand
  <1>. QED
    BY <1>1, <1>2, <1>3 DEF ProjectInv

(* A step of one author that leaves the project alone: the others' parts   *)
(* hold as they did, for what was typed stays so.                          *)
LEMMA OneAuthorMoves ==
  ASSUME ProjectInv, NEW s \in Planner, UNCHANGED project, written' \in Nat, written <= written',
         sheet' \in [Planner -> Sheet], stash' \in [Planner -> Stash],
         errand' \in [Planner -> Errand], Sound(s)',
         \A q \in Planner \ {s} :
           sheet'[q] = sheet[q] /\ stash'[q] = stash[q] /\ errand'[q] = errand[q]
  PROVE  ProjectInv'
  <1>1. ProjectTypeOK'
    BY DEF ProjectInv, ProjectTypeOK
  <1>2. \A values \in Values : AllTyped(values) => AllTyped(values)'
    BY DEF AllTyped, Values, ProjectInv, ProjectTypeOK
  <1>3. ASSUME NEW q \in Planner, q # s PROVE Sound(q)'
    <2>1. sheet'[q] = sheet[q] /\ stash'[q] = stash[q] /\ errand'[q] = errand[q]
      BY <1>3
    <2>2. sheet[q].data \in Values /\ stash[q].data \in Values /\ errand[q].data \in Values
      BY DEF ProjectInv, ProjectTypeOK, Sheet, Stash, Errand
    <2>. QED
      BY <1>2, <2>1, <2>2 DEF ProjectInv, Sound, StartsFrom, DraftOf, OfferFits
  <1>4. AllTyped(project.value)' /\ \A f \in Section : (project.since[f] <= project.revision)'
    BY <1>2 DEF ProjectInv, ProjectTypeOK
  <1>. QED
    BY <1>1, <1>3, <1>4 DEF ProjectInv

LEMMA SoundAfter ==
  ASSUME NEW s \in Planner, UNCHANGED <<project, written>>,
         sheet'[s].at # "closed" => StartsFrom(sheet'[s]) /\ OfferFits(sheet'[s], stash'[s]),
         DraftOf(stash'[s]), sheet'[s].offer => sheet'[s].at = "open",
         errand'[s].ours => sheet'[s].at = "saving",
         errand'[s].at \in {"sent", "deaf"} => StartsFrom(errand'[s])
  PROVE  Sound(s)'
  BY DEF Sound, StartsFrom, DraftOf, OfferFits, AllTyped

LEMMA OpenPreserves ==
  ASSUME ProjectInv, NEW s \in Planner, OpenProject(s)
  PROVE  ProjectInv'
  <1>1. /\ sheet'[s] = [NoSheet EXCEPT !.at = "loading", !.data = project.value,
                         !.base = project.value, !.revision = project.revision]
        /\ \A q \in Planner \ {s} : sheet'[q] = sheet[q]
    BY DEF OpenProject, ProjectInv, ProjectTypeOK
  <1>2. sheet'[s] \in Sheet
    BY <1>1, BlankType DEF ProjectInv, ProjectTypeOK, Sheet
  <1>3. sheet' \in [Planner -> Sheet]
    BY <1>1, <1>2 DEF OpenProject, ProjectInv, ProjectTypeOK
  <1>4. /\ sheet'[s].data = project.value /\ sheet'[s].base = project.value
        /\ sheet'[s].revision = project.revision /\ sheet'[s].offer = FALSE
    BY <1>1 DEF NoSheet
  <1>5. StartsFrom(sheet'[s]) /\ OfferFits(sheet'[s], stash[s])
    BY <1>4 DEF ProjectInv, ProjectTypeOK, Values, StartsFrom, OfferFits, Sound, DraftOf, AllTyped
  <1>6. Sound(s)'
    BY <1>4, <1>5 DEF OpenProject, ProjectInv, Sound, StartsFrom, OfferFits, DraftOf, AllTyped
  <1>. QED
    BY <1>1, <1>3, <1>6, OneAuthorMoves DEF OpenProject, ProjectInv, ProjectTypeOK

LEMMA MountPreserves ==
  ASSUME ProjectInv, NEW s \in Planner, MountForm(s)
  PROVE  ProjectInv'
  <1>. DEFINE usable == CanRestore(stash[s], sheet[s].revision)
  <1>1. /\ sheet'[s] = [sheet[s] EXCEPT !.at = "open", !.offer = usable]
        /\ stash'[s] = IF usable THEN stash[s] ELSE NoStash
        /\ \A q \in Planner \ {s} : sheet'[q] = sheet[q] /\ stash'[q] = stash[q]
    BY DEF MountForm, ProjectInv, ProjectTypeOK
  <1>2. usable \in BOOLEAN
    BY DEF CanRestore, ProjectInv, ProjectTypeOK, Stash
  <1>3. sheet' \in [Planner -> Sheet] /\ stash' \in [Planner -> Stash]
    <2>1. sheet'[s] \in Sheet /\ stash'[s] \in Stash
      BY <1>1, <1>2, BlankType DEF ProjectInv, ProjectTypeOK, Sheet
    <2>. QED
      BY <1>1, <2>1 DEF MountForm, ProjectInv, ProjectTypeOK
  <1>4. StartsFrom(sheet'[s]) /\ sheet'[s].at = "open"
    BY <1>1 DEF MountForm, ProjectInv, ProjectTypeOK, Sheet, Sound, StartsFrom
  <1>5. OfferFits(sheet'[s], stash'[s])
    BY <1>1, <1>2 DEF MountForm, ProjectInv, ProjectTypeOK, Sheet, Sound, OfferFits, CanRestore, NoStash
  <1>6. DraftOf(stash'[s])
    BY <1>1 DEF ProjectInv, Sound, DraftOf, NoStash
  <1>7. Sound(s)'
    BY <1>4, <1>5, <1>6 DEF MountForm, ProjectInv, Sound, StartsFrom, OfferFits, DraftOf, AllTyped
  <1>. QED
    BY <1>1, <1>3, <1>7, OneAuthorMoves DEF MountForm, ProjectInv, ProjectTypeOK

(* The form changes, in what it shows or only in its state; its draft      *)
(* still fits it, for what it started from is the same.                    *)
LEMMA FormChanges ==
  ASSUME ProjectInv, NEW s \in Planner, sheet[s].at # "closed", NEW open \in Sheet,
         open.base = sheet[s].base, open.revision = sheet[s].revision, open.at = sheet[s].at,
         open.offer => sheet[s].offer,
         written' \in Nat, written <= written',
         \A f \in Section : open.base[f] <= open.data[f] /\ open.data[f] <= written',
         sheet' = [sheet EXCEPT ![s] = open], UNCHANGED <<project, stash, errand>>
  PROVE  ProjectInv'
  <1>1. sheet' \in [Planner -> Sheet] /\ sheet'[s] = open
          /\ \A q \in Planner \ {s} : sheet'[q] = sheet[q]
    BY DEF ProjectInv, ProjectTypeOK
  <1>2. \A values \in Values : AllTyped(values) => AllTyped(values)'
    BY DEF AllTyped, Values, ProjectInv, ProjectTypeOK
  <1>3. stash[s].data \in Values /\ errand[s].data \in Values
    BY DEF ProjectInv, ProjectTypeOK, Stash, Errand
  <1>4. StartsFrom(sheet[s])' /\ (sheet[s].offer => sheet[s].at = "open")'
    BY <1>1 DEF ProjectInv, Sound, StartsFrom, AllTyped
  <1>5. OfferFits(sheet[s], stash[s])'
    BY <1>1 DEF ProjectInv, Sound, OfferFits
  <1>6. Sound(s)'
    BY <1>2, <1>3, <1>4, <1>5 DEF ProjectInv, Sound, StartsFrom, DraftOf
  <1>. QED
    BY <1>1, <1>6, OneAuthorMoves DEF ProjectInv, ProjectTypeOK

(* What is known of the form of one author.                                *)
LEMMA FormIsSound ==
  ASSUME ProjectInv, NEW s \in Planner, sheet[s].at # "closed"
  PROVE  /\ sheet[s] \in Sheet /\ written \in Nat
         /\ sheet[s].base \in Values /\ sheet[s].data \in Values
         /\ \A f \in Section : sheet[s].base[f] <= sheet[s].data[f] /\ sheet[s].data[f] <= written
         /\ sheet[s].offer => sheet[s].at = "open"
  BY DEF ProjectInv, ProjectTypeOK, Sheet, Sound, StartsFrom, OfferFits, AllTyped

LEMMA TypingPreserves ==
  ASSUME ProjectInv, NEW s \in Planner, NEW f \in Section,
         EnterValue(s, f) \/ FloorPlanUploaded(s, f)
  PROVE  ProjectInv'
  <1>. DEFINE typed == [sheet[s].data EXCEPT ![f] = written + 1]
  <1>1. sheet[s].at \in {"open", "saving"} /\ written' = written + 1
    BY DEF EnterValue, FloorPlanUploaded, Editable, Mounted
  <1>2. sheet[s].at # "closed"
    BY <1>1
  <1>3. typed \in Values /\ \A g \in Section : sheet[s].base[g] <= typed[g] /\ typed[g] <= written'
    BY <1>1, <1>2, FormIsSound DEF Values
  <1>4. CASE EnterValue(s, f)
    <2>. DEFINE open == [sheet[s] EXCEPT !.data = typed]
    <2>1. sheet' = [sheet EXCEPT ![s] = open]
      BY <1>4 DEF EnterValue
    <2>2. /\ open \in Sheet /\ open.base = sheet[s].base /\ open.revision = sheet[s].revision
          /\ open.data = typed /\ open.at = sheet[s].at /\ open.offer = sheet[s].offer
      BY <1>2, <1>3, FormIsSound DEF Sheet
    <2>3. /\ UNCHANGED <<project, stash, errand>> /\ written' \in Nat /\ written <= written'
          /\ open.at = sheet[s].at /\ (open.offer => sheet[s].offer)
          /\ \A g \in Section : open.base[g] <= open.data[g] /\ open.data[g] <= written'
      BY <1>1, <1>2, <1>3, <1>4, <2>2, FormIsSound DEF EnterValue
    <2>. HIDE DEF open, typed
    <2>. QED
      BY <1>2, <2>1, <2>2, <2>3, FormChanges
  <1>5. CASE FloorPlanUploaded(s, f)
    <2>. DEFINE open == [sheet[s] EXCEPT !.uploading = FALSE, !.data = typed]
    <2>1. sheet' = [sheet EXCEPT ![s] = open]
      BY <1>5 DEF FloorPlanUploaded
    <2>2. /\ open \in Sheet /\ open.base = sheet[s].base /\ open.revision = sheet[s].revision
          /\ open.data = typed /\ open.at = sheet[s].at /\ open.offer = sheet[s].offer
      BY <1>2, <1>3, FormIsSound DEF Sheet
    <2>3. /\ UNCHANGED <<project, stash, errand>> /\ written' \in Nat /\ written <= written'
          /\ open.at = sheet[s].at /\ (open.offer => sheet[s].offer)
          /\ \A g \in Section : open.base[g] <= open.data[g] /\ open.data[g] <= written'
      BY <1>1, <1>2, <1>3, <1>5, <2>2, FormIsSound DEF FloorPlanUploaded
    <2>. HIDE DEF open, typed
    <2>. QED
      BY <1>2, <2>1, <2>2, <2>3, FormChanges
  <1>. QED
    BY <1>4, <1>5

LEMMA UndoPreserves ==
  ASSUME ProjectInv, NEW s \in Planner, NEW f \in Section, UndoValue(s, f)
  PROVE  ProjectInv'
  <1>. DEFINE undone == [sheet[s].data EXCEPT ![f] = sheet[s].base[f]]
              open == [sheet[s] EXCEPT !.data = undone]
  <1>1. sheet[s].at # "closed"
    BY DEF UndoValue, Editable, Mounted
  <1>2. undone \in Values /\ \A g \in Section : sheet[s].base[g] <= undone[g] /\ undone[g] <= written
    BY <1>1, FormIsSound DEF Values
  <1>3. sheet' = [sheet EXCEPT ![s] = open]
    BY DEF UndoValue
  <1>4. /\ open \in Sheet /\ open.base = sheet[s].base /\ open.revision = sheet[s].revision
        /\ open.data = undone /\ open.at = sheet[s].at /\ open.offer = sheet[s].offer
    BY <1>1, <1>2, FormIsSound DEF Sheet
  <1>5. /\ UNCHANGED <<project, stash, errand>> /\ written' \in Nat /\ written <= written'
        /\ open.at = sheet[s].at /\ (open.offer => sheet[s].offer)
        /\ \A g \in Section : open.base[g] <= open.data[g] /\ open.data[g] <= written'
    BY <1>1, <1>2, <1>3, <1>4, FormIsSound DEF UndoValue
  <1>. HIDE DEF open, undone
  <1>. QED
    BY <1>1, <1>2, <1>3, <1>4, <1>5, FormChanges

LEMMA UploadingPreserves ==
  ASSUME ProjectInv, NEW s \in Planner, ChooseFloorPlan(s) \/ FloorPlanFailed(s)
  PROVE  ProjectInv'
  <1>1. sheet[s].at # "closed"
    BY DEF ChooseFloorPlan, FloorPlanFailed, Editable, Mounted
  <1>2. PICK u \in BOOLEAN : sheet' = [sheet EXCEPT ![s] = [sheet[s] EXCEPT !.uploading = u]]
    BY DEF ChooseFloorPlan, FloorPlanFailed
  <1>. DEFINE open == [sheet[s] EXCEPT !.uploading = u]
  <1>3. /\ open \in Sheet /\ open.base = sheet[s].base /\ open.revision = sheet[s].revision
        /\ open.data = sheet[s].data /\ open.at = sheet[s].at /\ open.offer = sheet[s].offer
    BY <1>1, FormIsSound DEF Sheet
  <1>4. sheet' = [sheet EXCEPT ![s] = open]
    BY <1>2
  <1>5. /\ UNCHANGED <<project, stash, errand>> /\ written' \in Nat /\ written <= written'
        /\ open.at = sheet[s].at /\ (open.offer => sheet[s].offer)
        /\ \A g \in Section : open.base[g] <= open.data[g] /\ open.data[g] <= written'
    BY <1>1, <1>2, <1>3, FormIsSound DEF ChooseFloorPlan, FloorPlanFailed
  <1>. HIDE DEF open
  <1>. QED
    BY <1>1, <1>3, <1>4, <1>5, FormChanges

LEMMA RestorePreserves ==
  ASSUME ProjectInv, NEW s \in Planner, RestoreChanges(s)
  PROVE  ProjectInv'
  <1>. DEFINE open == [sheet[s] EXCEPT !.offer = FALSE, !.restored = TRUE, !.data = stash[s].data]
  <1>1. sheet[s].at # "closed"
    BY DEF RestoreChanges, ProjectInv, Sound
  <1>2. /\ stash[s].data \in Values
        /\ \A f \in Section : sheet[s].base[f] <= stash[s].data[f] /\ stash[s].data[f] <= written
    BY <1>1 DEF RestoreChanges, ProjectInv, ProjectTypeOK, Stash, Sound, OfferFits, DraftOf, AllTyped
  <1>3. sheet' = [sheet EXCEPT ![s] = open]
    BY DEF RestoreChanges
  <1>4. /\ open \in Sheet /\ open.base = sheet[s].base /\ open.revision = sheet[s].revision
        /\ open.data = stash[s].data /\ open.offer = FALSE /\ open.at = sheet[s].at
    BY <1>1, <1>2, FormIsSound DEF Sheet
  <1>5. /\ UNCHANGED <<project, stash, errand>> /\ written' \in Nat /\ written <= written'
        /\ open.at = sheet[s].at /\ (open.offer => sheet[s].offer)
        /\ \A g \in Section : open.base[g] <= open.data[g] /\ open.data[g] <= written'
    BY <1>1, <1>2, <1>3, <1>4, FormIsSound DEF RestoreChanges
  <1>. HIDE DEF open
  <1>. QED
    BY <1>1, <1>2, <1>3, <1>4, <1>5, FormChanges

-----------------------------------------------------------------------------

LEMMA FlushedIsSound ==
  ASSUME ProjectInv, NEW s \in Planner
  PROVE  /\ FlushedDraft(s) \in Stash /\ DraftOf(FlushedDraft(s))
         /\ sheet[s].at # "closed" => OfferFits(sheet[s], FlushedDraft(s))
  <1>1. CASE ~Editable(s)
    BY <1>1 DEF FlushedDraft, ProjectInv, ProjectTypeOK, Sound
  <1>2. CASE Editable(s) /\ sheet[s].data = sheet[s].base /\ ~sheet[s].restored
    BY <1>2, BlankType DEF FlushedDraft, Editable, NoStash, DraftOf, OfferFits
  <1>3. CASE Editable(s) /\ ~(sheet[s].data = sheet[s].base /\ ~sheet[s].restored)
    <2>. DEFINE kept == [there |-> TRUE, data |-> sheet[s].data, revision |-> sheet[s].revision]
    <2>1. FlushedDraft(s) = kept /\ sheet[s].at # "closed"
      BY <1>3 DEF FlushedDraft, Editable, Mounted
    <2>2. kept \in Stash
      BY DEF Stash, Sheet, ProjectInv, ProjectTypeOK
    <2>3. StartsFrom(sheet[s])
      BY <2>1 DEF ProjectInv, Sound
    <2>4. DraftOf(kept)
      BY <2>3 DEF StartsFrom, DraftOf
    <2>5. OfferFits(sheet[s], kept)
      BY <1>3, <2>3 DEF Editable, StartsFrom, OfferFits
    <2>. QED
      BY <2>1, <2>2, <2>4, <2>5
  <1>. QED
    BY <1>1, <1>2, <1>3

LEMMA FlushPreserves ==
  ASSUME ProjectInv, NEW s \in Planner, FlushDraft(s)
  PROVE  ProjectInv'
  <1>1. /\ stash' \in [Planner -> Stash] /\ stash'[s] = FlushedDraft(s)
        /\ \A q \in Planner \ {s} : stash'[q] = stash[q]
    BY FlushedIsSound DEF FlushDraft, ProjectInv, ProjectTypeOK
  <1>2. /\ DraftOf(stash'[s])
        /\ sheet[s].at # "closed" => OfferFits(sheet[s], stash'[s])
    BY <1>1, FlushedIsSound
  <1>3. Sound(s)'
    BY <1>2, SoundAfter DEF FlushDraft, ProjectInv, Sound
  <1>. QED
    BY <1>1, <1>3, OneAuthorMoves DEF FlushDraft, ProjectInv, ProjectTypeOK

LEMMA KeepPreserves ==
  ASSUME ProjectInv, NEW s \in Planner, KeepSavedVersion(s)
  PROVE  ProjectInv'
  <1>1. /\ sheet'[s] = [sheet[s] EXCEPT !.offer = FALSE] /\ stash'[s] = NoStash
        /\ \A q \in Planner \ {s} : sheet'[q] = sheet[q] /\ stash'[q] = stash[q]
    BY DEF KeepSavedVersion, ProjectInv, ProjectTypeOK
  <1>2. sheet' \in [Planner -> Sheet] /\ stash' \in [Planner -> Stash]
    <2>1. sheet'[s] \in Sheet /\ stash'[s] \in Stash
      BY <1>1, BlankType DEF ProjectInv, ProjectTypeOK, Sheet
    <2>. QED
      BY <1>1, <2>1 DEF KeepSavedVersion, ProjectInv, ProjectTypeOK
  <1>3. /\ sheet'[s].offer = FALSE /\ sheet'[s].at = sheet[s].at /\ sheet'[s].base = sheet[s].base
        /\ sheet'[s].data = sheet[s].data /\ sheet'[s].revision = sheet[s].revision
        /\ stash'[s].there = FALSE
    BY <1>1 DEF ProjectInv, ProjectTypeOK, Sheet, NoStash
  <1>4. /\ sheet'[s].at # "closed" => StartsFrom(sheet'[s]) /\ OfferFits(sheet'[s], stash'[s])
        /\ DraftOf(stash'[s])
    BY <1>3 DEF ProjectInv, Sound, StartsFrom, DraftOf, OfferFits
  <1>5. Sound(s)'
    BY <1>3, <1>4, SoundAfter DEF KeepSavedVersion, ProjectInv, Sound
  <1>6. UNCHANGED <<project, errand, written>> /\ errand \in [Planner -> Errand] /\ written \in Nat
    BY DEF KeepSavedVersion, ProjectInv, ProjectTypeOK
  <1>. QED
    BY <1>1, <1>2, <1>5, <1>6, OneAuthorMoves

LEMMA SubmitPreserves ==
  ASSUME ProjectInv, NEW s \in Planner, SubmitProject(s)
  PROVE  ProjectInv'
  <1>. DEFINE save == [at |-> "sent", data |-> sheet[s].data, base |-> sheet[s].base,
                       revision |-> sheet[s].revision, ours |-> TRUE]
  <1>1. /\ sheet'[s] = [sheet[s] EXCEPT !.at = "saving"] /\ errand'[s] = save
        /\ \A q \in Planner \ {s} : sheet'[q] = sheet[q] /\ errand'[q] = errand[q]
    BY DEF SubmitProject, ProjectInv, ProjectTypeOK
  <1>2. sheet' \in [Planner -> Sheet] /\ errand' \in [Planner -> Errand]
    <2>1. sheet'[s] \in Sheet /\ save \in Errand
      BY <1>1 DEF ProjectInv, ProjectTypeOK, Sheet, Errand
    <2>. QED
      BY <1>1, <2>1 DEF SubmitProject, ProjectInv, ProjectTypeOK
  <1>3. /\ sheet'[s].at = "saving" /\ sheet'[s].offer = FALSE /\ sheet'[s].base = sheet[s].base
        /\ sheet'[s].data = sheet[s].data /\ sheet'[s].revision = sheet[s].revision
    BY <1>1 DEF SubmitProject, ProjectInv, ProjectTypeOK, Sheet
  <1>4. StartsFrom(sheet[s]) /\ OfferFits(sheet[s], stash[s]) /\ DraftOf(stash[s])
    BY DEF SubmitProject, ProjectInv, Sound
  <1>5. StartsFrom(save) /\ StartsFrom(sheet'[s]) /\ OfferFits(sheet'[s], stash[s])
    BY <1>3, <1>4 DEF StartsFrom, OfferFits
  <1>6. Sound(s)'
    BY <1>1, <1>3, <1>4, <1>5, SoundAfter DEF SubmitProject
  <1>7. UNCHANGED <<project, stash, written>> /\ stash \in [Planner -> Stash] /\ written \in Nat
    BY DEF SubmitProject, ProjectInv, ProjectTypeOK
  <1>. QED
    BY <1>1, <1>2, <1>6, <1>7, OneAuthorMoves

(* The form goes; what remains is the draft, and a save nobody waits for.  *)
LEMMA FormCloses ==
  ASSUME ProjectInv, NEW s \in Planner, UNCHANGED <<project, written>>,
         sheet' = [sheet EXCEPT ![s] = NoSheet],
         NEW kept \in Stash, DraftOf(kept), stash' = [stash EXCEPT ![s] = kept],
         NEW save \in Errand, errand' = [errand EXCEPT ![s] = save],
         save.at \in {"sent", "deaf"} => StartsFrom(save), save.ours = FALSE
  PROVE  ProjectInv'
  <1>1. /\ sheet'[s] = NoSheet /\ stash'[s] = kept /\ errand'[s] = save
        /\ \A q \in Planner \ {s} :
             sheet'[q] = sheet[q] /\ stash'[q] = stash[q] /\ errand'[q] = errand[q]
    BY DEF ProjectInv, ProjectTypeOK
  <1>2. /\ sheet' \in [Planner -> Sheet] /\ stash' \in [Planner -> Stash]
        /\ errand' \in [Planner -> Errand] /\ written \in Nat
    BY BlankType DEF ProjectInv, ProjectTypeOK
  <1>3. NoSheet.at = "closed" /\ NoSheet.offer = FALSE
    BY DEF NoSheet
  <1>4. Sound(s)'
    BY <1>1, <1>3, SoundAfter
  <1>. QED
    BY <1>1, <1>2, <1>4, OneAuthorMoves

LEMMA ClosePreserves ==
  ASSUME ProjectInv, NEW s \in Planner, CloseProject(s) \/ DiscardProject(s) \/ ProjectSaved(s)
  PROVE  ProjectInv'
  <1>1. UNCHANGED <<project, written>> /\ sheet' = [sheet EXCEPT ![s] = NoSheet]
    BY DEF CloseProject, DiscardProject, ProjectSaved
  <1>2. PICK kept \in {stash[s], FlushedDraft(s), NoStash} : stash' = [stash EXCEPT ![s] = kept]
    BY DEF CloseProject, DiscardProject, ProjectSaved, ProjectInv, ProjectTypeOK
  <1>3. kept \in Stash /\ DraftOf(kept)
    <2>1. stash[s] \in Stash /\ DraftOf(stash[s])
      BY DEF ProjectInv, ProjectTypeOK, Sound
    <2>2. NoStash \in Stash /\ DraftOf(NoStash)
      BY BlankType DEF DraftOf, NoStash
    <2>. QED
      BY <2>1, <2>2, FlushedIsSound
  <1>4. PICK save \in {[errand[s] EXCEPT !.ours = FALSE], NobodyWaits(errand[s]), NoErrand} :
          errand' = [errand EXCEPT ![s] = save]
    BY DEF CloseProject, DiscardProject, ProjectSaved
  <1>5. save \in Errand /\ save.ours = FALSE
    BY BlankType DEF NobodyWaits, NoErrand, ProjectInv, ProjectTypeOK, Errand
  <1>6. save.at \in {"sent", "deaf"} =>
          /\ errand[s].at \in {"sent", "deaf"} /\ save.data = errand[s].data
          /\ save.base = errand[s].base /\ save.revision = errand[s].revision
    <2>1. errand[s] \in Errand
      BY DEF ProjectInv, ProjectTypeOK
    <2>2. CASE save = [errand[s] EXCEPT !.ours = FALSE]
      BY <2>1, <2>2 DEF Errand
    <2>3. CASE errand[s].at \in {"sent", "deaf"} /\ save = NobodyWaits(errand[s])
      BY <2>1, <2>3 DEF NobodyWaits, Errand
    <2>4. CASE save = NoErrand
      BY <2>4 DEF NoErrand
    <2>. QED
      BY <2>2, <2>3, <2>4 DEF NobodyWaits
  <1>7. save.at \in {"sent", "deaf"} => StartsFrom(save)
    BY <1>6 DEF ProjectInv, Sound, StartsFrom
  <1>. QED
    BY <1>1, <1>2, <1>3, <1>4, <1>5, <1>7, FormCloses

(* A save that has its answer asks for nothing more.                       *)
LEMMA AnswerType ==
  ASSUME ProjectInv, NEW s \in Planner, NEW how \in {"ok", "conflict", "failed"}, Answers(s, how)
  PROVE  /\ errand' \in [Planner -> Errand] /\ errand'[s].at \notin {"sent", "deaf"}
         /\ errand'[s].ours => errand[s].ours
         /\ \A q \in Planner \ {s} : errand'[q] = errand[q]
  <1>1. errand'[s] \in {NoErrand, [NoErrand EXCEPT !.at = how, !.ours = errand[s].ours]}
    BY DEF Answers, ProjectInv, ProjectTypeOK
  <1>2. /\ errand'[s] \in Errand /\ errand'[s].at \notin {"sent", "deaf"}
        /\ errand'[s].ours => errand[s].ours
    BY <1>1, BlankType DEF NoErrand, Errand, ProjectInv, ProjectTypeOK
  <1>. QED
    BY <1>2 DEF Answers, ProjectInv, ProjectTypeOK

LEMMA LostPreserves ==
  ASSUME ProjectInv, NEW s \in Planner, UpdateLost(s)
  PROVE  ProjectInv'
  <1>1. Answers(s, "failed") /\ UNCHANGED <<project, sheet, stash, written>>
    BY DEF UpdateLost
  <1>2. /\ errand' \in [Planner -> Errand] /\ errand'[s].at \notin {"sent", "deaf"}
        /\ errand'[s].ours => errand[s].ours
        /\ \A q \in Planner \ {s} : errand'[q] = errand[q]
    BY <1>1, AnswerType
  <1>3. Sound(s)'
    BY <1>1, <1>2, SoundAfter DEF ProjectInv, Sound
  <1>. QED
    BY <1>1, <1>2, <1>3, OneAuthorMoves DEF ProjectInv, ProjectTypeOK

LEMMA RefusedPreserves ==
  ASSUME ProjectInv, NEW s \in Planner, ProjectRefused(s)
  PROVE  ProjectInv'
  <1>1. /\ errand'[s] = NoErrand
        /\ \A q \in Planner \ {s} : sheet'[q] = sheet[q] /\ errand'[q] = errand[q]
    BY DEF ProjectRefused, ProjectInv, ProjectTypeOK
  <1>2. /\ sheet'[s] \in Sheet /\ sheet'[s].data = sheet[s].data /\ sheet'[s].base = sheet[s].base
        /\ sheet'[s].revision = sheet[s].revision /\ sheet'[s].offer = sheet[s].offer
        /\ sheet'[s].at = IF errand[s].ours THEN "open" ELSE sheet[s].at
    BY DEF ProjectRefused, ProjectInv, ProjectTypeOK, Sheet
  <1>3. sheet' \in [Planner -> Sheet] /\ errand' \in [Planner -> Errand]
    BY <1>1, <1>2, BlankType DEF ProjectRefused, ProjectInv, ProjectTypeOK
  <1>4. errand[s].ours => sheet[s].at = "saving"
    BY DEF ProjectInv, Sound
  <1>5. sheet'[s].at # "closed" => StartsFrom(sheet'[s]) /\ OfferFits(sheet'[s], stash[s])
    BY <1>2, <1>4 DEF ProjectInv, Sound, StartsFrom, OfferFits
  <1>6. UNCHANGED <<project, stash, written>> /\ stash \in [Planner -> Stash] /\ written \in Nat
    BY DEF ProjectRefused, ProjectInv, ProjectTypeOK
  <1>7. NoErrand.ours = FALSE /\ NoErrand.at = "none"
    BY DEF NoErrand
  <1>8. Sound(s)'
    BY <1>1, <1>2, <1>4, <1>5, <1>6, <1>7, SoundAfter DEF ProjectInv, Sound
  <1>. QED
    BY <1>1, <1>3, <1>6, <1>8, OneAuthorMoves

-----------------------------------------------------------------------------

(* A save that is accepted sets what it touches, to values newer than      *)
(* those it replaces, and leaves the rest alone but for what is always     *)
(* sent.                                                                   *)
LEMMA AppliedSets ==
  ASSUME ProjectInv, NEW s \in Planner, errand[s].at \in {"sent", "deaf"},
         NEW checked \in GoesBy(errand[s]), NEW stored \in GoesBy(errand[s]),
         ~Clashes(errand[s], checked), project' = Applied(errand[s], stored)
  PROVE  /\ project' \in [value : Values, since : Values, revision : Nat]
         /\ project'.revision = project.revision + 1
         /\ \A f \in Section :
              \/ /\ project'.since[f] = project.since[f] /\ project'.value[f] = project.value[f]
                 /\ f \notin Touched(errand[s])
              \/ /\ project'.since[f] = project.revision + 1 /\ project'.value[f] <= written
                 /\ f \in Touched(errand[s]) \cup AlwaysSend
                 /\ f \in Touched(errand[s]) => project.value[f] <= project'.value[f]
  <1>. DEFINE save == errand[s]
              next == project.revision + 1
              value == [f \in Section |-> IF f \in stored THEN save.data[f] ELSE project.value[f]]
              since == [f \in Section |-> IF f \in stored THEN next ELSE project.since[f]]
  <1>0. /\ Touched(save) \subseteq checked /\ Touched(save) \subseteq stored
        /\ stored \subseteq Touched(save) \cup AlwaysSend
    BY DEF GoesBy, BodyFields, ChangedFields
  <1>1. StartsFrom(save) /\ save \in Errand
    BY DEF ProjectInv, ProjectTypeOK, Sound
  <1>2. next \in Nat /\ project.value \in Values /\ project.since \in Values
    BY DEF ProjectInv, ProjectTypeOK
  <1>3. project' = [value |-> value, since |-> since, revision |-> next]
    BY DEF Applied
  <1>4. value \in Values /\ since \in Values
    BY <1>1, <1>2 DEF Values, Errand
  <1>5. ASSUME NEW f \in Section
        PROVE  save.data[f] <= written /\ (f \in Touched(save) => project.value[f] <= save.data[f])
    <2>1. f \in Touched(save) => project.since[f] <= save.revision
      BY <1>0, <1>1, <1>2 DEF Clashes, Values, Errand
    <2>. QED
      BY <1>1, <2>1 DEF StartsFrom, AllTyped
  <1>. QED
    BY <1>0, <1>2, <1>3, <1>4, <1>5

(* What started from an earlier revision finds every section as it was, or *)
(* changed since.                                                          *)
LEMMA UpdatePreservesProject ==
  ASSUME ProjectInv, NEW s \in Planner, UpdateProject(s)
  PROVE  ProjectInv'
  <1>0. UNCHANGED <<sheet, stash, written>> /\ ProjectTypeOK
    BY DEF UpdateProject, ProjectInv
  <1>1. PICK how \in {"ok", "conflict", "failed"} : Answers(s, how)
    BY DEF UpdateProject
  <1>2. /\ errand' \in [Planner -> Errand] /\ errand'[s].at \notin {"sent", "deaf"}
        /\ errand'[s].ours => errand[s].ours
        /\ \A q \in Planner \ {s} : errand'[q] = errand[q]
    BY <1>1, AnswerType
  <1>3. CASE UNCHANGED project
    <2>1. UNCHANGED project
      BY <1>3
    <2>2. Sound(s)'
      BY <1>0, <1>2, <2>1, SoundAfter DEF ProjectInv, Sound
    <2>. QED
      BY <1>0, <1>2, <2>1, <2>2, OneAuthorMoves DEF ProjectTypeOK
  <1>4. ASSUME NEW checked \in GoesBy(errand[s]), NEW stored \in GoesBy(errand[s]),
               ~Clashes(errand[s], checked), project' = Applied(errand[s], stored)
        PROVE  ProjectInv'
    <2>1. /\ project' \in [value : Values, since : Values, revision : Nat]
          /\ project'.revision = project.revision + 1
          /\ \A f \in Section :
               \/ project'.since[f] = project.since[f] /\ project'.value[f] = project.value[f]
               \/ project'.since[f] = project.revision + 1 /\ project'.value[f] <= written
      BY <1>4, AppliedSets DEF UpdateProject
    <2>2. project.revision \in Nat
      BY <1>0 DEF ProjectTypeOK
    <2>3. ProjectTypeOK'
      BY <1>0, <1>2, <2>1 DEF ProjectTypeOK
    <2>4. AllTyped(project.value)' /\ \A f \in Section : (project.since[f] <= project.revision)'
      BY <1>0, <2>1, <2>2 DEF ProjectInv, AllTyped, ProjectTypeOK, Values
    <2>5. ASSUME NEW edit, edit.revision \in Nat, StartsFrom(edit) PROVE StartsFrom(edit)'
      BY <1>0, <2>1, <2>2, <2>5 DEF StartsFrom, AllTyped
    <2>6. ASSUME NEW kept \in Stash, DraftOf(kept) PROVE DraftOf(kept)'
      BY <1>0, <2>1, <2>2, <2>6 DEF DraftOf, AllTyped, Stash
    <2>7. ASSUME NEW q \in Planner PROVE Sound(q)'
      <3>1. sheet[q].revision \in Nat /\ stash[q] \in Stash /\ errand[q].revision \in Nat
        BY <1>0 DEF ProjectTypeOK, Sheet, Errand
      <3>2. sheet[q].at # "closed" => StartsFrom(sheet[q])' /\ OfferFits(sheet[q], stash[q])'
        BY <1>0, <2>5, <3>1 DEF ProjectInv, Sound, OfferFits, StartsFrom, AllTyped
      <3>3. DraftOf(stash[q])'
        BY <1>0, <2>6, <3>1 DEF ProjectInv, Sound, DraftOf, AllTyped
      <3>4. errand'[q].at \in {"sent", "deaf"} => StartsFrom(errand[q])'
        BY <1>2, <2>5, <3>1 DEF ProjectInv, Sound, StartsFrom, AllTyped
      <3>5. (sheet[q].offer => sheet[q].at = "open")' /\ (errand[q].ours => sheet[q].at = "saving")'
        BY <1>0, <1>2 DEF ProjectInv, Sound
      <3>. QED
        BY <1>0, <3>2, <3>3, <3>4, <3>5 DEF Sound
    <2>. QED
      BY <2>3, <2>4, <2>7 DEF ProjectInv
  <1>. QED
    BY <1>3, <1>4 DEF UpdateProject

LEMMA ProjectStep == ProjectInv /\ [ProjectNext]_projectVars => ProjectInv'
  <1>1. CASE UNCHANGED projectVars
    BY <1>1 DEF projectVars, ProjectInv, ProjectTypeOK, Sound, StartsFrom, DraftOf, OfferFits, AllTyped
  <1>. QED
    BY <1>1, OpenPreserves, MountPreserves, RestorePreserves, KeepPreserves, FlushPreserves,
       TypingPreserves, UndoPreserves, UploadingPreserves, ClosePreserves, SubmitPreserves,
       UpdatePreservesProject, LostPreserves, RefusedPreserves
    DEF ProjectNext

(* Only the site backend answers a save with ok or conflict.               *)
AcceptedBySite(s) ==
  \E checked, stored \in GoesBy(errand[s]) :
    ~Clashes(errand[s], checked) /\ project' = Applied(errand[s], stored)

LEMMA AnsweredByTheSite ==
  ASSUME ProjectInv, ProjectNext, NEW s \in Planner, errand[s].at = "sent",
         errand'[s].at \in {"ok", "conflict"}
  PROVE  /\ errand'[s].at = "conflict" => Clashes(errand[s], BodyFields(errand[s]))
         /\ errand'[s].at = "ok" => AcceptedBySite(s)
  <1>1. errand \in [Planner -> Errand]
    BY DEF ProjectInv, ProjectTypeOK
  <1>2. ASSUME NEW q \in Planner, NEW how, Answers(q, how)
        PROVE  IF q = s THEN errand'[s].at = how ELSE errand'[s].at = "sent"
    BY <1>1, <1>2 DEF Answers, NoErrand
  <1>3. ASSUME NEW q \in Planner, UpdateProject(q)
        PROVE  /\ errand'[s].at = "conflict" => Clashes(errand[s], BodyFields(errand[s]))
               /\ errand'[s].at = "ok" => AcceptedBySite(s)
    <2>1. q = s
      <3>1. PICK how \in {"ok", "conflict", "failed"} : Answers(q, how)
        BY <1>3 DEF UpdateProject
      <3>. QED
        BY <1>2, <3>1
    <2>2. \/ Answers(s, "conflict") /\ \E checked \in GoesBy(errand[s]) : Clashes(errand[s], checked)
          \/ (Answers(s, "ok") \/ Answers(s, "failed")) /\ AcceptedBySite(s)
      BY <1>3, <2>1 DEF UpdateProject, AcceptedBySite
    <2>3. ASSUME NEW checked \in GoesBy(errand[s]), Clashes(errand[s], checked)
          PROVE  Clashes(errand[s], BodyFields(errand[s]))
      BY <2>3 DEF GoesBy, BodyFields, Clashes
    <2>4. CASE Answers(s, "conflict") /\ \E checked \in GoesBy(errand[s]) : Clashes(errand[s], checked)
      BY <1>2, <2>3, <2>4
    <2>5. CASE (Answers(s, "ok") \/ Answers(s, "failed")) /\ AcceptedBySite(s)
      BY <1>2, <2>5
    <2>. QED
      BY <2>2, <2>4, <2>5
  <1>4. ASSUME NEW q \in Planner, UpdateLost(q) PROVE FALSE
    BY <1>2, <1>4 DEF UpdateLost
  <1>5. ASSUME NEW q \in Planner, CloseProject(q) PROVE FALSE
    <2>1. errand[s].at = errand'[s].at \/ errand'[s].at \in {"deaf", "none"}
      <3>1. CASE errand' = [errand EXCEPT ![q].ours = FALSE]
        BY <1>1, <3>1 DEF Errand
      <3>2. CASE errand' = [errand EXCEPT ![q] = NobodyWaits(errand[q])]
        BY <1>1, <3>2 DEF NobodyWaits, NoErrand, Errand
      <3>. QED
        BY <1>5, <3>1, <3>2 DEF CloseProject
    <2>. QED
      BY <2>1
  <1>6. ASSUME NEW q \in Planner, DiscardProject(q) PROVE FALSE
    BY <1>1, <1>6 DEF DiscardProject, Errand
  <1>7. ASSUME NEW q \in Planner, SubmitProject(q) PROVE FALSE
    BY <1>1, <1>7 DEF SubmitProject
  <1>8. ASSUME NEW q \in Planner, ProjectSaved(q) \/ ProjectRefused(q) PROVE FALSE
    BY <1>1, <1>8 DEF ProjectSaved, ProjectRefused, NoErrand
  <1>. QED
    BY <1>3, <1>4, <1>5, <1>6, <1>7, <1>8 DEF ProjectNext, OpenProject, MountForm, RestoreChanges, KeepSavedVersion,
       FlushDraft, EnterValue, UndoValue, FloorPlanUploaded, ChooseFloorPlan, FloorPlanFailed

(* Whatever was left, kept as a draft and restored meanwhile, a save of a  *)
(* project changes only what its author edited, never back to an older     *)
(* value, and is refused only if one of those was changed since; but for   *)
(* the type, which every save sends (editRequestBody).                     *)
THEOREM ProjectSavesKeepOut == ProjectSpec => SavesKeepOutOfTheWay
  <1>1. ASSUME ProjectInv, ProjectNext, NEW s \in Planner, errand[s].at = "sent",
               errand'[s].at \in {"ok", "conflict"}
        PROVE  IF errand'[s].at = "conflict"
                 THEN \E f \in Touched(errand[s]) \cup AlwaysSend :
                        project.since[f] > errand[s].revision
                 ELSE \A f \in Section :
                        /\ f \notin Touched(errand[s]) \cup AlwaysSend =>
                             project'.value[f] = project.value[f]
                        /\ f \in Touched(errand[s]) => project'.value[f] >= project.value[f]
    <2>1. CASE errand'[s].at = "conflict"
      BY <1>1, <2>1, AnsweredByTheSite DEF Clashes, BodyFields, ChangedFields
    <2>2. CASE errand'[s].at = "ok"
      <3>0. AcceptedBySite(s)
        BY <1>1, <2>2, AnsweredByTheSite
      <3>1. /\ project.value \in Values /\ project'.value \in Values
            /\ \A f \in Section :
                 \/ project'.value[f] = project.value[f] /\ f \notin Touched(errand[s])
                 \/ /\ f \in Touched(errand[s]) \cup AlwaysSend
                    /\ f \in Touched(errand[s]) => project.value[f] <= project'.value[f]
        BY <1>1, <3>0, AppliedSets DEF AcceptedBySite, ProjectInv, ProjectTypeOK
      <3>. QED
        BY <1>1, <2>2, <3>1 DEF Values
    <2>. QED
      BY <1>1, <2>1, <2>2
  <1>2. ProjectInv /\ [ProjectNext]_projectVars =>
          [\A s \in Planner :
             LET save == errand[s]
             IN save.at = "sent" /\ errand'[s].at \in {"ok", "conflict"} =>
                  IF errand'[s].at = "conflict"
                    THEN \E f \in Touched(save) \cup AlwaysSend : project.since[f] > save.revision
                    ELSE \A f \in Section :
                           /\ f \notin Touched(save) \cup AlwaysSend =>
                                project'.value[f] = project.value[f]
                           /\ f \in Touched(save) =>
                                project'.value[f] >= project.value[f]]_projectVars
    BY <1>1
  <1>. QED
    BY <1>2, ProjectInitHolds, ProjectStep, PTL DEF ProjectSpec, SavesKeepOutOfTheWay

-----------------------------------------------------------------------------

(* draft is a function, whatever its records hold; so is the row.          *)
DraftsByEditor == draft = [e \in Editor |-> draft[e]]

RowShape == inbound = [staff |-> inbound.staff, queued |-> inbound.queued,
                       location |-> inbound.location]

(* An edit that gives a location carries it to its statement.              *)
CarriesLocation(e) ==
  /\ draft[e].at = "save" /\ draft[e].located => draft[e].copy.location = "given"
  /\ draft[e].at = "write" /\ draft[e].located /\ "location" \in DOMAIN draft[e].change
       => draft[e].change["location"] = "given"

LocationInv ==
  /\ DraftsByEditor
  /\ RowShape
  /\ \A e \in Editor : CarriesLocation(e)
  /\ DeviceFixYields

-----------------------------------------------------------------------------
(* Who the submission is with, and where it is.                            *)

LEMMA RowSteps ==
  ASSUME RowShape, [InboundsNext]_inboundVars
  PROVE  RowShape'
  <1>1. ASSUME NEW e \in Editor, NEW new, WriteEdit(e, new) PROVE RowShape'
    BY <1>1 DEF WriteEdit, RowShape, InboundColumn
  <1>2. ASSUME NEW s, Assign(s) PROVE RowShape'
    BY <1>2 DEF Assign, RowShape
  <1>3. ASSUME NEW gps \in BOOLEAN, SavePhoto(gps) PROVE RowShape'
    BY <1>3 DEF SavePhoto, RowShape
  <1>4. ASSUME SaveLocationIfMissing PROVE RowShape'
    BY <1>4 DEF SaveLocationIfMissing, RowShape
  <1>5. ASSUME UNCHANGED inbound PROVE RowShape'
    BY <1>5 DEF RowShape
  <1>. QED
    BY <1>1, <1>2, <1>3, <1>4, <1>5
    DEF InboundsNext, inboundVars, StartEdit, LoadEdit, SaveEdit, ClearFloors, FillFloors, EditStops

(* An edit's step changes its own record only.                             *)
LEMMA KeepsOne ==
  ASSUME DraftsByEditor, NEW e \in Editor, NEW record, Keeps(e, record)
  PROVE  /\ DraftsByEditor'
         /\ draft'[e] = record
         /\ \A o \in Editor : o # e => draft'[o] = draft[o]
  BY DEF Keeps, DraftsByEditor

LEMMA EditCarriesLocation ==
  ASSUME LocationInv, NEW e \in Editor, NEW record, Keeps(e, record),
         record.at = "save" /\ record.located => record.copy.location = "given",
         record.at = "write" /\ record.located /\ "location" \in DOMAIN record.change
           => record.change["location"] = "given"
  PROVE  DraftsByEditor' /\ \A o \in Editor : CarriesLocation(o)'
  BY KeepsOne DEF LocationInv, CarriesLocation

LEMMA LocationStep ==
  ASSUME LocationInv, [InboundsNext]_inboundVars
  PROVE  LocationInv'
  <1>row. RowShape'
    BY RowSteps DEF LocationInv
  <1>1. ASSUME NEW e \in Editor, NEW body \in Body, StartEdit(e, body) PROVE LocationInv'
    <2>1. DraftsByEditor' /\ \A o \in Editor : CarriesLocation(o)'
      BY <1>1, EditCarriesLocation DEF StartEdit
    <2>. QED
      BY <1>1, <1>row, <2>1 DEF StartEdit, LocationInv, DeviceFixYields
  <1>2. ASSUME NEW e \in Editor, LoadEdit(e) PROVE LocationInv'
    <2>. DEFINE body == draft[e].body
    <2>. DEFINE record == [at |-> "save", copy |-> Changed(inbound, body), located |-> body.located]
    <2>1. Keeps(e, record) /\ UNCHANGED <<inbound, pinned>>
      BY <1>2 DEF LoadEdit
    <2>2. body.located => Changed(inbound, body).location = "given"
      BY DEF Changed, LocationInv, RowShape
    <2>3. DraftsByEditor' /\ \A o \in Editor : CarriesLocation(o)'
      BY <2>1, <2>2, EditCarriesLocation
    <2>. QED
      BY <1>row, <2>1, <2>3 DEF LocationInv, DeviceFixYields
  <1>3. ASSUME NEW e \in Editor, SaveEdit(e) PROVE LocationInv'
    <2>. DEFINE d == draft[e]
    <2>. DEFINE change == [c \in Dirty(d.copy) |-> d.copy[c]]
    <2>. DEFINE record == [at |-> "write", change |-> change, located |-> d.located]
    <2>1. Keeps(e, record) /\ d.at = "save" /\ UNCHANGED <<inbound, pinned>>
      BY <1>3 DEF SaveEdit
    <2>2. d.located /\ "location" \in DOMAIN change => change["location"] = "given"
      BY <2>1 DEF LocationInv, CarriesLocation
    <2>. HIDE DEF change
    <2>3. DraftsByEditor' /\ \A o \in Editor : CarriesLocation(o)'
      BY <2>1, <2>2, EditCarriesLocation
    <2>. QED
      BY <1>row, <2>1, <2>3 DEF LocationInv, DeviceFixYields
  <1>4. ASSUME NEW e \in Editor, NEW new \in (SUBSET Floor) \cup {Absent}, WriteEdit(e, new)
        PROVE  LocationInv'
    <2>. DEFINE d == draft[e]
    <2>1. DraftsByEditor' /\ \A o \in Editor : CarriesLocation(o)'
      <3>1. CASE new = Absent
        BY <1>4, <3>1, EditCarriesLocation DEF WriteEdit, NoDraft
      <3>2. CASE new # Absent
        BY <1>4, <3>2, EditCarriesLocation DEF WriteEdit
      <3>. QED
        BY <3>1, <3>2
    <2>2. inbound'["location"] = IF "location" \in DOMAIN d.change THEN d.change["location"]
                                 ELSE inbound["location"]
      BY <1>4 DEF WriteEdit, InboundColumn
    <2>3. pinned' = IF "location" \in DOMAIN d.change THEN d.located ELSE pinned
      BY <1>4 DEF WriteEdit
    <2>4. DeviceFixYields'
      BY <1>4, <2>2, <2>3 DEF WriteEdit, LocationInv, CarriesLocation, DeviceFixYields
    <2>. QED
      BY <1>row, <2>1, <2>4 DEF LocationInv
  <1>5. ASSUME NEW e \in Editor, ClearFloors(e) PROVE LocationInv'
    <2>1. \E record : Keeps(e, record) /\ record.at \notin {"save", "write"}
      <3>1. CASE draft[e].floors = {}
        BY <1>5, <3>1 DEF ClearFloors, NoDraft
      <3>2. CASE draft[e].floors # {}
        BY <1>5, <3>2 DEF ClearFloors
      <3>. QED
        BY <3>1, <3>2
    <2>2. DraftsByEditor' /\ \A o \in Editor : CarriesLocation(o)'
      BY <2>1, EditCarriesLocation
    <2>. QED
      BY <1>5, <1>row, <2>2 DEF ClearFloors, LocationInv, DeviceFixYields
  <1>6. ASSUME NEW e \in Editor, FillFloors(e) \/ EditStops(e) PROVE LocationInv'
    <2>1. Keeps(e, NoDraft) /\ UNCHANGED <<inbound, pinned>>
      BY <1>6 DEF FillFloors, EditStops
    <2>2. DraftsByEditor' /\ \A o \in Editor : CarriesLocation(o)'
      BY <2>1, EditCarriesLocation DEF NoDraft
    <2>. QED
      BY <1>row, <2>1, <2>2 DEF LocationInv, DeviceFixYields
  <1>7. ASSUME NEW s, Assign(s) PROVE LocationInv'
    <2>1. inbound'.location = inbound.location /\ UNCHANGED <<draft, pinned>>
      BY <1>7 DEF Assign, LocationInv, RowShape
    <2>. QED
      BY <1>row, <2>1 DEF LocationInv, DraftsByEditor, CarriesLocation, DeviceFixYields
  <1>8. ASSUME NEW gps \in BOOLEAN, SavePhoto(gps) PROVE LocationInv'
    <2>1. /\ inbound'.location = IF gps THEN "given" ELSE inbound.location
          /\ UNCHANGED draft /\ pinned' = (pinned \/ gps)
      BY <1>8 DEF SavePhoto, LocationInv, RowShape
    <2>. QED
      BY <1>row, <2>1 DEF LocationInv, DraftsByEditor, CarriesLocation, DeviceFixYields
  <1>9. ASSUME SaveLocationIfMissing PROVE LocationInv'
    <2>1. ~pinned
      BY <1>9 DEF SaveLocationIfMissing, LocationInv, DeviceFixYields
    <2>. QED
      BY <1>9, <1>row, <2>1
      DEF SaveLocationIfMissing, LocationInv, DraftsByEditor, CarriesLocation, DeviceFixYields
  <1>10. ASSUME UNCHANGED inboundVars PROVE LocationInv'
    BY <1>10 DEF inboundVars, LocationInv, DraftsByEditor, RowShape, CarriesLocation, DeviceFixYields
  <1>. QED
    BY <1>1, <1>2, <1>3, <1>4, <1>5, <1>6, <1>7, <1>8, <1>9, <1>10 DEF InboundsNext

-----------------------------------------------------------------------------
(* Its floors.                                                             *)

(* What was sent is there or still to come, and nothing else is either.    *)
FloorsInv ==
  /\ DraftsByEditor
  /\ floors \subseteq sent
  /\ \A o \in Editor : draft[o].at = "fill" => draft[o].floors \subseteq sent
  /\ ~halved => \A x \in sent : \/ x \in floors
                                 \/ \E o \in Editor : draft[o].at = "fill" /\ x \in draft[o].floors

LEMMA FloorsStep ==
  ASSUME FloorsInv, [InboundsNext]_inboundVars
  PROVE  FloorsInv'
  <1>1. ASSUME NEW e \in Editor, NEW record, Keeps(e, record), record.at # "fill",
               draft[e].at # "fill", UNCHANGED floorVars
        PROVE  FloorsInv'
    <2>1. /\ DraftsByEditor' /\ draft'[e].at # "fill"
          /\ \A o \in Editor : o # e => draft'[o] = draft[o]
      BY <1>1, KeepsOne DEF FloorsInv
    <2>2. UNCHANGED <<floors, sent, halved>>
      BY <1>1 DEF floorVars
    <2>. QED
      BY <1>1, <2>1, <2>2 DEF FloorsInv
  <1>2. ASSUME NEW e \in Editor,
               LoadEdit(e) \/ SaveEdit(e) \/ \E body \in Body : StartEdit(e, body)
        PROVE  FloorsInv'
    BY <1>1, <1>2 DEF StartEdit, LoadEdit, SaveEdit
  <1>3. ASSUME NEW e \in Editor, NEW new \in (SUBSET Floor) \cup {Absent}, WriteEdit(e, new)
        PROVE  FloorsInv'
    <2>1. CASE new = Absent
      BY <1>1, <1>3, <2>1 DEF WriteEdit, NoDraft
    <2>2. CASE new # Absent
      BY <1>1, <1>3, <2>2 DEF WriteEdit
    <2>. QED
      BY <2>1, <2>2
  <1>4. ASSUME NEW e \in Editor, ClearFloors(e) PROVE FloorsInv'
    <2>. DEFINE record == IF draft[e].floors = {} THEN NoDraft
                          ELSE [at |-> "fill", floors |-> draft[e].floors]
    <2>1. /\ Keeps(e, record) /\ floors' = {} /\ draft[e].at = "clear"
          /\ \A x : x \in sent' <=> \/ x \in draft[e].floors
                                   \/ \E o \in Editor : draft[o].at = "fill" /\ x \in draft[o].floors
      BY <1>4 DEF ClearFloors, FloorsLeft, Filling
    <2>2. /\ draft[e].floors = {} => record.at # "fill"
          /\ draft[e].floors # {} => record.at = "fill" /\ record.floors = draft[e].floors
      BY DEF NoDraft
    <2>. HIDE DEF record
    <2>3. /\ DraftsByEditor' /\ draft'[e] = record
          /\ \A o \in Editor : o # e => draft'[o] = draft[o]
      BY <2>1, KeepsOne DEF FloorsInv
    <2>. QED
      BY <2>1, <2>2, <2>3 DEF FloorsInv
  <1>5. ASSUME NEW e \in Editor, FillFloors(e) PROVE FloorsInv'
    <2>1. /\ draft[e].at = "fill" /\ floors' = floors \cup draft[e].floors
          /\ Keeps(e, NoDraft) /\ UNCHANGED <<sent, halved>>
      BY <1>5 DEF FillFloors
    <2>2. /\ DraftsByEditor' /\ draft'[e].at = "idle"
          /\ \A o \in Editor : o # e => draft'[o] = draft[o]
      BY <2>1, KeepsOne DEF FloorsInv, NoDraft
    <2>. QED
      BY <2>1, <2>2 DEF FloorsInv
  <1>6. ASSUME NEW e \in Editor, EditStops(e) PROVE FloorsInv'
    <2>1. /\ Keeps(e, NoDraft) /\ UNCHANGED <<floors, sent>>
          /\ halved' = (halved \/ draft[e].at = "fill")
      BY <1>6 DEF EditStops
    <2>2. /\ DraftsByEditor' /\ draft'[e].at = "idle"
          /\ \A o \in Editor : o # e => draft'[o] = draft[o]
      BY <2>1, KeepsOne DEF FloorsInv, NoDraft
    <2>. QED
      BY <2>1, <2>2 DEF FloorsInv
  <1>7. ASSUME UNCHANGED <<draft, floorVars>> PROVE FloorsInv'
    BY <1>7 DEF FloorsInv, floorVars, DraftsByEditor
  <1>. QED
    BY <1>2, <1>3, <1>4, <1>5, <1>6, <1>7
    DEF InboundsNext, inboundVars, Assign, SavePhoto, SaveLocationIfMissing

-----------------------------------------------------------------------------

LEMMA InboundsInitHolds == InboundsInit => LocationInv /\ FloorsInv /\ QueuedIsUnassigned
  BY DEF InboundsInit, LocationInv, FloorsInv, QueuedIsUnassigned, DraftsByEditor, RowShape,
         CarriesLocation, DeviceFixYields, NoDraft

(* saveLocationIfMissing's fix never replaces what a photo or an edit has  *)
(* given, however many edits cross it.                                     *)
THEOREM DeviceFixesYield == InboundsSpec => []DeviceFixYields
  <1>1. LocationInv => DeviceFixYields
    BY DEF LocationInv
  <1>. QED
    BY InboundsInitHolds, LocationStep, <1>1, PTL DEF InboundsSpec

(* However many edits replace the floors at once (update's delete and      *)
(* save): nothing from before the latest deletion is left, and once they   *)
(* are through, all is there that those at it sent, unless one stopped     *)
(* between its two statements.                                             *)
THEOREM FloorsStayAsSent == InboundsSpec => []FloorsAsSent
  <1>1. FloorsInv => FloorsAsSent
    BY DEF FloorsInv, FloorsAsSent, Filling
  <1>. QED
    BY InboundsInitHolds, FloorsStep, <1>1, PTL DEF InboundsSpec

(* assign keeps the assignee and the queue together, and only an edit of   *)
(* an outdated copy takes them apart.                                      *)
THEOREM QueuedAreUnassigned == InboundsSpec => []QueuedIsUnassigned
  <1>1. ASSUME QueuedIsUnassigned, RowShape, [InboundsNext]_inboundVars PROVE QueuedIsUnassigned'
    <2>1. ASSUME NEW e \in Editor, NEW new, WriteEdit(e, new) PROVE QueuedIsUnassigned'
      <3>1. ~torn' => ~torn /\ inbound'.staff = inbound.staff /\ inbound'.queued = inbound.queued
        BY <2>1 DEF WriteEdit, InboundColumn
      <3>. QED
        BY <1>1, <3>1 DEF QueuedIsUnassigned
    <2>2. ASSUME NEW s, Assign(s) PROVE QueuedIsUnassigned'
      BY <1>1, <2>2 DEF Assign, RowShape, QueuedIsUnassigned
    <2>3. ASSUME UNCHANGED torn, inbound'.staff = inbound.staff,
                 inbound'.queued = inbound.queued
          PROVE  QueuedIsUnassigned'
      BY <1>1, <2>3 DEF QueuedIsUnassigned
    <2>4. ASSUME NEW gps \in BOOLEAN, SavePhoto(gps) PROVE QueuedIsUnassigned'
      BY <1>1, <2>3, <2>4 DEF SavePhoto, RowShape
    <2>5. ASSUME SaveLocationIfMissing PROVE QueuedIsUnassigned'
      BY <1>1, <2>3, <2>5 DEF SaveLocationIfMissing, RowShape
    <2>. QED
      BY <1>1, <2>1, <2>2, <2>3, <2>4, <2>5
      DEF InboundsNext, inboundVars, StartEdit, LoadEdit, SaveEdit, ClearFloors, FillFloors, EditStops
  <1>2. LocationInv => RowShape
    BY DEF LocationInv
  <1>. QED
    BY InboundsInitHolds, LocationStep, <1>1, <1>2, PTL DEF InboundsSpec

=============================================================================
