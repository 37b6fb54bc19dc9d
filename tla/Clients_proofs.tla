--------------------------- MODULE Clients_proofs ---------------------------
(***************************************************************************)
(* Theorems about the clients: the backend's of the site API (SiteSession),*)
(* for any number of requests, logins and expiries, and the browser's of   *)
(* the backend: the list of properties (ListPage), for any number of       *)
(* views and rows, the form of a property with its draft (PropertyForm),   *)
(* for any number of authors and fields, and the outbox of positions       *)
(* (LocationQueue), for any number of accounts and of submissions.         *)
(***************************************************************************)
EXTENDS SiteSession, ListPage, PropertyForm, LocationQueue, SequenceTheorems,
        WellFoundedInduction, TLAPS

CallState == [at : {"new", "login", "sent", "ok", "denied"} \cup Ended, carries : Nat,
              again : BOOLEAN, late : BOOLEAN]

SiteTypeOK ==
  /\ token \in Nat
  /\ login \in BOOLEAN
  /\ call \in [Caller -> CallState]
  /\ issued \in Nat
  /\ expired \in Nat
  /\ handled \in [Caller -> Nat]
  /\ steady \in BOOLEAN

(* What is so of a request, r, for which the site has acted n times: it    *)
(* has not acted on one that may still be sent, and one made while the     *)
(* site is steady cannot fail, for its retry has a token that stays good.  *)
Sound(r, n) ==
  /\ n <= 1
  /\ r.at \in {"new", "login", "sent", "denied"} => n = 0
  /\ r.at = "new" => ~r.again
  /\ r.late => steady /\ r.at \notin {"new", "refused", "failed"}
  /\ r.late /\ r.again => r.at # "denied"
  /\ r.late /\ r.again /\ r.at = "sent" => r.carries > expired

IInv ==
  /\ SiteTypeOK
  /\ expired <= issued
  /\ \A c \in Caller : Sound(call[c], handled[c])

-----------------------------------------------------------------------------

LEMMA SiteInitHolds == SiteInit => IInv
  <1>. SUFFICES ASSUME SiteInit PROVE IInv
    OBVIOUS
  <1>1. NewCall \in CallState /\ Sound(NewCall, 0)
    BY DEF NewCall, CallState, Sound
  <1>2. \A c \in Caller : call[c] = NewCall /\ handled[c] = 0
    BY DEF SiteInit
  <1>3. SiteTypeOK
    <2>1. token \in Nat /\ issued \in Nat /\ expired \in Nat
      BY DEF SiteInit
    <2>2. login \in BOOLEAN /\ steady \in BOOLEAN
      BY Zenon DEF SiteInit
    <2>3. call \in [Caller -> CallState] /\ handled \in [Caller -> Nat]
      BY <1>1 DEF SiteInit
    <2>. QED
      BY <2>1, <2>2, <2>3 DEF SiteTypeOK
  <1>4. expired <= issued
    BY DEF SiteInit
  <1>. QED
    BY <1>1, <1>2, <1>3, <1>4 DEF IInv

(* A step of one request, which leaves the site and its tokens as they are.*)
Moves(c, new, n) ==
  /\ call' = [call EXCEPT ![c] = new]
  /\ handled' = [handled EXCEPT ![c] = n]
  /\ token' \in Nat /\ login' \in BOOLEAN
  /\ UNCHANGED <<issued, expired, steady>>

LEMMA MovePreserves ==
  ASSUME IInv, NEW c \in Caller, NEW new \in CallState, NEW n \in Nat,
         Moves(c, new, n), Sound(new, n)
  PROVE  IInv'
  <1>1. SiteTypeOK'
    BY DEF IInv, SiteTypeOK, Moves
  <1>2. \A o \in Caller : \/ call'[o] = call[o] /\ handled'[o] = handled[o]
                          \/ call'[o] = new /\ handled'[o] = n
    BY DEF IInv, SiteTypeOK, Moves
  <1>3. \A o \in Caller : Sound(call'[o], handled'[o])
    BY <1>2 DEF IInv
  <1>4. \A r, k : Sound(r, k) => Sound(r, k)'
    BY DEF Sound, Moves
  <1>. QED
    BY <1>1, <1>3, <1>4 DEF IInv, Moves, Sound

LEMMA CallPreserves ==
  ASSUME IInv, NEW c \in Caller,
         BeginCall(c) \/ Handle(c) \/ Serve(c) \/ Denied(c) \/ Unreachable(c)
  PROVE  IInv'
  <1>1. /\ call[c] \in CallState /\ handled[c] \in Nat
        /\ handled = [handled EXCEPT ![c] = handled[c]]
        /\ token \in Nat /\ login \in BOOLEAN
    BY DEF IInv, SiteTypeOK
  <1>2. Sound(call[c], handled[c])
    BY DEF IInv
  <1>3. ASSUME BeginCall(c) PROVE IInv'
    <2>. DEFINE new == [call[c] EXCEPT !.at = IF token = 0 THEN "login" ELSE "sent",
                                       !.carries = token, !.late = steady]
    <2>1. new \in CallState /\ new.again = call[c].again /\ new.at \in {"login", "sent"}
          /\ new.late = steady
      BY <1>1 DEF CallState, IInv, SiteTypeOK
    <2>2. call' = [call EXCEPT ![c] = new]
      BY <1>1, <1>3 DEF BeginCall, CallState
    <2>. HIDE DEF new
    <2>3. Moves(c, new, handled[c])
      BY <1>1, <1>3, <2>2 DEF BeginCall, Moves
    <2>4. Sound(new, handled[c])
      BY <1>2, <1>3, <2>1 DEF BeginCall, Sound
    <2>. QED
      BY <1>1, <2>1, <2>3, <2>4, MovePreserves
  <1>. DEFINE sent(where) == [call[c] EXCEPT !.at = where]
  <1>4. ASSUME NEW where \in {"ok", "denied"} \cup Ended,
               call' = [call EXCEPT ![c] = sent(where)], NEW n \in Nat,
               handled' = [handled EXCEPT ![c] = n],
               UNCHANGED <<token, login, issued, expired, steady>>,
               Sound(sent(where), n)
        PROVE  IInv'
    <2>1. sent(where) \in CallState
      BY <1>1, <1>4 DEF CallState
    <2>2. Moves(c, sent(where), n)
      BY <1>1, <1>4 DEF Moves
    <2>. HIDE DEF sent
    <2>. QED
      BY <1>4, <2>1, <2>2, MovePreserves
  <1>5. ASSUME NEW where \in {"ok", "denied"} \cup Ended
        PROVE  /\ sent(where).at = where /\ sent(where).again = call[c].again
               /\ sent(where).late = call[c].late
    BY <1>1 DEF CallState
  <1>6. ASSUME Handle(c), call[c].carries > expired PROVE IInv'
    <2>1. /\ call' = [call EXCEPT ![c] = sent("ok")] /\ call[c].at = "sent"
          /\ UNCHANGED <<token, login, issued, expired, steady>>
          /\ handled' = [handled EXCEPT ![c] = handled[c] + 1]
      BY <1>6 DEF Handle, IInv, SiteTypeOK
    <2>2. handled[c] + 1 = 1
      BY <1>2, <2>1 DEF Sound
    <2>. HIDE DEF sent
    <2>3. Sound(sent("ok"), 1)
      BY <1>2, <1>5, <2>1 DEF Sound
    <2>. QED
      BY <1>4, <2>1, <2>2, <2>3
  <1>7. ASSUME Handle(c), ~(call[c].carries > expired) PROVE IInv'
    <2>1. /\ call' = [call EXCEPT ![c] = sent("denied")] /\ call[c].at = "sent"
          /\ UNCHANGED <<token, login, issued, expired, steady>>
          /\ handled' = handled
      BY <1>7 DEF Handle, IInv, SiteTypeOK
    <2>. HIDE DEF sent
    <2>2. Sound(sent("denied"), handled[c])
      BY <1>2, <1>5, <1>7, <2>1 DEF Sound
    <2>. QED
      BY <1>1, <1>4, <2>1, <2>2
  <1>8. ASSUME Serve(c) PROVE IInv'
    <2>1. /\ call' = [call EXCEPT ![c] = sent("served")] /\ call[c].at = "ok"
          /\ UNCHANGED <<token, login, issued, expired, steady>>
          /\ handled' = handled
      BY <1>8 DEF Serve, IInv, SiteTypeOK
    <2>. HIDE DEF sent
    <2>2. Sound(sent("served"), handled[c])
      BY <1>2, <1>5, <2>1 DEF Sound, Ended
    <2>. QED
      BY <1>1, <1>4, <2>1, <2>2 DEF Ended
  <1>9. ASSUME Denied(c), Retries(c) PROVE IInv'
    <2>. DEFINE new == [call[c] EXCEPT !.at = "login", !.again = TRUE]
    <2>1. new \in CallState /\ new.at = "login" /\ new.late = call[c].late
      BY <1>1 DEF CallState
    <2>2. call' = [call EXCEPT ![c] = new] /\ call[c].at = "denied"
      BY <1>1, <1>9 DEF Denied, CallState
    <2>. HIDE DEF new
    <2>3. Moves(c, new, handled[c])
      BY <1>1, <1>9, <2>2 DEF Denied, Moves
    <2>4. Sound(new, handled[c])
      BY <1>2, <2>1, <2>2 DEF Sound
    <2>. QED
      BY <1>1, <2>1, <2>3, <2>4, MovePreserves
  <1>10. ASSUME Denied(c), ~Retries(c) PROVE IInv'
    <2>1. /\ call' = [call EXCEPT ![c] = sent("refused")] /\ call[c].at = "denied"
          /\ UNCHANGED <<token, login, issued, expired, steady>>
          /\ handled' = handled /\ call[c].again
      BY <1>10 DEF Denied, Retries, IInv, SiteTypeOK
    <2>. HIDE DEF sent
    <2>2. Sound(sent("refused"), handled[c])
      BY <1>2, <1>5, <2>1 DEF Sound, Ended
    <2>. QED
      BY <1>1, <1>4, <2>1, <2>2 DEF Ended
  <1>11. ASSUME Unreachable(c) PROVE IInv'
    <2>1. /\ call' = [call EXCEPT ![c] = sent("failed")] /\ ~steady
          /\ UNCHANGED <<token, login, issued, expired, steady>>
          /\ handled' = handled
      BY <1>11 DEF Unreachable, AfterUnreachable, IInv, SiteTypeOK
    <2>. HIDE DEF sent
    <2>2. Sound(sent("failed"), handled[c])
      BY <1>2, <1>5, <2>1 DEF Sound, Ended
    <2>. QED
      BY <1>1, <1>4, <2>1, <2>2 DEF Ended
  <1>. QED
    BY <1>3, <1>6, <1>7, <1>8, <1>9, <1>10, <1>11

(* Every request that waited goes on as new(c) says; the tokens that are   *)
(* good stay so.                                                           *)
LEMMA LoginEndPreserves ==
  ASSUME IInv, UNCHANGED <<expired, handled, steady>>, login' \in BOOLEAN,
         token' \in Nat, issued' \in Nat, issued <= issued',
         call' \in [Caller -> CallState],
         \A c \in Caller : Sound(call'[c], handled[c])
  PROVE  IInv'
  <1>1. SiteTypeOK'
    BY DEF IInv, SiteTypeOK
  <1>2. \A r, k : Sound(r, k) => Sound(r, k)'
    BY DEF Sound
  <1>. QED
    BY <1>1, <1>2 DEF IInv, SiteTypeOK, Sound

LEMMA LoginReplyPreserves ==
  ASSUME IInv, LoginReply
  PROVE  IInv'
  <1>. DEFINE sent(c) == [call[c] EXCEPT !.at = "sent", !.carries = issued + 1]
  <1>. DEFINE new(c) == IF call[c].at = "login" THEN sent(c) ELSE call[c]
  <1>1. /\ call' = [c \in Caller |-> new(c)] /\ issued' = issued + 1 /\ token' = issued + 1
        /\ login' = FALSE /\ UNCHANGED <<expired, handled, steady>>
    BY DEF LoginReply
  <1>2. issued \in Nat /\ expired \in Nat /\ expired < issued + 1
    BY DEF IInv, SiteTypeOK
  <1>3. ASSUME NEW c \in Caller PROVE new(c) \in CallState /\ Sound(new(c), handled[c])
    <2>1. call[c] \in CallState /\ Sound(call[c], handled[c])
      BY DEF IInv, SiteTypeOK
    <2>2. /\ sent(c) \in CallState /\ sent(c).at = "sent" /\ sent(c).carries > expired
          /\ sent(c).late = call[c].late /\ sent(c).again = call[c].again
      <3>1. issued + 1 \in Nat /\ issued + 1 > expired
        BY <1>2
      <3>. QED
        BY <2>1, <3>1 DEF CallState
    <2>. HIDE DEF sent
    <2>3. call[c].at = "login" => Sound(sent(c), handled[c])
      BY <2>1, <2>2 DEF Sound
    <2>. QED
      BY <2>1, <2>2, <2>3
  <1>. HIDE DEF new
  <1>4. login' \in BOOLEAN
    BY <1>1, Zenon
  <1>5. call' \in [Caller -> CallState] /\ \A c \in Caller : Sound(call'[c], handled[c])
    BY <1>1, <1>3
  <1>6. token' \in Nat /\ issued' \in Nat /\ issued <= issued'
    BY <1>1, <1>2
  <1>. QED
    BY <1>1, <1>4, <1>5, <1>6, LoginEndPreserves

LEMMA LoginFailsPreserves ==
  ASSUME IInv, LoginFails
  PROVE  IInv'
  <1>. DEFINE new(c) == IF call[c].at = "login" THEN [call[c] EXCEPT !.at = "failed"] ELSE call[c]
  <1>1. /\ call' = [c \in Caller |-> new(c)] /\ login' = FALSE /\ ~steady
        /\ UNCHANGED <<token, issued, expired, handled, steady>>
    BY DEF LoginFails
  <1>2. ASSUME NEW c \in Caller PROVE new(c) \in CallState /\ Sound(new(c), handled[c])
    <2>1. call[c] \in CallState /\ Sound(call[c], handled[c])
      BY DEF IInv, SiteTypeOK
    <2>. DEFINE lost == [call[c] EXCEPT !.at = "failed"]
    <2>2. lost \in CallState /\ lost.at = "failed" /\ lost.late = call[c].late
      BY <2>1 DEF CallState, Ended
    <2>. HIDE DEF lost
    <2>3. Sound(lost, handled[c])
      BY <1>1, <2>1, <2>2 DEF Sound
    <2>. QED
      BY <2>1, <2>2, <2>3 DEF lost
  <1>. HIDE DEF new
  <1>3. login' \in BOOLEAN
    BY <1>1, Zenon
  <1>4. call' \in [Caller -> CallState] /\ \A c \in Caller : Sound(call'[c], handled[c])
    BY <1>1, <1>2
  <1>5. token' \in Nat /\ issued' \in Nat /\ issued <= issued'
    BY <1>1 DEF IInv, SiteTypeOK
  <1>. QED
    BY <1>1, <1>3, <1>4, <1>5, LoginEndPreserves

LEMMA SiteStep ==
  ASSUME IInv, [SiteNext]_siteVars
  PROVE  IInv'
  <1>1. ASSUME TokenExpires PROVE IInv'
    <2>1. \A c \in Caller : ~call[c].late
      BY <1>1 DEF TokenExpires, IInv, Sound
    <2>. QED
      BY <1>1, <2>1 DEF TokenExpires, IInv, SiteTypeOK, Sound
  <1>2. ASSUME SiteRecovers PROVE IInv'
    BY <1>2 DEF SiteRecovers, IInv, SiteTypeOK, Sound
  <1>3. ASSUME UNCHANGED siteVars PROVE IInv'
    BY <1>3 DEF siteVars, IInv, SiteTypeOK, Sound
  <1>. QED
    BY <1>1, <1>2, <1>3, CallPreserves, LoginReplyPreserves, LoginFailsPreserves DEF SiteNext

-----------------------------------------------------------------------------

LEMMA SiteInvariant == SiteSpec => []IInv
  BY SiteInitHolds, SiteStep, PTL DEF SiteSpec

(* The site does what a request asks at most once: request and uploadImage *)
(* send again only what a 401 says was not done.  And one retry is enough: *)
(* whoever asks a site that is steady again is served, whichever old token *)
(* or shared login the request began with.                                 *)
THEOREM RequestsServedOnce == SiteSpec => []ServedOnce
  <1>1. IInv => HandledOnce
    BY DEF IInv, Sound, HandledOnce
  <1>2. IInv => ServedOnceSteady
    BY DEF IInv, ServedOnceSteady, Sound, Ended
  <1>. QED
    BY <1>1, <1>2, SiteInvariant, PTL DEF ServedOnce

-----------------------------------------------------------------------------

(* The list of properties.                                                 *)
Nowhere == [page |-> 0]

Fetch == [place : Place, aborted : BOOLEAN, replied : BOOLEAN, total : Page]

ListTypeOK ==
  /\ size \in [View -> Page]
  /\ asks \in [mounted : BOOLEAN, place : Place \cup {Nowhere}]
  /\ answer \in [total : Page, to : Place \cup {Nowhere}]
  /\ fetches \subseteq Fetch
  /\ loading \in BOOLEAN
  /\ action \in [kind : {"none", "toggle", "approve", "delete"}, place : Place \cup {Nowhere}]
  /\ astray \in BOOLEAN
  /\ asks.mounted => asks.place \in Place
  /\ action # NoAction => asks.mounted /\ action.kind # "none" /\ action.place \in Place

(* A list waits for one fetch at most, of the place it asks for unless a   *)
(* row action led astray, and none once it has stopped loading.            *)
OneIsAwaited ==
  /\ \A f, g \in fetches : ~f.aborted /\ ~g.aborted => f = g
  /\ \A f \in fetches : ~f.aborted => loading /\ (astray \/ f.place = asks.place)

ListInv ==
  /\ ListTypeOK
  /\ ~asks.mounted => fetches = {} /\ loading
  /\ OneIsAwaited
  /\ ShowsWhatItSays

LEMMA PlacesTyped ==
  /\ 0 \in Page
  /\ \A place \in Place, page \in Page : [place EXCEPT !.page = page] \in Place
  /\ \A total \in Page : LastPage(total) \in Page
  /\ \A place \in Place, total \in Page : ClampedPage(place.page, total) \in Page
  /\ \A place \in Place : place.page \in Page
  /\ NoAction.kind = "none"
  BY MaxSizeAssumption DEF Page, Place, LastPage, ClampedPage, NoAction

LEMMA FetchedIsOne ==
  ASSUME NEW fs \in SUBSET Fetch, NEW place \in Place
  PROVE  /\ Fetched(fs, place) \subseteq Fetch
         /\ \A f \in Fetched(fs, place) : ~f.aborted => f = Asked(place)
         /\ Asked(place).place = place
  <1>. SUFFICES ASSUME NEW f \in Fetched(fs, place)
                PROVE  f \in Fetch /\ (~f.aborted => f = Asked(place))
    BY DEF Asked
  <1>1. CASE f = Asked(place)
    BY <1>1, PlacesTyped DEF Asked, Fetch
  <1>2. CASE f # Asked(place)
    <2>1. PICK g \in fs : f = [Asked(g.place) EXCEPT !.aborted = TRUE]
      BY <1>2 DEF Fetched
    <2>2. f = [place |-> g.place, aborted |-> TRUE, replied |-> FALSE, total |-> 0]
      BY <2>1 DEF Asked
    <2>. QED
      BY <2>2, PlacesTyped DEF Fetch
  <1>. QED
    BY <1>1, <1>2

(* A fetch of what is asked for, or of where a row action began.           *)
LEMMA FetchPreserves ==
  ASSUME ListInv, NEW fs \in SUBSET Fetch, NEW place \in Place,
         fetches' = Fetched(fs, place), loading' = TRUE, astray' \in BOOLEAN,
         astray' \/ place = asks'.place, asks' \in [mounted : {TRUE}, place : Place],
         size' \in [View -> Page], answer' \in [total : Page, to : Place \cup {Nowhere}],
         action' \in [kind : {"none", "toggle", "approve", "delete"},
                      place : Place \cup {Nowhere}],
         action' # NoAction => action'.kind # "none" /\ action'.place \in Place
  PROVE  ListInv'
  <1>1. ListTypeOK'
    <2>1. fetches' \subseteq Fetch
      BY FetchedIsOne
    <2>. QED
      BY <2>1 DEF ListTypeOK
  <1>2. OneIsAwaited'
    <2>1. \A f \in fetches' : ~f.aborted => f = Asked(place) /\ f.place = place
      BY FetchedIsOne
    <2>. QED
      BY <2>1 DEF OneIsAwaited
  <1>. QED
    BY <1>1, <1>2 DEF ListInv, ShowsWhatItSays

(* The list asks for another place.                                        *)
LEMMA ShowPreserves ==
  ASSUME ListInv, NEW place \in Place, NEW fs \in SUBSET fetches, Show(place, fs),
         size' \in [View -> Page], answer' \in [total : Page, to : Place \cup {Nowhere}],
         action' \in {action, NoAction}
  PROVE  ListInv'
  <1>1. /\ fs \in SUBSET Fetch
        /\ action' \in [kind : {"none", "toggle", "approve", "delete"},
                        place : Place \cup {Nowhere}]
        /\ action' # NoAction => action'.kind # "none" /\ action'.place \in Place
    BY DEF ListInv, ListTypeOK, NoAction, Nowhere
  <1>2. /\ fetches' = Fetched(fs, place) /\ loading' = TRUE /\ astray' = FALSE
        /\ asks' = [mounted |-> TRUE, place |-> place]
    BY DEF Show
  <1>3. asks' \in [mounted : {TRUE}, place : Place] /\ place = asks'.place /\ astray' \in BOOLEAN
    BY <1>2
  <1>. QED
    BY <1>1, <1>2, <1>3, FetchPreserves

(* An answer, or a count that has changed, has settled the page.           *)
LEMMA SettledPreserves ==
  ASSUME ListInv, asks.mounted, NEW fs \in SUBSET fetches, NEW total \in Page,
         Settled(total, fs), \A f \in fs : f.aborted, UNCHANGED size,
         NEW to \in Place \cup {Nowhere}, answer' = [total |-> total, to |-> to],
         astray \/ to = asks.place, action' \in {action, NoAction}
  PROVE  ListInv'
  <1>. DEFINE place == [asks.place EXCEPT !.page = ClampedPage(@, total)]
  <1>1. /\ asks.place \in Place /\ place \in Place /\ size \in [View -> Page]
        /\ answer' \in [total : Page, to : Place \cup {Nowhere}]
    BY PlacesTyped DEF ListInv, ListTypeOK
  <1>2. CASE place # asks.place
    BY <1>1, <1>2, ShowPreserves DEF Settled
  <1>3. CASE place = asks.place
    <2>1. fetches' = fs /\ loading' = FALSE /\ UNCHANGED <<asks, astray>>
      BY <1>3 DEF Settled
    <2>2. ListTypeOK'
      <3>1. /\ action' \in [kind : {"none", "toggle", "approve", "delete"},
                             place : Place \cup {Nowhere}]
            /\ action' # NoAction =>
                 asks.mounted /\ action'.kind # "none" /\ action'.place \in Place
        BY DEF ListInv, ListTypeOK, NoAction, Nowhere
      <3>2. fetches' \subseteq Fetch
        BY <2>1 DEF ListInv, ListTypeOK
      <3>. QED
        BY <1>1, <2>1, <3>1, <3>2 DEF ListInv, ListTypeOK
    <2>3. asks.place.page <= LastPage(total)
      <3>1. ClampedPage(asks.place.page, total) = asks.place.page
        BY <1>1, <1>3 DEF Place
      <3>2. asks.place.page \in Page /\ LastPage(total) \in Page
        BY <1>1, PlacesTyped
      <3>. QED
        BY <3>1, <3>2, MaxSizeAssumption DEF ClampedPage, Page
    <2>4. ShowsWhatItSays'
      BY <2>1, <2>3 DEF ShowsWhatItSays
    <2>. QED
      BY <2>1, <2>2, <2>4 DEF ListInv, OneIsAwaited
  <1>. QED
    BY <1>2, <1>3

-----------------------------------------------------------------------------

LEMMA ListInitHolds == ListInit => ListInv
  <1>. SUFFICES ASSUME ListInit PROVE ListInv
    OBVIOUS
  <1>1. ListTypeOK
    BY PlacesTyped DEF ListInit, ListTypeOK, NoAction, Nowhere
  <1>. QED
    BY <1>1 DEF ListInit, ListInv, OneIsAwaited, ShowsWhatItSays

LEMMA UserPreserves ==
  ASSUME ListInv, NEW place \in Place, NEW v \in View, NEW page \in Page,
         Mount(place) \/ ShowView(v) \/ GoPage(page)
  PROVE  ListInv'
  <1>. USE DEF Move
  <1>1. /\ size \in [View -> Page] /\ answer \in [total : Page, to : Place \cup {Nowhere}]
        /\ asks.mounted => asks.place \in Place
    BY DEF ListInv, ListTypeOK
  <1>2. CASE Mount(place)
    BY <1>1, <1>2, ShowPreserves DEF Mount
  <1>3. CASE ShowView(v)
    <2>1. [view |-> v, page |-> 0] \in Place
      BY PlacesTyped DEF Place
    <2>. QED
      BY <1>1, <1>3, <2>1, ShowPreserves DEF ShowView
  <1>4. CASE GoPage(page)
    <2>1. [asks.place EXCEPT !.page = page] \in Place
      BY <1>1, <1>4, PlacesTyped DEF GoPage
    <2>. QED
      BY <1>1, <1>4, <2>1, ShowPreserves DEF GoPage
  <1>. QED
    BY <1>2, <1>3, <1>4

LEMMA ActPreserves ==
  ASSUME ListInv, NEW kind \in {"toggle", "approve", "delete"}, Act(kind)
  PROVE  ListInv'
  <1>1. asks.place \in Place /\ size[asks.place.view] \in Page /\ size[asks.place.view] > 0
    BY DEF Act, ListInv, ListTypeOK, Place
  <1>2. size[asks.place.view] - 1 \in Page
    BY <1>1, MaxSizeAssumption DEF Page
  <1>3. size' \in [View -> Page]
    BY <1>2 DEF Act, ListInv, ListTypeOK
  <1>. QED
    BY <1>1, <1>3 DEF Act, ListInv, ListTypeOK, OneIsAwaited, ShowsWhatItSays

LEMMA RowActionPreserves ==
  ASSUME ListInv, Refetch \/ Approved \/ Deleted \/ ActionFails
  PROVE  ListInv'
  <1>1. /\ size \in [View -> Page] /\ answer \in [total : Page, to : Place \cup {Nowhere}]
        /\ fetches \in SUBSET Fetch /\ asks.place \in Place \cup {Nowhere}
        /\ NoAction \in [kind : {"none", "toggle", "approve", "delete"},
                         place : Place \cup {Nowhere}]
        /\ asks \in [mounted : BOOLEAN, place : Place \cup {Nowhere}]
    BY DEF ListInv, ListTypeOK, NoAction, Nowhere
  <1>2. action # NoAction
    BY PlacesTyped DEF Refetch, Approved, Deleted, ActionFails
  <1>3. asks.mounted /\ asks.place \in Place /\ action.place \in Place
    BY <1>2 DEF ListInv, ListTypeOK
  <1>4. CASE Refetch
    <2>1. asks \in [mounted : {TRUE}, place : Place]
      BY <1>1, <1>3
    <2>. QED
      BY <1>1, <1>3, <1>4, <2>1, FetchPreserves DEF Refetch
  <1>5. CASE Approved
    <2>1. [asks.place EXCEPT !.page = 0] \in Place
      BY <1>3, PlacesTyped
    <2>. QED
      BY <1>1, <1>5, <2>1, ShowPreserves DEF Approved
  <1>6. CASE Deleted
    <2>. DEFINE total == IF answer.total > 0 THEN answer.total - 1 ELSE 0
    <2>1. total \in Page
      BY <1>1, MaxSizeAssumption DEF Page
    <2>2. /\ answer' = [total |-> total, to |-> answer.to] /\ answer.to \in Place \cup {Nowhere}
          /\ action' = NoAction /\ UNCHANGED size
      BY <1>1, <1>6 DEF Deleted
    <2>3. CASE loading
      BY <1>1, <1>3, <1>6, <2>1, <2>2, <2>3
      DEF Deleted, ListInv, ListTypeOK, OneIsAwaited, ShowsWhatItSays
    <2>4. CASE ~loading
      <3>1. \A f \in fetches : f.aborted
        BY <1>1, <2>4 DEF ListInv, OneIsAwaited, Fetch
      <3>2. astray \/ answer.to = asks.place
        BY <2>4 DEF ListInv, ShowsWhatItSays
      <3>3. Settled(total, fetches)
        BY <1>6, <2>4 DEF Deleted
      <3>. HIDE DEF total
      <3>. QED
        BY <1>3, <2>1, <2>2, <3>1, <3>2, <3>3, SettledPreserves
    <2>. QED
      BY <2>3, <2>4
  <1>7. CASE ActionFails
    BY <1>1, <1>7 DEF ActionFails, ListInv, ListTypeOK, OneIsAwaited, ShowsWhatItSays
  <1>. QED
    BY <1>4, <1>5, <1>6, <1>7

LEMMA ReplyPreserves ==
  ASSUME ListInv, NEW f \in fetches, Reply(f)
  PROVE  ListInv'
  <1>. DEFINE g == [f EXCEPT !.replied = TRUE, !.total = size[f.place.view]]
  <1>1. f \in Fetch /\ size[f.place.view] \in Page
    BY DEF ListInv, ListTypeOK, Fetch, Place
  <1>2. g \in Fetch /\ g.place = f.place /\ g.aborted = f.aborted
    BY <1>1 DEF Fetch
  <1>3. fetches' = (fetches \ {f}) \cup {g} /\ ~f.aborted
    BY DEF Reply
  <1>. HIDE DEF g
  <1>4. ListTypeOK'
    BY <1>2, <1>3 DEF Reply, ListInv, ListTypeOK
  <1>5. OneIsAwaited'
    <2>1. \A h \in fetches' : ~h.aborted => h = g
      BY <1>3 DEF ListInv, OneIsAwaited
    <2>2. loading /\ (astray \/ g.place = asks.place)
      BY <1>2, <1>3 DEF ListInv, OneIsAwaited
    <2>. QED
      BY <2>1, <2>2 DEF Reply, OneIsAwaited
  <1>. QED
    BY <1>4, <1>5 DEF Reply, ListInv, ShowsWhatItSays

LEMMA ArrivesPreserves ==
  ASSUME ListInv, NEW f \in fetches, NEW total \in Page, Arrives(f, total)
  PROVE  ListInv'
  <1>1. f \in Fetch /\ fetches # {}
    BY DEF ListInv, ListTypeOK
  <1>2. CASE f.aborted
    BY <1>2 DEF Arrives, Ignored, ListInv, ListTypeOK, OneIsAwaited, ShowsWhatItSays
  <1>3. CASE ~f.aborted
    <2>1. /\ Settled(total, fetches \ {f}) /\ answer' = [total |-> total, to |-> f.place]
          /\ UNCHANGED <<size, action>>
      BY <1>3 DEF Arrives, Ignored
    <2>2. \A g \in fetches \ {f} : g.aborted
      BY <1>3 DEF ListInv, ListTypeOK, OneIsAwaited, Fetch
    <2>3. (astray \/ f.place = asks.place) /\ asks.mounted
      BY <1>1, <1>3 DEF ListInv, OneIsAwaited
    <2>4. f.place \in Place /\ fetches \ {f} \in SUBSET fetches
      BY <1>1 DEF Fetch
    <2>. QED
      BY <2>1, <2>2, <2>3, <2>4, SettledPreserves
  <1>. QED
    BY <1>2, <1>3

LEMMA ListStep == ListInv /\ [ListNext]_listVars => ListInv'
  <1>. SUFFICES ASSUME ListInv, ListNext \/ UNCHANGED listVars PROVE ListInv'
    OBVIOUS
  <1>1. ASSUME NEW v \in View, NEW n \in {size[v] - 1, size[v] + 1}, OthersChange(v, n)
        PROVE  ListInv'
    BY <1>1 DEF OthersChange, ListInv, ListTypeOK, OneIsAwaited, ShowsWhatItSays
  <1>2. CASE BecomeQuiet
    BY <1>2 DEF BecomeQuiet, ListInv, ListTypeOK, OneIsAwaited, ShowsWhatItSays
  <1>3. CASE UNCHANGED listVars
    BY <1>3 DEF listVars, ListInv, ListTypeOK, OneIsAwaited, ShowsWhatItSays
  <1>4. ASSUME NEW f \in fetches, FetchArrives(f) \/ FetchFails(f) PROVE ListInv'
    <2>1. f.total \in Page
      BY DEF ListInv, ListTypeOK, Fetch
    <2>. QED
      BY <1>4, <2>1, PlacesTyped, ArrivesPreserves DEF FetchArrives, FetchFails
  <1>5. ASSUME NEW v \in View, ShowView(v) PROVE ListInv'
    <2>1. [view |-> v, page |-> 0] \in Place
      BY PlacesTyped DEF Place
    <2>. QED
      BY <1>5, <2>1, PlacesTyped, UserPreserves
  <1>6. ASSUME NEW page \in Page, GoPage(page) PROVE ListInv'
    <2>1. asks.place \in Place /\ asks.place.view \in View
      BY <1>6 DEF GoPage, ListInv, ListTypeOK, Place
    <2>. QED
      BY <1>6, <2>1, UserPreserves
  <1>7. ASSUME NEW place \in Place, Mount(place) PROVE ListInv'
    <2>1. place.view \in View
      BY DEF Place
    <2>. QED
      BY <1>7, <2>1, PlacesTyped, UserPreserves
  <1>. QED
    BY <1>1, <1>2, <1>3, <1>4, <1>5, <1>6, <1>7, ActPreserves, RowActionPreserves,
       ReplyPreserves DEF ListNext

(* Whatever order replies come in, whatever is toggled, approved, deleted  *)
(* or lost meanwhile (fetchProperties, useClampedPage): a list of          *)
(* properties that is not loading shows what its tab, filters and page     *)
(* say, and a page there is, unless a row action of another view fetched.  *)
THEOREM ListShowsWhatItSays == ListSpec => []ShowsWhatItSays
  <1>1. ListInv => ShowsWhatItSays
    BY DEF ListInv
  <1>. QED
    BY <1>1, ListInitHolds, ListStep, PTL DEF ListSpec

-----------------------------------------------------------------------------

(* A property, and the form, the draft and the save one author has of it.  *)
Sheet == [Entry -> Nat]

FormState == [at : {"closed", "blank", "open", "saving"}, data : Sheet, base : Sheet,
              version : Nat, offer : BOOLEAN]
PaperState == [there : BOOLEAN, data : Sheet, base : Sheet, version : Nat]
FlightState == [at : {"none", "sent", "deaf", "ok", "failed", "conflict"}, data : Sheet,
                version : Nat, ours : BOOLEAN]

FormTypeOK ==
  /\ record \in [value : Sheet, version : Nat]
  /\ form \in [Author -> FormState]
  /\ paper \in [Author -> PaperState]
  /\ flight \in [Author -> FlightState]
  /\ typed \in Nat
  /\ owed \in [Author -> SUBSET (Entry \X Nat)]

(* Nothing is newer than what was typed last.                              *)
Before(sheet, n) == \A e \in Entry : sheet[e] <= n

(* What would be saved of a version holds nothing older than it.           *)
UpToDate(sheet, version) ==
  /\ version <= record.version
  /\ version = record.version => \A e \in Entry : record.value[e] <= sheet[e]

(* The form that offers a draft, or waits for a save.                      *)
FormStands(f, p, w) ==
  /\ f.offer => f.at = "open" /\ p.there /\ p.version = f.version
  /\ w.ours => f.at = "saving"

SheetsSound(f, p, w, n) ==
  /\ Before(f.data, n) /\ Before(f.base, n) /\ Before(p.data, n) /\ Before(p.base, n)
  /\ Before(w.data, n)
  /\ f.at # "closed" => UpToDate(f.data, f.version)
  /\ f.at # "closed" => UpToDate(f.base, f.version)
  /\ p.there => UpToDate(p.data, p.version)
  /\ w.at \in {"sent", "deaf"} => UpToDate(w.data, w.version)
  /\ FormStands(f, p, w)

FormInv ==
  /\ FormTypeOK
  /\ Before(record.value, typed)
  /\ \A s \in Author : SheetsSound(form[s], paper[s], flight[s], typed)

(* Edits are measured against the property as it was read.                 *)
BaseIsRead(f, p) ==
  /\ f.at # "closed" /\ f.version = record.version => f.base = record.value
  /\ p.there /\ p.version = record.version => p.base = record.value
  /\ f.at # "closed" /\ p.there /\ f.version = p.version => f.base = p.base

(* What is owed is kept where it is looked for, and is an edit there.      *)
OnTheForm(f) == f.at \in {"open", "saving"} /\ ~f.offer

OwedIsKept(f, p, w, debt) == \A o \in debt :
  /\ OnTheForm(f) => f.data[o[1]] = o[2]
  /\ ~OnTheForm(f) => p.there /\ p.data[o[1]] = o[2]
  /\ w.at # "ok"
  /\ w.at = "sent" => w.data[o[1]] = o[2]
  /\ o[2] # record.value[o[1]]
  /\ f.at # "closed" => f.base[o[1]] # o[2]
  /\ p.there => p.base[o[1]] # o[2]

Kept(f, p, w, debt) == BaseIsRead(f, p) /\ OwedIsKept(f, p, w, debt)

KeptInv == \A s \in Author : Kept(form[s], paper[s], flight[s], owed[s])

-----------------------------------------------------------------------------

(* One author moves, and has f, p, w and debt afterwards.                  *)
FormMoves(s, f, p, w, debt, n) ==
  /\ record' = record
  /\ typed' = n
  /\ form' = [form EXCEPT ![s] = f]
  /\ paper' = [paper EXCEPT ![s] = p]
  /\ flight' = [flight EXCEPT ![s] = w]
  /\ owed' = [owed EXCEPT ![s] = debt]

LEMMA FormMovePreserves ==
  ASSUME FormInv, KeptInv, NEW s \in Author, NEW f \in FormState, NEW p \in PaperState,
         NEW w \in FlightState, NEW debt \in SUBSET (Entry \X Nat), NEW n \in Nat,
         FormMoves(s, f, p, w, debt, n), typed <= n, SheetsSound(f, p, w, n),
         Kept(f, p, w, debt)
  PROVE  FormInv' /\ KeptInv'
  <1>1. FormTypeOK'
    BY DEF FormMoves, FormInv, FormTypeOK
  <1>2. Before(record.value, typed)'
    <2>1. \A e \in Entry : record.value[e] \in Nat /\ record.value[e] <= typed /\ typed \in Nat
      BY DEF FormInv, FormTypeOK, Sheet, Before
    <2>. QED
      BY <2>1 DEF FormMoves, Before
  <1>3. ASSUME NEW t \in Author PROVE SheetsSound(form[t], paper[t], flight[t], typed)'
    <2>1. CASE t = s
      <3>1. form'[t] = f /\ paper'[t] = p /\ flight'[t] = w /\ typed' = n /\ record' = record
        BY <2>1 DEF FormMoves, FormInv, FormTypeOK
      <3>. QED
        BY <3>1 DEF SheetsSound, FormStands, UpToDate, Before
    <2>2. CASE t # s
      <3>1. /\ form'[t] = form[t] /\ paper'[t] = paper[t] /\ flight'[t] = flight[t]
            /\ typed' = n /\ record' = record
        BY <2>2 DEF FormMoves, FormInv, FormTypeOK
      <3>2. SheetsSound(form[t], paper[t], flight[t], typed) /\ typed \in Nat
        BY DEF FormInv, FormTypeOK
      <3>3. ASSUME NEW sheet \in Sheet, Before(sheet, typed) PROVE Before(sheet, n)
        BY <3>2, <3>3 DEF Before, Sheet
      <3>4. /\ form[t].data \in Sheet /\ form[t].base \in Sheet /\ paper[t].data \in Sheet
            /\ paper[t].base \in Sheet /\ flight[t].data \in Sheet
        BY DEF FormInv, FormTypeOK, FormState, PaperState, FlightState
      <3>5. SheetsSound(form[t], paper[t], flight[t], n)
        BY <3>2, <3>3, <3>4 DEF SheetsSound
      <3>. QED
        BY <3>1, <3>5 DEF SheetsSound, FormStands, UpToDate, Before
    <2>. QED
      BY <2>1, <2>2
  <1>4. ASSUME NEW t \in Author PROVE Kept(form[t], paper[t], flight[t], owed[t])'
    <2>1. CASE t = s
      <3>1. /\ form'[t] = f /\ paper'[t] = p /\ flight'[t] = w /\ owed'[t] = debt
            /\ record' = record
        BY <2>1 DEF FormMoves, FormInv, FormTypeOK
      <3>. QED
        BY <3>1 DEF Kept, BaseIsRead, OwedIsKept, OnTheForm
    <2>2. CASE t # s
      <3>1. /\ form'[t] = form[t] /\ paper'[t] = paper[t] /\ flight'[t] = flight[t]
            /\ owed'[t] = owed[t] /\ record' = record
        BY <2>2 DEF FormMoves, FormInv, FormTypeOK
      <3>2. Kept(form[t], paper[t], flight[t], owed[t])
        BY DEF KeptInv
      <3>. QED
        BY <3>1, <3>2 DEF Kept, BaseIsRead, OwedIsKept, OnTheForm
    <2>. QED
      BY <2>1, <2>2
  <1>. QED
    BY <1>1, <1>2, <1>3, <1>4 DEF FormInv, KeptInv

(* What an author has, as constants.                                       *)
LEMMA AuthorSound ==
  ASSUME FormInv, KeptInv, NEW s \in Author
  PROVE  /\ form[s] \in FormState /\ paper[s] \in PaperState /\ flight[s] \in FlightState
         /\ owed[s] \in SUBSET (Entry \X Nat) /\ typed \in Nat
         /\ record.value \in Sheet /\ record.version \in Nat
         /\ Before(record.value, typed)
         /\ SheetsSound(form[s], paper[s], flight[s], typed)
         /\ Kept(form[s], paper[s], flight[s], owed[s])
         /\ [form EXCEPT ![s] = form[s]] = form /\ [paper EXCEPT ![s] = paper[s]] = paper
         /\ [flight EXCEPT ![s] = flight[s]] = flight /\ [owed EXCEPT ![s] = owed[s]] = owed
  BY DEF FormInv, FormTypeOK, KeptInv

LEMMA NothingTyped ==
  /\ NoForm \in FormState /\ NoPaper \in PaperState /\ NoFlight \in FlightState
  /\ Original \in Sheet
  /\ \A n \in Nat : Before(Original, n)
  /\ NoForm.at = "closed" /\ NoForm.data = Original /\ NoForm.base = Original /\ ~NoForm.offer
  /\ ~NoPaper.there /\ NoPaper.data = Original /\ NoPaper.base = Original
  /\ NoFlight.at = "none" /\ NoFlight.data = Original /\ ~NoFlight.ours
  BY DEF NoForm, NoPaper, NoFlight, Original, Sheet, FormState, PaperState, FlightState, Before

(* saveDraft, of the form f and the draft p.                               *)
Draft(f, p) ==
  IF f.at \in {"closed", "blank"} \/ f.offer THEN p
  ELSE IF f.data = f.base THEN NoPaper
  ELSE [there |-> TRUE, data |-> f.data, base |-> f.base, version |-> f.version]

(* A draft that is saved keeps what is on the form, also when the form     *)
(* goes, and the save is nobody's any more.                                *)
LEMMA DraftKeeps ==
  ASSUME NEW f \in FormState, NEW p \in PaperState, NEW w \in FlightState,
         NEW debt \in SUBSET (Entry \X Nat), NEW n \in Nat, SheetsSound(f, p, w, n)
  PROVE  /\ Draft(f, p) \in PaperState
         /\ SheetsSound(f, Draft(f, p), w, n)
         /\ Kept(f, p, w, debt) => Kept(f, Draft(f, p), w, debt)
  <1>. DEFINE d == Draft(f, p)
  <1>1. CASE f.at \in {"closed", "blank"} \/ f.offer
    BY <1>1 DEF Draft
  <1>2. CASE ~(f.at \in {"closed", "blank"} \/ f.offer)
    <2>0. f.at \in {"open", "saving"} /\ OnTheForm(f) /\ f.base = f.base
      BY <1>2 DEF FormState, OnTheForm
    <2>1. CASE f.data = f.base
      <3>1. d = NoPaper
        BY <1>2, <2>1 DEF Draft
      <3>2. SheetsSound(f, NoPaper, w, n)
        BY <1>2, NothingTyped DEF SheetsSound, FormStands
      <3>3. ASSUME Kept(f, p, w, debt) PROVE Kept(f, NoPaper, w, debt)
        BY <1>2, <2>0, <3>3, NothingTyped DEF Kept, BaseIsRead, OwedIsKept
      <3>. QED
        BY <3>1, <3>2, <3>3, NothingTyped
    <2>2. CASE f.data # f.base
      <3>1. d = [there |-> TRUE, data |-> f.data, base |-> f.base, version |-> f.version]
        BY <1>2, <2>2 DEF Draft
      <3>2. /\ d \in PaperState /\ d.there /\ d.data = f.data /\ d.base = f.base
            /\ d.version = f.version
        BY <3>1 DEF FormState, PaperState
      <3>. HIDE DEF d
      <3>3. SheetsSound(f, d, w, n)
        BY <1>2, <2>0, <3>2 DEF SheetsSound, FormStands
      <3>4. ASSUME Kept(f, p, w, debt) PROVE Kept(f, d, w, debt)
        BY <1>2, <2>0, <3>2, <3>4 DEF Kept, BaseIsRead, OwedIsKept
      <3>. QED
        BY <3>2, <3>3, <3>4 DEF d
    <2>. QED
      BY <2>1, <2>2
  <1>. QED
    BY <1>1, <1>2

(* A save that no form waits for.                                          *)
LEMMA UnheardSound ==
  ASSUME NEW w \in FlightState, NEW m, m = [w EXCEPT !.ours = FALSE] \/ m = Unheard(w)
  PROVE  /\ m \in FlightState /\ ~m.ours
         /\ m.at \in {"none", "sent", "deaf", w.at} /\ m.data \in {w.data, Original}
         /\ m.at \in {"sent", "deaf"} =>
              w.at \in {"sent", "deaf"} /\ m.data = w.data /\ m.version = w.version
         /\ m.at = "sent" => w.at = "sent"
  <1>1. CASE m = [w EXCEPT !.ours = FALSE]
    BY <1>1 DEF FlightState
  <1>2. CASE m = Unheard(w)
    BY <1>2, NothingTyped DEF Unheard, FlightState
  <1>. QED
    BY <1>1, <1>2

(* Once the draft holds what the form has, the form can go.                *)
LEMMA FormGoes ==
  ASSUME NEW f \in FormState, NEW p \in PaperState, NEW w \in FlightState, NEW m,
         NEW debt \in SUBSET (Entry \X Nat), NEW n \in Nat, SheetsSound(f, p, w, n),
         m = [w EXCEPT !.ours = FALSE] \/ m = Unheard(w)
  PROVE  /\ SheetsSound(NoForm, p, m, n) /\ m \in FlightState
         /\ Kept(f, p, w, debt) /\ (\A o \in debt : p.there /\ p.data[o[1]] = o[2])
              => Kept(NoForm, p, m, debt)
  <1>1. /\ SheetsSound(NoForm, p, m, n) /\ m \in FlightState
    BY NothingTyped, UnheardSound DEF SheetsSound, FormStands
  <1>2. ASSUME Kept(f, p, w, debt), \A o \in debt : p.there /\ p.data[o[1]] = o[2]
        PROVE  Kept(NoForm, p, m, debt)
    <2>1. BaseIsRead(NoForm, p)
      BY <1>2, NothingTyped DEF Kept, BaseIsRead
    <2>2. OwedIsKept(NoForm, p, m, debt)
      BY <1>2, NothingTyped, UnheardSound DEF Kept, OwedIsKept, OnTheForm
    <2>. QED
      BY <2>1, <2>2 DEF Kept
  <1>. QED
    BY <1>1, <1>2

(* The form shows the property as it is.                                   *)
LEMMA OpenFormPreserves ==
  ASSUME FormInv, KeptInv, NEW s \in Author, OpenForm(s)
  PROVE  FormInv' /\ KeptInv'
  <1>. DEFINE f == [NoForm EXCEPT !.at = "blank", !.data = record.value,
                                  !.base = record.value, !.version = record.version]
  <1>0. form[s].at = "closed" /\ typed <= typed
    BY AuthorSound DEF OpenForm
  <1>1. FormMoves(s, f, paper[s], flight[s], owed[s], typed)
    BY AuthorSound DEF OpenForm, FormMoves
  <1>2. /\ f \in FormState /\ f.at = "blank" /\ f.data = record.value /\ f.base = record.value
        /\ f.version = record.version /\ ~f.offer
    BY AuthorSound, NothingTyped DEF FormState, NoForm
  <1>. HIDE DEF f
  <1>3. SheetsSound(f, paper[s], flight[s], typed)
    <2>1. UpToDate(record.value, record.version)
      BY AuthorSound DEF UpToDate, Sheet
    <2>2. SheetsSound(form[s], paper[s], flight[s], typed) /\ Before(record.value, typed)
      BY AuthorSound
    <2>. QED
      BY <1>0, <1>2, <2>1, <2>2, AuthorSound, NothingTyped DEF SheetsSound, FormStands
  <1>4. Kept(f, paper[s], flight[s], owed[s])
    <2>1. Kept(form[s], paper[s], flight[s], owed[s])
      BY AuthorSound
    <2>2. BaseIsRead(f, paper[s])
      BY <1>2, <2>1 DEF Kept, BaseIsRead
    <2>3. OwedIsKept(f, paper[s], flight[s], owed[s])
      BY <1>0, <1>2, <2>1 DEF Kept, OwedIsKept, OnTheForm
    <2>. QED
      BY <2>2, <2>3 DEF Kept
  <1>5. /\ paper[s] \in PaperState /\ flight[s] \in FlightState
        /\ owed[s] \in SUBSET (Entry \X Nat) /\ typed \in Nat
    BY AuthorSound
  <1>. QED
    BY <1>0, <1>1, <1>2, <1>3, <1>4, <1>5, FormMovePreserves

(* A draft of the version shown is offered unless it has nothing to offer. *)
LEMMA UsualDraft ==
  ASSUME NEW f \in FormState, NEW p \in PaperState, NEW w \in FlightState,
         NEW debt \in SUBSET (Entry \X Nat), Kept(f, p, w, debt), f.at = "blank",
         p.there, p.version = f.version
  PROVE  (\E o \in debt : TRUE) => Merged(p, f.base) # f.base
  <1>. SUFFICES ASSUME NEW o \in debt, Merged(p, f.base) = f.base PROVE FALSE
    OBVIOUS
  <1>1. p.data[o[1]] = o[2] /\ f.base = p.base /\ p.base[o[1]] # o[2] /\ o[1] \in Entry
    BY DEF Kept, BaseIsRead, OwedIsKept, OnTheForm
  <1>2. Merged(p, f.base)[o[1]] = o[2]
    BY <1>1 DEF Merged
  <1>. QED
    BY <1>1, <1>2

(* What is on the form and not as it was is owed when no draft is left.    *)
LEMMA EditsOwed ==
  ASSUME FormInv, KeptInv, NEW s \in Author, NEW f \in FormState, OnTheForm(f),
         f.data = form[s].data, f.base = form[s].base
  PROVE  Edits(s) \in SUBSET (Entry \X Nat) /\ OwedIsKept(f, NoPaper, flight[s], Edits(s))
  <1>1. ASSUME NEW o \in Edits(s)
        PROVE  /\ o \in Entry \X Nat /\ flight[s].at \in {"none", "deaf"}
               /\ o[2] = f.data[o[1]] /\ o[2] # f.base[o[1]] /\ o[2] # record.value[o[1]]
    <2>1. PICK e \in Entry : /\ o = <<e, f.data[e]>>
                             /\ f.data[e] # f.base[e] /\ f.data[e] # record.value[e]
      BY DEF Edits
    <2>2. flight[s].at \in {"none", "deaf"}
      BY DEF Edits
    <2>3. f.data[e] \in Nat
      BY DEF FormState, Sheet
    <2>. QED
      BY <2>1, <2>2, <2>3
  <1>2. Edits(s) \in SUBSET (Entry \X Nat)
    BY <1>1
  <1>. QED
    BY <1>1, <1>2, NothingTyped DEF OwedIsKept

LEMMA SettlePreserves ==
  ASSUME FormInv, KeptInv, NEW s \in Author, Settle(s)
  PROVE  FormInv' /\ KeptInv'
  <1>. DEFINE usual == paper[s].there /\ ~Outdated(paper[s], form[s].version)
  <1>. DEFINE offer == usual /\ Merged(paper[s], form[s].base) # form[s].base
  <1>. DEFINE f == [form[s] EXCEPT !.at = "open", !.offer = offer]
  <1>. DEFINE p == IF offer THEN paper[s] ELSE NoPaper
  <1>. DEFINE kept == IF paper[s].there /\ ~usual THEN {} ELSE owed[s]
  <1>. DEFINE debt == IF offer THEN kept ELSE kept \cup Edits(s)
  <1>0. /\ form[s] \in FormState /\ paper[s] \in PaperState /\ flight[s] \in FlightState
        /\ owed[s] \in SUBSET (Entry \X Nat) /\ typed \in Nat /\ form[s].at = "blank"
        /\ SheetsSound(form[s], paper[s], flight[s], typed)
        /\ Kept(form[s], paper[s], flight[s], owed[s])
    BY AuthorSound DEF Settle
  <1>1. FormMoves(s, f, p, flight[s], debt, typed)
    <2>1. form' = [form EXCEPT ![s] = f]
      BY DEF Settle
    <2>2. paper' = [paper EXCEPT ![s] = p] /\ owed' = [owed EXCEPT ![s] = debt]
      BY AuthorSound DEF Settle
    <2>. QED
      BY <2>1, <2>2, AuthorSound DEF FormMoves, Settle
  <1>2. /\ f \in FormState /\ f.at = "open" /\ f.data = form[s].data /\ f.base = form[s].base
        /\ f.version = form[s].version /\ f.offer = offer
    <2>. HIDE DEF offer
    <2>1. offer \in BOOLEAN
      BY DEF offer
    <2>. QED
      BY <1>0, <2>1 DEF FormState
  <1>. HIDE DEF f
  <1>3. SheetsSound(f, p, flight[s], typed)
    <2>1. offer => paper[s].version = form[s].version /\ paper[s].there
      BY DEF Outdated
    <2>. QED
      BY <1>0, <1>2, <2>1, NothingTyped DEF SheetsSound, FormStands
  <1>4. p \in PaperState /\ debt \in SUBSET (Entry \X Nat) /\ Kept(f, p, flight[s], debt)
    <2>1. BaseIsRead(f, p)
      BY <1>0, <1>2, NothingTyped DEF Kept, BaseIsRead
    <2>2. CASE offer
      <3>1. /\ p = paper[s] /\ f.offer /\ debt = owed[s] /\ paper[s].there
            /\ paper[s].version = form[s].version
        BY <1>2, <2>2 DEF Outdated
      <3>. HIDE DEF p, debt
      <3>2. OwedIsKept(f, p, flight[s], debt)
        BY <1>0, <1>2, <3>1 DEF Kept, OwedIsKept, OnTheForm
      <3>. QED
        BY <1>0, <2>1, <3>1, <3>2 DEF Kept
    <2>3. CASE ~offer
      <3>1. kept = {}
        <4>1. CASE ~paper[s].there
          BY <1>0, <4>1 DEF Kept, OwedIsKept, OnTheForm
        <4>2. CASE paper[s].there /\ ~usual
          BY <4>2
        <4>3. CASE usual
          <5>1. paper[s].there /\ paper[s].version = form[s].version
            BY <4>3 DEF Outdated
          <5>2. Merged(paper[s], form[s].base) = form[s].base
            BY <2>3, <4>3
          <5>3. ~ \E o \in owed[s] : TRUE
            BY <1>0, <5>1, <5>2, UsualDraft
          <5>. QED
            BY <5>3
        <4>. QED
          BY <4>1, <4>2, <4>3
      <3>2. p = NoPaper /\ debt = Edits(s) /\ OnTheForm(f)
        BY <1>2, <2>3, <3>1 DEF OnTheForm
      <3>. HIDE DEF p, debt, kept, offer
      <3>3. Edits(s) \in SUBSET (Entry \X Nat) /\ OwedIsKept(f, NoPaper, flight[s], Edits(s))
        BY <1>2, <3>2, EditsOwed
      <3>. QED
        BY <2>1, <3>2, <3>3, NothingTyped DEF Kept
    <2>. QED
      BY <2>2, <2>3
  <1>5. typed <= typed
    BY <1>0
  <1>. HIDE DEF p, debt
  <1>. QED
    BY <1>0, <1>1, <1>2, <1>3, <1>4, <1>5, FormMovePreserves

(* A draft on offer is measured against what the form shows.               *)
LEMMA MergedKeeps ==
  ASSUME NEW p \in PaperState, NEW now \in Sheet, NEW n \in Nat, Before(p.data, n),
         Before(now, n), NEW v \in Nat, UpToDate(p.data, v), UpToDate(now, v)
  PROVE  /\ Merged(p, now) \in Sheet
         /\ Before(Merged(p, now), n) /\ UpToDate(Merged(p, now), v)
         /\ p.base = now => \A e \in Entry : Merged(p, now)[e] = p.data[e]
  <1>1. \A e \in Entry : Merged(p, now)[e] \in {p.data[e], now[e]}
    BY DEF Merged
  <1>2. Merged(p, now) \in Sheet
    BY DEF Merged, Sheet, PaperState
  <1>3. Before(Merged(p, now), n) /\ UpToDate(Merged(p, now), v)
    BY <1>1 DEF Before, UpToDate
  <1>. QED
    BY <1>2, <1>3 DEF Merged, Sheet, PaperState

LEMMA RestoreDraftPreserves ==
  ASSUME FormInv, KeptInv, NEW s \in Author, RestoreDraft(s)
  PROVE  FormInv' /\ KeptInv'
  <1>. DEFINE now == form[s].base
  <1>. DEFINE new == Merged(paper[s], now)
  <1>. DEFINE f == [form[s] EXCEPT !.offer = FALSE, !.data = new]
  <1>0. /\ form[s] \in FormState /\ paper[s] \in PaperState /\ flight[s] \in FlightState
        /\ owed[s] \in SUBSET (Entry \X Nat) /\ typed \in Nat /\ form[s].offer
        /\ SheetsSound(form[s], paper[s], flight[s], typed)
    BY AuthorSound DEF RestoreDraft
  <1>1. /\ form[s].at = "open" /\ paper[s].there
        /\ paper[s].version = form[s].version
    BY <1>0 DEF SheetsSound, FormStands
  <1>2. /\ Before(paper[s].data, typed) /\ Before(now, typed) /\ now \in Sheet
        /\ UpToDate(paper[s].data, form[s].version) /\ UpToDate(now, form[s].version)
        /\ form[s].version \in Nat
    BY <1>0, <1>1 DEF SheetsSound, FormState
  <1>3. /\ new \in Sheet /\ Before(new, typed) /\ UpToDate(new, form[s].version)
        /\ paper[s].base = now => \A e \in Entry : new[e] = paper[s].data[e]
    BY <1>0, <1>2, MergedKeeps
  <1>. HIDE DEF new
  <1>4. FormMoves(s, f, paper[s], flight[s], owed[s], typed)
    <2>1. form' = [form EXCEPT ![s] = f]
      BY DEF RestoreDraft, new
    <2>. QED
      BY <2>1, AuthorSound DEF FormMoves, RestoreDraft
  <1>5. /\ f \in FormState /\ f.at = form[s].at /\ f.data = new /\ f.base = form[s].base
        /\ f.version = form[s].version /\ ~f.offer
    <2>1. new \in Sheet /\ form[s] \in FormState
      BY <1>0, <1>3
    <2>. QED
      BY <2>1 DEF FormState
  <1>8. typed <= typed
    BY <1>0
  <1>. HIDE DEF f
  <1>6. SheetsSound(f, paper[s], flight[s], typed)
    BY <1>0, <1>1, <1>3, <1>5 DEF SheetsSound, FormStands
  <1>7. Kept(f, paper[s], flight[s], owed[s])
    <2>1. Kept(form[s], paper[s], flight[s], owed[s])
      BY AuthorSound
    <2>2. BaseIsRead(f, paper[s])
      BY <1>1, <1>5, <2>1 DEF Kept, BaseIsRead
    <2>3. \A o \in owed[s] : new[o[1]] = paper[s].data[o[1]]
      <3>1. paper[s].base = now
        BY <1>1, <2>1 DEF Kept, BaseIsRead
      <3>. QED
        BY <1>0, <1>3, <3>1
    <2>4. OwedIsKept(f, paper[s], flight[s], owed[s])
      BY <1>0, <1>1, <1>5, <2>1, <2>3 DEF Kept, OwedIsKept, OnTheForm
    <2>. QED
      BY <2>2, <2>4 DEF Kept
  <1>. QED
    BY <1>0, <1>4, <1>5, <1>6, <1>7, <1>8, FormMovePreserves

LEMMA DiscardDraftPreserves ==
  ASSUME FormInv, KeptInv, NEW s \in Author, DiscardDraft(s)
  PROVE  FormInv' /\ KeptInv'
  <1>. DEFINE f == [form[s] EXCEPT !.offer = FALSE]
  <1>0. /\ form[s] \in FormState /\ paper[s] \in PaperState /\ flight[s] \in FlightState
        /\ typed \in Nat /\ SheetsSound(form[s], paper[s], flight[s], typed) /\ form[s].offer
        /\ typed <= typed /\ Kept(form[s], paper[s], flight[s], owed[s])
    BY AuthorSound DEF DiscardDraft
  <1>1. FormMoves(s, f, NoPaper, flight[s], Edits(s), typed)
    BY AuthorSound DEF DiscardDraft, FormMoves
  <1>2. /\ f \in FormState /\ f.at = "open" /\ f.data = form[s].data
        /\ f.base = form[s].base /\ f.version = form[s].version /\ ~f.offer
    BY <1>0 DEF FormState, SheetsSound, FormStands
  <1>. HIDE DEF f
  <1>3. SheetsSound(f, NoPaper, flight[s], typed)
    BY <1>0, <1>2, NothingTyped DEF SheetsSound, FormStands
  <1>4. Edits(s) \in SUBSET (Entry \X Nat) /\ Kept(f, NoPaper, flight[s], Edits(s))
    <2>1. OnTheForm(f)
      BY <1>2 DEF OnTheForm
    <2>2. BaseIsRead(f, NoPaper)
      BY <1>0, <1>2, NothingTyped DEF Kept, BaseIsRead, SheetsSound, FormStands
    <2>. QED
      BY <1>2, <2>1, <2>2, EditsOwed DEF Kept
  <1>. QED
    BY <1>0, <1>1, <1>2, <1>3, <1>4, NothingTyped, FormMovePreserves

(* Of another field as before, of this one what was typed now.             *)
OwesField(s, e, v, debt) ==
  \A o \in debt : \/ o \in owed[s] /\ o[1] # e
                  \/ /\ o = <<e, v>> /\ typed < v /\ form[s].at = "open"
                     /\ flight[s].at \in {"none", "deaf"}

(* A field of the form gets a value of its own, or the one that was read.  *)
LEMMA FieldPreserves ==
  ASSUME FormInv, KeptInv, NEW s \in Author, NEW e \in Entry, NEW v \in Nat, NEW n \in Nat,
         form[s].at # "closed", ~form[s].offer,
         typed <= n, v <= n, record.value[e] <= v \/ v = form[s].base[e],
         NEW debt \in SUBSET (Entry \X Nat), OwesField(s, e, v, debt),
         FormMoves(s, [form[s] EXCEPT !.data[e] = v], paper[s], flight[s], debt, n)
  PROVE  FormInv' /\ KeptInv'
  <1>0. /\ form[s] \in FormState /\ paper[s] \in PaperState /\ flight[s] \in FlightState
        /\ owed[s] \in SUBSET (Entry \X Nat) /\ typed \in Nat
        /\ SheetsSound(form[s], paper[s], flight[s], typed) /\ Before(record.value, typed)
        /\ record.value \in Sheet
    BY AuthorSound
  <1>. DEFINE f == [form[s] EXCEPT !.data[e] = v]
  <1>1. /\ f \in FormState /\ f.at = form[s].at /\ f.base = form[s].base
        /\ f.version = form[s].version /\ f.offer = form[s].offer
        /\ f.data[e] = v /\ \A g \in Entry \ {e} : f.data[g] = form[s].data[g]
    BY <1>0 DEF FormState, Sheet
  <1>2. FormMoves(s, f, paper[s], flight[s], debt, n)
    OBVIOUS
  <1>. HIDE DEF f
  <1>3. SheetsSound(f, paper[s], flight[s], n)
    <2>1. ASSUME NEW sheet \in Sheet, Before(sheet, typed) PROVE Before(sheet, n)
      BY <1>0, <2>1 DEF Before, Sheet
    <2>2. /\ form[s].data \in Sheet /\ form[s].base \in Sheet /\ paper[s].data \in Sheet
          /\ paper[s].base \in Sheet /\ flight[s].data \in Sheet /\ f.data \in Sheet
      BY <1>0, <1>1 DEF FormState, PaperState, FlightState
    <2>3. Before(form[s].data, n)
      BY <1>0, <2>1, <2>2 DEF SheetsSound
    <2>4. Before(f.data, n)
      BY <1>1, <2>3 DEF Before
    <2>5. UpToDate(f.data, f.version)
      <3>1. UpToDate(form[s].data, form[s].version)
        BY <1>0 DEF SheetsSound
      <3>2. UpToDate(form[s].base, form[s].version)
        BY <1>0 DEF SheetsSound
      <3>. QED
        BY <1>1, <3>1, <3>2 DEF UpToDate
    <2>. QED
      BY <1>0, <1>1, <2>1, <2>2, <2>4, <2>5 DEF SheetsSound, FormStands
  <1>4. Kept(f, paper[s], flight[s], debt)
    <2>1. Kept(form[s], paper[s], flight[s], owed[s])
      BY AuthorSound
    <2>2. BaseIsRead(f, paper[s])
      BY <1>1, <2>1 DEF Kept, BaseIsRead
    <2>3. ASSUME NEW o \in debt PROVE OwedIsKept(f, paper[s], flight[s], {o})
      <3>1. CASE o \in owed[s] /\ o[1] # e
        <4>1. f.data[o[1]] = form[s].data[o[1]]
          BY <1>0, <1>1, <3>1
        <4>. QED
          BY <1>1, <2>1, <3>1, <4>1 DEF Kept, OwedIsKept, OnTheForm
      <3>2. CASE /\ o = <<e, v>> /\ typed < v /\ form[s].at = "open"
                 /\ flight[s].at \in {"none", "deaf"}
        <4>1. o[1] = e /\ o[2] = v /\ f.data[o[1]] = o[2]
          BY <1>1, <3>2
        <4>2. /\ v # record.value[e] /\ v # form[s].base[e] /\ v # paper[s].base[e]
          BY <1>0, <3>2 DEF Before, SheetsSound, Sheet, FormState, PaperState
        <4>. QED
          BY <1>1, <2>1, <3>2, <4>1, <4>2 DEF Kept, OwedIsKept, OnTheForm
      <3>. QED
        BY <3>1, <3>2 DEF OwesField
    <2>. QED
      BY <2>2, <2>3 DEF Kept, OwedIsKept
  <1>. QED
    BY <1>0, <1>1, <1>2, <1>3, <1>4, FormMovePreserves

LEMMA TypePreserves ==
  ASSUME FormInv, KeptInv, NEW s \in Author, NEW e \in Entry, Type(s, e)
  PROVE  FormInv' /\ KeptInv'
  <1>. DEFINE v == typed + 1
  <1>. DEFINE debt == Forgotten(s, e) \cup
       IF form[s].at = "open" /\ flight[s].at \in {"none", "deaf"} THEN {<<e, v>>} ELSE {}
  <1>1. typed \in Nat /\ owed[s] \in SUBSET (Entry \X Nat) /\ record.value[e] <= typed
        /\ record.value[e] \in Nat
    BY AuthorSound DEF Before, Sheet
  <1>2. v \in Nat /\ typed < v /\ typed <= v /\ v <= v /\ record.value[e] <= v
    BY <1>1
  <1>3. FormMoves(s, [form[s] EXCEPT !.data[e] = v], paper[s], flight[s], debt, v)
    BY AuthorSound DEF Type, FormMoves
  <1>. HIDE DEF v
  <1>4. debt \in SUBSET (Entry \X Nat)
    BY <1>1, <1>2 DEF Forgotten
  <1>5. OwesField(s, e, v, debt)
    BY <1>2 DEF Forgotten, OwesField
  <1>. HIDE DEF debt
  <1>6. form[s].at # "closed" /\ ~form[s].offer
    BY DEF Type
  <1>. QED
    BY <1>2, <1>3, <1>4, <1>5, <1>6, FieldPreserves

LEMMA UndoPreserves ==
  ASSUME FormInv, KeptInv, NEW s \in Author, NEW e \in Entry, Undo(s, e)
  PROVE  FormInv' /\ KeptInv'
  <1>. DEFINE v == form[s].base[e]
  <1>. DEFINE debt == Forgotten(s, e)
  <1>1. /\ typed \in Nat /\ owed[s] \in SUBSET (Entry \X Nat) /\ v \in Nat /\ v <= typed
        /\ typed <= typed
    BY AuthorSound DEF Before, Sheet, FormState, SheetsSound
  <1>2. FormMoves(s, [form[s] EXCEPT !.data[e] = v], paper[s], flight[s], debt, typed)
    BY AuthorSound DEF Undo, FormMoves
  <1>3. debt \in SUBSET (Entry \X Nat) /\ OwesField(s, e, v, debt)
    BY <1>1 DEF Forgotten, OwesField
  <1>4. form[s].at # "closed" /\ ~form[s].offer /\ v = form[s].base[e]
    BY DEF Undo
  <1>. HIDE DEF v, debt
  <1>. QED
    BY <1>1, <1>2, <1>3, <1>4, FieldPreserves

LEMMA SavedIsDraft == \A s \in Author : SavedDraft(s) = Draft(form[s], paper[s])
  BY DEF SavedDraft, Draft

LEMMA AutosavePreserves ==
  ASSUME FormInv, KeptInv, NEW s \in Author, Autosave(s)
  PROVE  FormInv' /\ KeptInv'
  <1>. DEFINE d == Draft(form[s], paper[s])
  <1>1. FormMoves(s, form[s], d, flight[s], owed[s], typed)
    BY AuthorSound, SavedIsDraft DEF Autosave, FormMoves
  <1>2. /\ form[s] \in FormState /\ paper[s] \in PaperState /\ flight[s] \in FlightState
        /\ owed[s] \in SUBSET (Entry \X Nat) /\ typed \in Nat /\ typed <= typed
        /\ SheetsSound(form[s], paper[s], flight[s], typed)
        /\ Kept(form[s], paper[s], flight[s], owed[s])
    BY AuthorSound
  <1>3. /\ d \in PaperState /\ SheetsSound(form[s], d, flight[s], typed)
        /\ Kept(form[s], d, flight[s], owed[s])
    BY <1>2, DraftKeeps
  <1>. HIDE DEF d
  <1>. QED
    BY <1>1, <1>2, <1>3, FormMovePreserves

LEMMA LeavePreserves ==
  ASSUME FormInv, KeptInv, NEW s \in Author, Leave(s)
  PROVE  FormInv' /\ KeptInv'
  <1>. DEFINE d == Draft(form[s], paper[s])
  <1>1. PICK m : /\ m = [flight[s] EXCEPT !.ours = FALSE] \/ m = Unheard(flight[s])
                 /\ flight' = [flight EXCEPT ![s] = m]
    BY DEF Leave
  <1>2. /\ form[s] \in FormState /\ paper[s] \in PaperState /\ flight[s] \in FlightState
        /\ owed[s] \in SUBSET (Entry \X Nat) /\ typed \in Nat /\ typed <= typed
        /\ SheetsSound(form[s], paper[s], flight[s], typed)
        /\ Kept(form[s], paper[s], flight[s], owed[s])
    BY AuthorSound
  <1>3. FormMoves(s, NoForm, d, m, owed[s], typed)
    BY <1>1, AuthorSound, SavedIsDraft DEF Leave, FormMoves
  <1>4. /\ d \in PaperState /\ SheetsSound(form[s], d, flight[s], typed)
        /\ Kept(form[s], d, flight[s], owed[s])
    BY <1>2, DraftKeeps
  <1>5. ASSUME NEW o \in owed[s] PROVE d.there /\ d.data[o[1]] = o[2]
    <2>1. Kept(form[s], paper[s], flight[s], owed[s])
      BY <1>2
    <2>2. CASE ~OnTheForm(form[s])
      <3>1. d = paper[s]
        BY <1>2, <2>2 DEF Draft, OnTheForm, FormState
      <3>. QED
        BY <2>1, <2>2, <3>1 DEF Kept, OwedIsKept
    <2>3. CASE OnTheForm(form[s])
      <3>1. form[s].data[o[1]] = o[2] /\ form[s].base[o[1]] # o[2]
        BY <2>1, <2>3 DEF Kept, OwedIsKept, OnTheForm
      <3>2. d = [there |-> TRUE, data |-> form[s].data, base |-> form[s].base,
                 version |-> form[s].version]
        BY <2>3, <3>1 DEF Draft, OnTheForm
      <3>. QED
        BY <3>1, <3>2
    <2>. QED
      BY <2>2, <2>3
  <1>. HIDE DEF d
  <1>6. /\ SheetsSound(NoForm, d, m, typed) /\ m \in FlightState
        /\ Kept(NoForm, d, m, owed[s])
    BY <1>1, <1>2, <1>4, <1>5, FormGoes
  <1>. QED
    BY <1>2, <1>3, <1>4, <1>6, NothingTyped, FormMovePreserves

LEMMA LeaveDiscardingPreserves ==
  ASSUME FormInv, KeptInv, NEW s \in Author, LeaveDiscarding(s)
  PROVE  FormInv' /\ KeptInv'
  <1>1. /\ form[s] \in FormState /\ paper[s] \in PaperState /\ flight[s] \in FlightState
        /\ typed \in Nat /\ typed <= typed /\ form[s].at = "open"
        /\ SheetsSound(form[s], paper[s], flight[s], typed)
        /\ {} \in SUBSET (Entry \X Nat)
    BY AuthorSound DEF LeaveDiscarding
  <1>2. FormMoves(s, NoForm, NoPaper, flight[s], {}, typed)
    BY AuthorSound DEF LeaveDiscarding, FormMoves
  <1>3. SheetsSound(NoForm, NoPaper, flight[s], typed)
    BY <1>1, NothingTyped DEF SheetsSound, FormStands
  <1>4. Kept(NoForm, NoPaper, flight[s], {})
    BY NothingTyped DEF Kept, BaseIsRead, OwedIsKept
  <1>. QED
    BY <1>1, <1>2, <1>3, <1>4, NothingTyped, FormMovePreserves

LEMMA KilledPreserves ==
  ASSUME FormInv, KeptInv, NEW s \in Author, Killed(s)
  PROVE  FormInv' /\ KeptInv'
  <1>. DEFINE debt == {o \in owed[s] : paper[s].there /\ paper[s].data[o[1]] = o[2]}
  <1>. DEFINE m == Unheard(flight[s])
  <1>1. /\ form[s] \in FormState /\ paper[s] \in PaperState /\ flight[s] \in FlightState
        /\ debt \in SUBSET (Entry \X Nat) /\ typed \in Nat /\ typed <= typed
        /\ SheetsSound(form[s], paper[s], flight[s], typed)
        /\ Kept(form[s], paper[s], flight[s], owed[s])
    BY AuthorSound
  <1>2. FormMoves(s, NoForm, paper[s], m, debt, typed)
    BY AuthorSound DEF Killed, FormMoves
  <1>3. Kept(form[s], paper[s], flight[s], debt)
    BY <1>1 DEF Kept, OwedIsKept
  <1>4. \A o \in debt : paper[s].there /\ paper[s].data[o[1]] = o[2]
    OBVIOUS
  <1>5. m = [flight[s] EXCEPT !.ours = FALSE] \/ m = Unheard(flight[s])
    OBVIOUS
  <1>. HIDE DEF debt, m
  <1>6. /\ SheetsSound(NoForm, paper[s], m, typed) /\ m \in FlightState
        /\ Kept(NoForm, paper[s], m, debt)
    BY <1>1, <1>3, <1>4, <1>5, FormGoes
  <1>. QED
    BY <1>1, <1>2, <1>6, NothingTyped, FormMovePreserves

LEMMA SubmitPreserves ==
  ASSUME FormInv, KeptInv, NEW s \in Author, Submit(s)
  PROVE  FormInv' /\ KeptInv'
  <1>. DEFINE f == [form[s] EXCEPT !.at = "saving"]
  <1>. DEFINE w == [at |-> "sent", data |-> form[s].data, version |-> form[s].version,
                    ours |-> TRUE]
  <1>1. /\ form[s] \in FormState /\ paper[s] \in PaperState /\ flight[s] \in FlightState
        /\ owed[s] \in SUBSET (Entry \X Nat) /\ typed \in Nat /\ typed <= typed
        /\ SheetsSound(form[s], paper[s], flight[s], typed)
        /\ Kept(form[s], paper[s], flight[s], owed[s])
        /\ form[s].at = "open" /\ ~form[s].offer
    BY AuthorSound DEF Submit
  <1>2. FormMoves(s, f, paper[s], w, owed[s], typed)
    BY AuthorSound DEF Submit, FormMoves
  <1>3. /\ f \in FormState /\ f.at = "saving" /\ f.data = form[s].data /\ f.base = form[s].base
        /\ f.version = form[s].version /\ ~f.offer
    BY <1>1 DEF FormState
  <1>4. /\ w \in FlightState /\ w.at = "sent" /\ w.data = form[s].data
        /\ w.version = form[s].version /\ w.ours
    BY <1>1 DEF FormState, FlightState
  <1>. HIDE DEF f, w
  <1>5. SheetsSound(f, paper[s], w, typed)
    BY <1>1, <1>3, <1>4 DEF SheetsSound, FormStands
  <1>6. Kept(f, paper[s], w, owed[s])
    BY <1>1, <1>3, <1>4 DEF Kept, BaseIsRead, OwedIsKept, OnTheForm
  <1>. QED
    BY <1>1, <1>2, <1>3, <1>4, <1>5, <1>6, FormMovePreserves

(* The save ends, in one way or another.                                   *)
Answer(w, how) ==
  IF w.at = "deaf" THEN NoFlight ELSE [NoFlight EXCEPT !.at = how, !.ours = w.ours]

LEMMA AnsweredSound ==
  ASSUME NEW w \in FlightState, w.at \in {"sent", "deaf"},
         NEW how \in {"ok", "failed", "conflict"}, NEW m, m = Answer(w, how)
  PROVE  /\ m \in FlightState /\ m.at \in {"none", how} /\ m.data = Original
         /\ m.ours => w.ours
         /\ m.at = "ok" => w.at = "sent"
  <1>1. CASE w.at = "deaf"
    BY <1>1, NothingTyped DEF Answer
  <1>2. CASE w.at # "deaf"
    BY <1>2, NothingTyped DEF FlightState, NoFlight, Answer
  <1>. QED
    BY <1>1, <1>2

LEMMA AnsweredPreserves ==
  ASSUME FormInv, KeptInv, NEW s \in Author, NEW how \in {"failed", "conflict"},
         flight[s].at \in {"sent", "deaf"}, Answered(s, how),
         UNCHANGED <<record, form, paper, typed, owed>>
  PROVE  FormInv' /\ KeptInv'
  <1>. DEFINE m == Answer(flight[s], how)
  <1>1. /\ form[s] \in FormState /\ paper[s] \in PaperState /\ flight[s] \in FlightState
        /\ owed[s] \in SUBSET (Entry \X Nat) /\ typed \in Nat /\ typed <= typed
        /\ SheetsSound(form[s], paper[s], flight[s], typed)
        /\ Kept(form[s], paper[s], flight[s], owed[s])
        /\ m = Answer(flight[s], how) /\ how \in {"ok", "failed", "conflict"}
    BY AuthorSound
  <1>2. FormMoves(s, form[s], paper[s], m, owed[s], typed)
    BY AuthorSound DEF Answered, Answer, FormMoves
  <1>3. /\ m \in FlightState /\ m.at \in {"none", how} /\ m.data = Original
        /\ m.ours => flight[s].ours
    BY <1>1, AnsweredSound
  <1>. HIDE DEF m
  <1>4. SheetsSound(form[s], paper[s], m, typed)
    BY <1>1, <1>3, NothingTyped DEF SheetsSound, FormStands
  <1>5. Kept(form[s], paper[s], m, owed[s])
    BY <1>1, <1>3 DEF Kept, OwedIsKept
  <1>. QED
    BY <1>1, <1>2, <1>3, <1>4, <1>5, FormMovePreserves

LEMMA ReplySavedPreserves ==
  ASSUME FormInv, KeptInv, NEW s \in Author, ReplySaved(s)
  PROVE  FormInv' /\ KeptInv'
  <1>1. /\ form[s] \in FormState /\ paper[s] \in PaperState /\ flight[s] \in FlightState
        /\ owed[s] \in SUBSET (Entry \X Nat) /\ typed \in Nat /\ typed <= typed
        /\ SheetsSound(form[s], paper[s], flight[s], typed)
        /\ Kept(form[s], paper[s], flight[s], owed[s])
        /\ flight[s].at = "ok"
    BY AuthorSound DEF ReplySaved
  <1>2. PICK p : p \in {NoPaper, Draft(form[s], paper[s])} /\ paper' = [paper EXCEPT ![s] = p]
    BY SavedIsDraft DEF ReplySaved
  <1>3. FormMoves(s, NoForm, p, NoFlight, owed[s], typed)
    BY <1>2, AuthorSound DEF ReplySaved, FormMoves
  <1>4. /\ p \in PaperState /\ SheetsSound(NoForm, p, NoFlight, typed)
        /\ Kept(NoForm, p, NoFlight, owed[s])
    <2>1. \A o \in owed[s] : FALSE
      BY <1>1 DEF Kept, OwedIsKept
    <2>2. CASE p = NoPaper
      BY <2>1, <2>2, <1>1, NothingTyped
      DEF SheetsSound, FormStands, Kept, BaseIsRead, OwedIsKept
    <2>3. CASE p = Draft(form[s], paper[s])
      <3>1. /\ p \in PaperState /\ SheetsSound(form[s], p, flight[s], typed)
            /\ Kept(form[s], p, flight[s], owed[s])
        BY <1>1, <2>3, DraftKeeps
      <3>2. SheetsSound(NoForm, p, NoFlight, typed)
        BY <1>1, <3>1, NothingTyped DEF SheetsSound, FormStands
      <3>3. Kept(NoForm, p, NoFlight, owed[s])
        BY <2>1, <3>1, NothingTyped DEF Kept, BaseIsRead, OwedIsKept
      <3>. QED
        BY <3>1, <3>2, <3>3
    <2>. QED
      BY <1>2, <2>2, <2>3
  <1>. QED
    BY <1>1, <1>3, <1>4, NothingTyped, FormMovePreserves

LEMMA ReplyRefusedPreserves ==
  ASSUME FormInv, KeptInv, NEW s \in Author, ReplyRefused(s)
  PROVE  FormInv' /\ KeptInv'
  <1>. DEFINE f == IF flight[s].ours THEN [form[s] EXCEPT !.at = "open"] ELSE form[s]
  <1>1. /\ form[s] \in FormState /\ paper[s] \in PaperState /\ flight[s] \in FlightState
        /\ owed[s] \in SUBSET (Entry \X Nat) /\ typed \in Nat /\ typed <= typed
        /\ SheetsSound(form[s], paper[s], flight[s], typed)
        /\ Kept(form[s], paper[s], flight[s], owed[s])
        /\ flight[s].at \in {"conflict", "failed"}
    BY AuthorSound DEF ReplyRefused
  <1>2. FormMoves(s, f, paper[s], NoFlight, owed[s], typed)
    BY AuthorSound DEF ReplyRefused, FormMoves
  <1>3. CASE flight[s].ours
    <2>1. form[s].at = "saving" /\ ~form[s].offer
      BY <1>1, <1>3 DEF SheetsSound, FormStands
    <2>2. /\ f \in FormState /\ f.at = "open" /\ f.data = form[s].data /\ f.base = form[s].base
          /\ f.version = form[s].version /\ ~f.offer
      BY <1>1, <1>3, <2>1 DEF FormState
    <2>. HIDE DEF f
    <2>3. SheetsSound(f, paper[s], NoFlight, typed)
      BY <1>1, <2>1, <2>2, NothingTyped DEF SheetsSound, FormStands
    <2>4. Kept(f, paper[s], NoFlight, owed[s])
      BY <1>1, <2>1, <2>2, NothingTyped DEF Kept, BaseIsRead, OwedIsKept, OnTheForm
    <2>. QED
      BY <1>1, <1>2, <2>2, <2>3, <2>4, NothingTyped, FormMovePreserves
  <1>4. CASE ~flight[s].ours
    <2>1. f = form[s]
      BY <1>4
    <2>. HIDE DEF f
    <2>2. SheetsSound(f, paper[s], NoFlight, typed)
      BY <1>1, <2>1, NothingTyped DEF SheetsSound, FormStands
    <2>3. Kept(f, paper[s], NoFlight, owed[s])
      BY <1>1, <2>1, NothingTyped DEF Kept, OwedIsKept
    <2>. QED
      BY <1>1, <1>2, <2>1, <2>2, <2>3, NothingTyped, FormMovePreserves
  <1>. QED
    BY <1>3, <1>4

-----------------------------------------------------------------------------

(* The save of one author becomes the property, and everybody's version    *)
(* an old one.                                                             *)
LEMMA AcceptedGoesOn ==
  ASSUME FormInv, NEW s \in Author, Accepted(s), flight[s].at \in {"sent", "deaf"}
  PROVE  \A e \in Entry : record.value[e] <= flight[s].data[e]
  BY DEF FormInv, Accepted, SheetsSound, UpToDate

LEMMA SavePreserves ==
  ASSUME FormInv, KeptInv, NEW s \in Author, flight[s].at \in {"sent", "deaf"},
         record' = [value |-> flight[s].data, version |-> record.version + 1],
         owed' = [a \in Author |-> {o \in owed[a] : flight[s].data[o[1]] # o[2]}],
         NEW how \in {"ok", "failed"}, Answered(s, how), UNCHANGED <<form, paper, typed>>
  PROVE  FormInv' /\ KeptInv'
  <1>. DEFINE w == flight[s]
  <1>. DEFINE m == Answer(w, how)
  <1>1. /\ w \in FlightState /\ w.data \in Sheet /\ Before(w.data, typed)
        /\ record.version \in Nat
        /\ m = Answer(w, how) /\ how \in {"ok", "failed", "conflict"}
    BY AuthorSound DEF SheetsSound, FlightState
  <1>2. /\ m \in FlightState /\ m.at \in {"none", how} /\ m.data = Original
        /\ m.ours => w.ours
        /\ m.at = "ok" => w.at = "sent"
    BY <1>1, AnsweredSound
  <1>3. flight' = [flight EXCEPT ![s] = m]
    BY DEF Answered, Answer
  <1>4. record'.value = w.data /\ record'.version = record.version + 1
    OBVIOUS
  <1>. HIDE DEF m
  <1>5. FormTypeOK'
    <2>1. record' \in [value : Sheet, version : Nat]
      BY <1>1
    <2>2. owed' \in [Author -> SUBSET (Entry \X Nat)]
      BY DEF FormInv, FormTypeOK
    <2>. QED
      BY <1>2, <1>3, <2>1, <2>2 DEF FormInv, FormTypeOK
  <1>6. Before(record.value, typed)'
    BY <1>1, <1>4 DEF Before
  <1>7. ASSUME NEW a \in Author
        PROVE  /\ SheetsSound(form[a], paper[a], flight[a], typed)'
               /\ Kept(form[a], paper[a], flight[a], owed[a])'
    <2>1. /\ form[a] \in FormState /\ paper[a] \in PaperState /\ flight[a] \in FlightState
          /\ SheetsSound(form[a], paper[a], flight[a], typed) /\ typed \in Nat
          /\ Kept(form[a], paper[a], flight[a], owed[a])
      BY AuthorSound
    <2>2. PICK x \in FlightState :
            /\ flight'[a] = x
            /\ \/ x = flight[a] /\ a # s
               \/ a = s /\ x = m
      BY <1>1, <1>2, <1>3 DEF FormInv, FormTypeOK
    <2>3. /\ x.at = flight[a].at \/ (a = s /\ x.at \in {"none", how})
          /\ x.data = flight[a].data \/ x.data = Original
          /\ x.at \in {"sent", "deaf"} => x = flight[a]
          /\ x.ours => flight[a].ours
      BY <1>2, <2>2
    <2>4. ASSUME NEW sheet, NEW v \in Nat, UpToDate(sheet, v)
          PROVE  v <= record'.version /\ v # record'.version
      BY <1>1, <1>4, <2>4 DEF UpToDate
    <2>5. SheetsSound(form[a], paper[a], flight[a], typed)'
      <3>1. /\ form[a].version \in Nat /\ paper[a].version \in Nat /\ flight[a].version \in Nat
        BY <2>1 DEF FormState, PaperState, FlightState
      <3>2. /\ Before(form[a].data, typed) /\ Before(form[a].base, typed)
            /\ Before(paper[a].data, typed) /\ Before(paper[a].base, typed)
            /\ Before(x.data, typed)
        BY <2>1, <2>3, NothingTyped DEF SheetsSound
      <3>3. FormStands(form[a], paper[a], x)
        BY <2>1, <2>3 DEF SheetsSound, FormStands
      <3>4. /\ form[a].at # "closed" =>
                 form[a].version <= record'.version /\ form[a].version # record'.version
            /\ paper[a].there =>
                 paper[a].version <= record'.version /\ paper[a].version # record'.version
            /\ x.at \in {"sent", "deaf"} =>
                 x.version <= record'.version /\ x.version # record'.version
        BY <2>1, <2>3, <2>4, <3>1 DEF SheetsSound
      <3>. QED
        BY <2>2, <3>2, <3>3, <3>4 DEF SheetsSound, Before, UpToDate, FormStands
    <2>6. Kept(form[a], paper[a], flight[a], owed[a])'
      <3>1. Kept(form[a], paper[a], flight[a], owed[a])
        BY <2>1
      <3>2. /\ form[a].at # "closed" => form[a].version # record'.version
            /\ paper[a].there => paper[a].version # record'.version
        <4>1. form[a].version \in Nat /\ paper[a].version \in Nat
          BY <2>1 DEF FormState, PaperState
        <4>. QED
          BY <2>1, <2>4, <4>1 DEF SheetsSound
      <3>3. BaseIsRead(form[a], paper[a])'
        BY <3>1, <3>2 DEF Kept, BaseIsRead
      <3>4. ASSUME NEW o \in owed'[a] PROVE
              /\ o \in owed[a] /\ o[2] # record'.value[o[1]]
              /\ x.at # "ok" /\ (x.at = "sent" => x.data[o[1]] = o[2])
        <4>1. o \in owed[a] /\ w.data[o[1]] # o[2]
          OBVIOUS
        <4>2. flight[a].at # "ok" /\ (flight[a].at = "sent" => flight[a].data[o[1]] = o[2])
          BY <3>1, <4>1 DEF Kept, OwedIsKept
        <4>. QED
          BY <1>2, <1>4, <2>2, <4>1, <4>2
      <3>5. OwedIsKept(form[a], paper[a], flight[a], owed[a])'
        BY <2>2, <3>1, <3>4 DEF Kept, OwedIsKept, OnTheForm
      <3>. QED
        BY <3>3, <3>5 DEF Kept
    <2>. QED
      BY <2>5, <2>6
  <1>. QED
    BY <1>5, <1>6, <1>7 DEF FormInv, KeptInv

LEMMA ArrivePreserves ==
  ASSUME FormInv, KeptInv, NEW s \in Author, Arrive(s)
  PROVE  FormInv' /\ KeptInv'
  <1>1. flight[s].at \in {"sent", "deaf"} /\ UNCHANGED <<form, paper, typed>>
    BY DEF Arrive
  <1>2. CASE Accepted(s)
    BY <1>1, <1>2, SavePreserves DEF Arrive
  <1>3. CASE ~Accepted(s)
    BY <1>1, <1>3, AnsweredPreserves DEF Arrive
  <1>. QED
    BY <1>2, <1>3

-----------------------------------------------------------------------------

LEMMA FormInitHolds == FormInit => FormInv /\ KeptInv
  <1>. SUFFICES ASSUME FormInit PROVE FormInv /\ KeptInv
    OBVIOUS
  <1>1. FormTypeOK
    BY NothingTyped DEF FormInit, FormTypeOK
  <1>2. Before(record.value, typed)
    BY NothingTyped DEF FormInit
  <1>3. ASSUME NEW s \in Author PROVE SheetsSound(form[s], paper[s], flight[s], typed)
    BY NothingTyped DEF FormInit, SheetsSound, FormStands
  <1>4. ASSUME NEW s \in Author PROVE Kept(form[s], paper[s], flight[s], owed[s])
    BY NothingTyped DEF FormInit, Kept, BaseIsRead, OwedIsKept
  <1>. QED
    BY <1>1, <1>2, <1>3, <1>4 DEF FormInv, KeptInv

LEMMA FormStep == FormInv /\ KeptInv /\ [FormNext]_formVars => (FormInv /\ KeptInv)'
  <1>. SUFFICES ASSUME FormInv, KeptInv, FormNext \/ UNCHANGED formVars
                PROVE  FormInv' /\ KeptInv'
    OBVIOUS
  <1>1. CASE UNCHANGED formVars
    BY <1>1 DEF formVars, FormInv, KeptInv, FormTypeOK, SheetsSound, FormStands, Before, UpToDate,
                Kept, BaseIsRead, OwedIsKept, OnTheForm
  <1>2. ASSUME NEW s \in Author, GetLost(s) PROVE FormInv' /\ KeptInv'
    BY <1>2, AnsweredPreserves DEF GetLost
  <1>. QED
    BY <1>1, <1>2, OpenFormPreserves, SettlePreserves, RestoreDraftPreserves,
       DiscardDraftPreserves, AutosavePreserves, TypePreserves, UndoPreserves, LeavePreserves,
       LeaveDiscardingPreserves, KilledPreserves, SubmitPreserves, ArrivePreserves,
       ReplySavedPreserves, ReplyRefusedPreserves DEF FormNext

LEMMA FormInvariant == FormSpec => [](FormInv /\ KeptInv)
  BY FormInitHolds, FormStep, PTL DEF FormSpec

(* Whatever is typed, left, killed, discarded by others' saves or answered *)
(* late (saveDraft, reviewDraft, submit): what was typed and on the form    *)
(* when it had settled, or later, is on the form, in the draft, or was     *)
(* saved, until its author undoes it or gives it up.                       *)
THEOREM DraftsLoseNothing == FormSpec => []NothingTypedIsLost
  <1>1. FormInv /\ KeptInv => NothingTypedIsLost
    <2>. SUFFICES ASSUME KeptInv, NEW s \in Author, NEW o \in owed[s]
                  PROVE  \/ (form[s].at # "closed" /\ form[s].data[o[1]] = o[2])
                         \/ (paper[s].there /\ paper[s].data[o[1]] = o[2])
      BY DEF NothingTypedIsLost
    <2>1. Kept(form[s], paper[s], flight[s], owed[s])
      BY DEF KeptInv
    <2>. QED
      BY <2>1 DEF Kept, OwedIsKept, OnTheForm
  <1>. QED
    BY <1>1, FormInvariant, PTL

(* Whatever drafts, conflicts and saves whose reply was lost: a save never *)
(* brings back what was typed before the value a field has (update's check *)
(* of the version).                                                        *)
THEOREM SavesGoOn == FormSpec => NoSaveGoesBack
  <1>1. FormInv /\ [FormNext]_formVars
          => [\A f \in Entry : record'.value[f] >= record.value[f]]_formVars
    <2>. SUFFICES ASSUME FormInv, FormNext, NEW e \in Entry
                  PROVE  record'.value[e] >= record.value[e]
      OBVIOUS
    <2>0. record.value[e] \in Nat
      BY DEF FormInv, FormTypeOK, Sheet
    <2>1. CASE record' = record
      BY <2>0, <2>1
    <2>2. ASSUME NEW s \in Author, Arrive(s), Accepted(s) PROVE record'.value[e] >= record.value[e]
      <3>1. record'.value[e] = flight[s].data[e] /\ flight[s].at \in {"sent", "deaf"}
        BY <2>2 DEF Arrive
      <3>2. record.value[e] <= flight[s].data[e] /\ flight[s].data[e] \in Nat
        BY <2>2, <3>1, AcceptedGoesOn DEF FormInv, FormTypeOK, FlightState, Sheet
      <3>. QED
        BY <2>0, <3>1, <3>2
    <2>3. record' = record \/ \E s \in Author : Arrive(s) /\ Accepted(s)
      BY DEF FormNext, OpenForm, Settle, RestoreDraft, DiscardDraft, Autosave, Type, Undo, Leave,
             LeaveDiscarding, Killed, Submit, Arrive, GetLost, ReplySaved, ReplyRefused
    <2>. QED
      BY <2>1, <2>2, <2>3
  <1>. QED
    BY <1>1, FormInitHolds, FormStep, PTL DEF FormSpec, NoSaveGoesBack

-----------------------------------------------------------------------------

(* A job has its keeper's position, or none, unless it is misplaced; the   *)
(* jobs of a list are of one keeper.                                       *)
Job == [id : Submission, ready : BOOLEAN, fix : Person \cup {Unknown}]

WellJob(k, m) == {j \in Job : j.id \in m \/ j.fix \in {Unknown, k[j.id]}}

JobOf(k, m, p) == {j \in WellJob(k, m) : k[j.id] = p}

Going(S) == [todo : Seq(S), stale : BOOLEAN]

Capture == [active : BOOLEAN, asking : BOOLEAN, fix : Person \cup {Unknown}]

QueueTypeOK ==
  /\ who \in Person
  /\ scope \in Person \cup {Unknown}
  /\ capture \in [Submission -> Capture]
  /\ strays \in SUBSET (Submission \X Person)
  /\ author \in [Submission -> Person \cup {Unknown}]
  /\ keeper \in [Submission -> Person \cup {Unknown}]
  /\ post \subseteq Submission
  /\ \A c \in post : keeper[c] = Unknown /\ author[c] # Unknown
  /\ \A c \in Submission : keeper[c] # Unknown => author[c] # Unknown

(* The list of jobs has all that is stored for its account, but what is    *)
(* located; before there is an account, there is none.                     *)
ListsStand ==
  /\ jobs \in Seq(JobOf(keeper, Misplaced, scope))
  /\ flush \in Going(WellJob(keeper, Misplaced))
  /\ DOMAIN stored = Person
  /\ \A p \in Person : stored[p] \in Seq(JobOf(keeper, Misplaced, p))
  /\ scope = Unknown => flush = NoFlush /\ jobs = <<>> /\ strays = {}
  /\ scope # Unknown => Ids(stored[scope]) \ located \subseteq Ids(jobs)

(* Whose a submission is: its author's, until it is in a list.             *)
Bearer == [c \in Submission |-> IF keeper[c] = Unknown THEN author[c] ELSE keeper[c]]

(* A capture that has begun is of the account it began under; nothing is   *)
(* asked of one that starts again.                                         *)
Begun(cap) == cap.active \/ cap.asking \/ cap.fix # Unknown

CaptureFits(c, cs, ss, o, m, s) ==
  /\ Begun(cs[c]) => o[c] \in {Unknown, s}
  /\ cs[c].fix \in {Unknown, s}
  /\ \A p \in Person : <<c, p>> \in ss => ~cs[c].active /\ (c \in m \/ o[c] \in {Unknown, p})

CaptureSound(c) ==
  /\ Begun(capture[c]) => scope # Unknown
  /\ capture[c].active => scope = who
  /\ CaptureFits(c, capture, strays, Bearer, Misplaced, scope)

CapturesSound == \A c \in Submission : CaptureSound(c)

QueueInv == QueueTypeOK /\ ListsStand /\ CapturesSound /\ NothingForgotten

-----------------------------------------------------------------------------

(* Lists with one element changed, or removed, are still lists.            *)
LEMMA MappedList ==
  ASSUME NEW S, NEW T, NEW list \in Seq(S), NEW f \in [DOMAIN list -> T]
  PROVE  f \in Seq(T) /\ DOMAIN f = DOMAIN list
  <1>1. Len(list) \in Nat /\ DOMAIN list = 1 .. Len(list)
    BY LenProperties
  <1>. QED
    BY <1>1

LEMMA ListOfMore ==
  ASSUME NEW S, NEW T, S \subseteq T, NEW list \in Seq(S)
  PROVE  list \in Seq(T)
  <1>1. Len(list) \in Nat /\ DOMAIN list = 1 .. Len(list) /\ list \in [1 .. Len(list) -> S]
    OBVIOUS
  <1>2. list \in [DOMAIN list -> T]
    BY <1>1
  <1>. QED
    BY <1>2, MappedList

LEMMA RemoveAtKeeps ==
  ASSUME NEW S, NEW list \in Seq(S), NEW k \in DOMAIN list
  PROVE /\ RemoveAt(list, k) \in Seq(S)
        /\ \A i \in DOMAIN RemoveAt(list, k) : \E j \in DOMAIN list : RemoveAt(list, k)[i] = list[j]
        /\ \A j \in DOMAIN list \ {k} :
             \E i \in DOMAIN RemoveAt(list, k) : RemoveAt(list, k)[i] = list[j]
  <1>. DEFINE before == SubSeq(list, 1, k-1)
  <1>. DEFINE after == SubSeq(list, k+1, Len(list))
  <1>1. /\ Len(list) \in Nat /\ DOMAIN list = 1..Len(list) /\ k \in 1..Len(list)
        /\ \A i \in 1..Len(list) : list[i] \in S
    BY LenProperties, ElementOfSeq
  <1>2. \A i \in 1..k-1 : list[i] \in S
    BY <1>1
  <1>3. \A i \in k+1..Len(list) : list[i] \in S
    BY <1>1
  <1>4. /\ before \in Seq(S) /\ Len(before) = k - 1
        /\ \A i \in 1..k-1 : before[i] = list[i]
    <2>1. 1 \in Int /\ k - 1 \in Int /\ k \in Int
      BY <1>1
    <2>2. /\ before \in Seq(S) /\ Len(before) = (IF 1 <= k-1 THEN (k-1)-1+1 ELSE 0)
        /\ \A i \in 1..((k-1)-1+1) : before[i] = list[1+i-1]
      BY <1>2, <2>1, SubSeqProperties
    <2>. HIDE DEF before
    <2>. QED
      BY <1>1, <2>2
  <1>5. /\ after \in Seq(S) /\ Len(after) = Len(list) - k
        /\ \A i \in 1..(Len(list) - k) : after[i] = list[k + i]
    <2>1. k + 1 \in Int /\ Len(list) \in Int
      BY <1>1
    <2>2. /\ after \in Seq(S) /\ Len(after) = (IF k+1 <= Len(list) THEN Len(list)-(k+1)+1 ELSE 0)
        /\ \A i \in 1..(Len(list)-(k+1)+1) : after[i] = list[(k+1)+i-1]
      BY <1>3, <2>1, SubSeqProperties
    <2>. HIDE DEF after
    <2>3. Len(after) = Len(list) - k
      BY <1>1, <2>2
    <2>4. ASSUME NEW i \in 1..(Len(list) - k) PROVE after[i] = list[k + i]
      <3>1. i \in 1..(Len(list)-(k+1)+1) /\ (k+1)+i-1 = k + i
        BY <1>1
      <3>. QED
        BY <2>2, <3>1
    <2>. QED
      BY <2>2, <2>3, <2>4
  <1>. DEFINE r == RemoveAt(list, k)
  <1>6. /\ r \in Seq(S) /\ Len(r) = Len(before) + Len(after)
        /\ \A i \in 1..Len(before)+Len(after) :
             r[i] = IF i <= Len(before) THEN before[i] ELSE after[i - Len(before)]
    BY <1>4, <1>5, ConcatProperties DEF RemoveAt
  <1>. HIDE DEF before, after, r
  <1>7. DOMAIN r = 1..Len(r)
    BY <1>6, LenProperties
  <1>8. ASSUME NEW i \in DOMAIN r PROVE \E j \in DOMAIN list : r[i] = list[j]
    <2>1. i \in 1..(Len(list) - 1)
      BY <1>1, <1>4, <1>5, <1>6, <1>7
    <2>2. CASE i < k
      BY <1>1, <1>4, <1>5, <1>6, <2>1, <2>2
    <2>3. CASE i >= k
      <3>1. r[i] = after[i - (k-1)] /\ i - (k-1) \in 1..(Len(list) - k)
        BY <1>1, <1>4, <1>5, <1>6, <2>1, <2>3
      <3>2. r[i] = list[k + (i - (k-1))]
        BY <1>5, <3>1
      <3>3. k + (i - (k-1)) \in DOMAIN list
        BY <1>1, <2>1, <2>3
      <3>. QED
        BY <3>2, <3>3
    <2>. QED
      BY <1>1, <2>1, <2>2, <2>3
  <1>9. ASSUME NEW j \in DOMAIN list \ {k} PROVE \E i \in DOMAIN r : r[i] = list[j]
    <2>1. CASE j < k
      <3>1. j \in 1..k-1 /\ j \in 1..Len(before)+Len(after) /\ j <= Len(before)
        BY <1>1, <1>4, <1>5, <2>1
      <3>2. j \in DOMAIN r /\ r[j] = list[j]
        BY <1>4, <1>6, <1>7, <3>1
      <3>. QED
        BY <3>2
    <2>2. CASE j > k
      <3>1. j - 1 \in DOMAIN r /\ j - k \in 1..(Len(list) - k)
        BY <1>1, <1>4, <1>5, <1>6, <1>7, <2>2
      <3>4. j - 1 \in 1..Len(before)+Len(after) /\ ~(j - 1 <= Len(before)) /\ Len(before) = k - 1
        BY <1>1, <1>4, <1>5, <1>6, <1>7, <2>2, <3>1
      <3>2. r[j - 1] = after[(j - 1) - (k - 1)]
        BY <1>6, <3>4
      <3>3. (j-1) - (k-1) = j - k /\ k + (j - k) = j
        BY <1>1
      <3>. QED
        BY <1>5, <3>1, <3>2, <3>3
    <2>. QED
      BY <1>1, <2>1, <2>2
  <1>. QED
    BY <1>6, <1>8, <1>9 DEF r

LEMMA JobIsThere ==
  ASSUME NEW list, NEW c \in Ids(list)
  PROVE  JobAt(list, c) \in DOMAIN list /\ list[JobAt(list, c)].id = c
  <1>1. PICK i \in DOMAIN list : list[i].id = c
    BY DEF Ids
  <1>. QED
    BY <1>1 DEF JobAt

LEMMA WithoutKeeps ==
  ASSUME NEW S, NEW list \in Seq(S), NEW c
  PROVE  /\ Without(list, c) \in Seq(S)
         /\ Ids(Without(list, c)) \subseteq Ids(list)
         /\ Ids(list) \ {c} \subseteq Ids(Without(list, c))
  <1>1. CASE c \notin Ids(list)
    BY <1>1 DEF Without
  <1>2. CASE c \in Ids(list)
    <2>. DEFINE k == JobAt(list, c)
    <2>1. k \in DOMAIN list /\ list[k].id = c
      BY <1>2, JobIsThere
    <2>2. Without(list, c) = RemoveAt(list, k)
      BY <1>2 DEF Without
    <2>. HIDE DEF k
    <2>3. /\ Without(list, c) \in Seq(S)
          /\ \A i \in DOMAIN Without(list, c) :
               \E j \in DOMAIN list : Without(list, c)[i] = list[j]
          /\ \A j \in DOMAIN list \ {k} :
               \E i \in DOMAIN Without(list, c) : Without(list, c)[i] = list[j]
      BY <2>1, <2>2, RemoveAtKeeps
    <2>4. Ids(Without(list, c)) \subseteq Ids(list)
      BY <2>3 DEF Ids
    <2>5. Ids(list) \ {c} \subseteq Ids(Without(list, c))
      BY <2>1, <2>3 DEF Ids
    <2>. QED
      BY <2>3, <2>4, <2>5
  <1>. QED
    BY <1>1, <1>2

LessThan == {pair \in Nat \X Nat : pair[1] < pair[2]}

LEMMA LessThanWellFounded == IsWellFoundedOn(LessThan, Nat)
  BY NatLessThanWellFounded DEF OpToRel, LessThan

LEMMA HasFirst ==
  ASSUME NEW n \in Nat, NEW T \in SUBSET (1 .. n), T # {}
  PROVE  \E i \in T : \A k \in T : i <= k
  <1>1. T \subseteq Nat
    OBVIOUS
  <1>2. PICK i \in T : \A k \in T : <<k, i>> \notin LessThan
    BY <1>1, LessThanWellFounded, WFMin
  <1>3. ASSUME NEW k \in T
        PROVE  i <= k
    <2>1. i \in Nat /\ k \in Nat /\ <<k, i>> \notin LessThan
      BY <1>1, <1>2
    <2>2. ~(k < i)
      BY <2>1 DEF LessThan
    <2>. QED
      BY <2>1, <2>2
  <1>. QED
    BY <1>3

(* Where the loop of flush stands, its jobs are those of the list or of    *)
(* its snapshot.                                                           *)
LEMMA CurrentIsOne ==
  ASSUME NEW S, NEW list \in Seq(S), NEW job \in S, NEW stale
  PROVE  Current(job, list, stale) \in S
  <1>1. CASE ~stale /\ job.id \in Ids(list)
    BY <1>1, JobIsThere, ElementOfSeq, LenProperties DEF Current
  <1>2. CASE ~(~stale /\ job.id \in Ids(list))
    BY <1>2 DEF Current
  <1>. QED
    BY <1>1, <1>2

LEMMA RestIsGoing ==
  ASSUME NEW S, NEW todo \in Seq(S), NEW list \in Seq(S), NEW stale \in BOOLEAN, NEW s
  PROVE  Rest(todo, list, stale, s) \in Going(S)
  <1>. DEFINE now == [i \in DOMAIN todo |-> Current(todo[i], list, stale)]
  <1>. DEFINE next == {i \in DOMAIN now : Sendable(now[i], s)}
  <1>. DEFINE first == CHOOSE i \in next : \A k \in next : i <= k
  <1>1. now \in Seq(S)
    <2>1. ASSUME NEW i \in DOMAIN todo
          PROVE  Current(todo[i], list, stale) \in S
      BY CurrentIsOne, ElementOfSeq, LenProperties
    <2>2. now \in [DOMAIN todo -> S]
      BY <2>1
    <2>. QED
      BY <2>2, MappedList
  <1>2. next = {} => Rest(todo, list, stale, s) = NoFlush
    BY DEF Rest
  <1>3. next # {} => Rest(todo, list, stale, s) =
                       [todo |-> SubSeq(now, first, Len(now)), stale |-> stale]
    BY DEF Rest
  <1>4. next \subseteq DOMAIN now
    OBVIOUS
  <1>5. NoFlush \in Going(S)
    BY DEF NoFlush, Going
  <1>. HIDE DEF now, next
  <1>6. CASE next # {}
    <2>1. Len(now) \in Nat /\ DOMAIN now = 1 .. Len(now) /\ next \in SUBSET (1 .. Len(now))
      BY <1>1, <1>4, LenProperties
    <2>2. first \in next
      BY <1>6, <2>1, HasFirst
    <2>. HIDE DEF first
    <2>3. SubSeq(now, first, Len(now)) \in Seq(S)
      <3>1. first \in Int /\ Len(now) \in Int /\ \A i \in first .. Len(now) : now[i] \in S
        BY <1>1, <2>1, <2>2, ElementOfSeq
      <3>. QED
        BY <3>1, SubSeqProperties
    <2>. DEFINE left == SubSeq(now, first, Len(now))
    <2>4. left \in Seq(S) /\ Rest(todo, list, stale, s) = [todo |-> left, stale |-> stale]
      BY <1>3, <1>6, <2>3
    <2>. HIDE DEF left
    <2>. QED
      BY <2>4 DEF Going
  <1>. QED
    BY <1>2, <1>5, <1>6

LEMMA FlushedIsGoing ==
  ASSUME NEW S, NEW f \in Going(S), NEW list \in Seq(S), NEW s
  PROVE  Flushed(f, list, s) \in Going(S)
  <1>1. CASE f.todo # <<>>
    <2>. DEFINE now == [i \in DOMAIN f.todo |-> Current(f.todo[i], list, f.stale)]
    <2>1. f.todo \in Seq(S) /\ f.stale \in BOOLEAN
      BY DEF Going
    <2>2. ASSUME NEW i \in DOMAIN f.todo
          PROVE  Current(f.todo[i], list, f.stale) \in S
      BY <2>1, CurrentIsOne, ElementOfSeq, LenProperties
    <2>3. now \in [DOMAIN f.todo -> S]
      BY <2>2
    <2>4. now \in Seq(S)
      BY <2>1, <2>3, MappedList
    <2>5. Flushed(f, list, s) = [f EXCEPT !.todo = now]
      BY <1>1 DEF Flushed
    <2>. QED
      BY <2>4, <2>5 DEF Going
  <1>2. CASE f.todo = <<>>
    BY <1>2, RestIsGoing DEF Flushed
  <1>. QED
    BY <1>1, <1>2


(* A list's jobs are well formed.                                          *)
LEMMA OwnIsWell ==
  ASSUME NEW a, NEW m, NEW p
  PROVE  JobOf(a, m, p) \subseteq WellJob(a, m) /\ WellJob(a, m) \subseteq Job
  BY DEF JobOf, WellJob

LEMMA ListIsWell ==
  ASSUME NEW a, NEW m, NEW p, NEW list \in Seq(JobOf(a, m, p))
  PROVE  list \in Seq(WellJob(a, m))
  BY OwnIsWell, ListOfMore

LEMMA JobOfList ==
  ASSUME NEW a, NEW m, NEW p, NEW list \in Seq(JobOf(a, m, p)), NEW i \in DOMAIN list
  PROVE  /\ list[i] \in Job /\ a[list[i].id] = p
         /\ list[i].id \in m \/ list[i].fix \in {Unknown, p}
  <1>1. list[i] \in JobOf(a, m, p)
    BY ElementOfSeq, LenProperties
  <1>. QED
    BY <1>1 DEF JobOf, WellJob

(* What is stored of one list, if it is.                                   *)
LEMMA PersistKeeps ==
  ASSUME NEW a, NEW m, NEW p \in Person, NEW list \in Seq(JobOf(a, m, p)),
         DOMAIN stored = Person, \A q \in Person : stored[q] \in Seq(JobOf(a, m, q)),
         Persist(p, list)
  PROVE  /\ DOMAIN stored' = Person
         /\ \A q \in Person : stored'[q] \in Seq(JobOf(a, m, q))
         /\ \A q \in Person : q # p => stored'[q] = stored[q]
         /\ stored'[p] = list \/ (stored'[p] = stored[p] /\ refused')
         /\ refused => refused'
  <1>1. CASE stored' = stored /\ refused' = TRUE
    BY <1>1
  <1>2. CASE stored' = [stored EXCEPT ![p] = list] /\ refused' = refused
    <2>1. \A q \in Person : stored'[q] = IF q = p THEN list ELSE stored[q]
      BY <1>2
    <2>2. DOMAIN stored' = Person
      BY <1>2
    <2>3. ASSUME NEW q \in Person
          PROVE  stored'[q] \in Seq(JobOf(a, m, q))
      BY <2>1
    <2>. QED
      BY <1>2, <2>1, <2>2, <2>3
  <1>. QED
    BY <1>1, <1>2 DEF Persist

LEMMA EmptyIsList == ASSUME NEW S PROVE <<>> \in Seq(S) /\ NoFlush \in Going(S)
  BY DEF NoFlush, Going

(* restore keeps each account's jobs its own, and its captures.            *)
LEMMA RestoresJobs ==
  ASSUME QueueTypeOK, ListsStand
  PROVE  /\ RestoredJobs \in Seq(JobOf(keeper, Misplaced, who))
         /\ Ids(stored[who]) \ located \subseteq Ids(RestoredJobs)
         /\ RestoredFlush \in Going(WellJob(keeper, Misplaced))
  <1>1. RestoredFlush \in Going(WellJob(keeper, Misplaced))
    <2>1. flush \in Going(WellJob(keeper, Misplaced))
      BY DEF ListsStand
    <2>. QED
      BY <2>1 DEF RestoredFlush, Going
  <1>2. CASE ~Switched
    BY <1>1, <1>2, UnknownAssumption DEF RestoredJobs, Switched, QueueTypeOK, ListsStand
  <1>3. CASE Switched
    <2>. DEFINE list == stored[who]
    <2>1. list \in Seq(JobOf(keeper, Misplaced, who))
      BY DEF QueueTypeOK, ListsStand
    <2>. HIDE DEF list
    <2>2. RestoredJobs = [i \in DOMAIN list |-> [list[i] EXCEPT !.ready = TRUE]]
      BY <1>3 DEF RestoredJobs, list
    <2>3. ASSUME NEW i \in DOMAIN list
          PROVE  /\ [list[i] EXCEPT !.ready = TRUE] \in JobOf(keeper, Misplaced, who)
                 /\ [list[i] EXCEPT !.ready = TRUE].id = list[i].id
      <3>1. /\ list[i] \in Job /\ keeper[list[i].id] = who
            /\ list[i].id \in Misplaced \/ list[i].fix \in {Unknown, who}
        BY <2>1, JobOfList
      <3>. QED
        BY <3>1 DEF JobOf, WellJob, Job
    <2>4. RestoredJobs \in [DOMAIN list -> JobOf(keeper, Misplaced, who)]
      BY <2>2, <2>3
    <2>5. RestoredJobs \in Seq(JobOf(keeper, Misplaced, who)) /\ DOMAIN RestoredJobs = DOMAIN list
      BY <2>1, <2>4, MappedList
    <2>6. \A i \in DOMAIN list : RestoredJobs[i].id = list[i].id
      BY <2>2, <2>3
    <2>7. Ids(RestoredJobs) = Ids(list)
      BY <2>5, <2>6 DEF Ids
    <2>. QED
      BY <1>1, <2>5, <2>7 DEF list
  <1>. QED
    BY <1>2, <1>3

LEMMA NoCaptureTyped == NoCapture \in Capture
  BY DEF NoCapture, Capture

LEMMA RestoresCaptures ==
  ASSUME QueueTypeOK, ListsStand, CapturesSound
  PROVE  /\ RestoredCapture \in [Submission -> Capture]
         /\ RestoredStrays \in SUBSET (Submission \X Person)
         /\ \A c \in Submission : CaptureFits(c, RestoredCapture, RestoredStrays, Bearer, Misplaced, who)
  <1>1. CASE ~Switched
    BY <1>1 DEF RestoredCapture, RestoredStrays, Switched, QueueTypeOK, CapturesSound,
                CaptureSound
  <1>2. CASE Switched
    <2>1. RestoredCapture = [s \in Submission |-> NoCapture]
      BY <1>2 DEF RestoredCapture
    <2>2. RestoredStrays = strays \cup {<<s, scope>> : s \in {s \in Submission : capture[s].asking}}
      BY <1>2 DEF RestoredStrays
    <2>3. ASSUME NEW c \in Submission, capture[c].asking
          PROVE  scope \in Person /\ Bearer[c] \in {Unknown, scope}
      <3>1. Begun(capture[c])
        BY <2>3 DEF Begun
      <3>. QED
        BY <3>1 DEF QueueTypeOK, CapturesSound, CaptureSound, CaptureFits
    <2>4. RestoredStrays \in SUBSET (Submission \X Person)
      BY <2>2, <2>3 DEF QueueTypeOK
    <2>5. ASSUME NEW c \in Submission
          PROVE  CaptureFits(c, RestoredCapture, RestoredStrays, Bearer, Misplaced, who)
      <3>1. RestoredCapture[c] = NoCapture
        BY <2>1
      <3>2. ASSUME NEW p \in Person, <<c, p>> \in RestoredStrays
            PROVE  c \in Misplaced \/ Bearer[c] \in {Unknown, p}
        <4>1. CASE <<c, p>> \in strays
          BY <4>1 DEF CapturesSound, CaptureSound, CaptureFits
        <4>2. CASE <<c, p>> \notin strays
          <5>1. capture[c].asking /\ p = scope
            BY <2>2, <3>2, <4>2
          <5>. QED
            BY <2>3, <5>1
        <4>. QED
          BY <4>1, <4>2
      <3>. QED
        BY <3>1, <3>2 DEF CaptureFits, NoCapture, Begun
    <2>. QED
      BY <2>1, <2>4, <2>5, NoCaptureTyped
  <1>. QED
    BY <1>1, <1>2

(* request changes what is asked, nothing else of a capture.               *)
LEMMA RequestedFits ==
  ASSUME NEW cs \in [Submission -> Capture], NEW S, NEW ss, NEW a, NEW m, NEW s,
         \A c \in Submission : CaptureFits(c, cs, ss, a, m, s),
         \A c \in Submission : c \in S => a[c] \in {Unknown, s}
  PROVE  /\ Requested(cs, S) \in [Submission -> Capture]
         /\ \A c \in Submission : Requested(cs, S)[c].active = cs[c].active
         /\ \A c \in Submission : CaptureFits(c, Requested(cs, S), ss, a, m, s)
  <1>. DEFINE new == Requested(cs, S)
  <1>1. ASSUME NEW c \in Submission
        PROVE  /\ new[c] \in Capture
               /\ new[c].active = cs[c].active /\ new[c].fix = cs[c].fix
               /\ new[c] # cs[c] => c \in S
    BY DEF Requested, Capture
  <1>2. new \in [Submission -> Capture]
    BY <1>1 DEF Requested
  <1>. HIDE DEF new
  <1>3. ASSUME NEW c \in Submission
        PROVE  CaptureFits(c, new, ss, a, m, s)
    BY <1>1 DEF CaptureFits
  <1>. QED
    BY <1>1, <1>2, <1>3 DEF new

(* What a restore forgets is in what it drops.                             *)
LEMMA RestoresForgetNone ==
  ASSUME QueueInv, NEW c \in Submission, keeper[c] # Unknown, c \notin located
  PROVE  \/ c \in Ids(stored[keeper[c]])
         \/ refused /\ c \in RestoredDropped
         \/ refused /\ who = keeper[c] /\ c \in Ids(RestoredJobs)
  <1>1. dropped \subseteq RestoredDropped
    BY DEF RestoredDropped
  <1>2. CASE refused /\ scope = keeper[c] /\ c \in Ids(jobs)
    <2>1. CASE Switched
      BY <1>2, <2>1 DEF RestoredDropped, LostJobs
    <2>2. CASE ~Switched
      BY <1>2, <2>2 DEF RestoredJobs, Switched
    <2>. QED
      BY <2>1, <2>2
  <1>. QED
    BY <1>1, <1>2 DEF QueueInv, NothingForgotten

(* Nothing of who sent what, and of where it was put, changes.             *)
SameBearers == UNCHANGED <<author, post, keeper>>

LEMMA BearersStay ==
  ASSUME UNCHANGED <<author, keeper>>
  PROVE  Bearer' = Bearer /\ Misplaced' = Misplaced
  BY DEF Bearer, Misplaced

(* What a restore leaves, when nothing of the list is saved.               *)
LEMMA RestoredStands ==
  ASSUME QueueInv, Restores, jobs' = RestoredJobs, flush' \in Going(WellJob(keeper, Misplaced)),
         SameBearers, UNCHANGED <<who, stored, refused, located>>
  PROVE  ListsStand' /\ NothingForgotten'
  <1>1. /\ RestoredJobs \in Seq(JobOf(keeper, Misplaced, who))
        /\ Ids(stored[who]) \ located \subseteq Ids(RestoredJobs)
    BY RestoresJobs DEF QueueInv
  <1>2. who \in Person /\ who # Unknown
    BY UnknownAssumption DEF QueueInv, QueueTypeOK
  <1>3. keeper' = keeper /\ Misplaced' = Misplaced
    BY BearersStay DEF SameBearers
  <1>4. scope' = who /\ strays' = RestoredStrays /\ dropped' = RestoredDropped
    BY DEF Restores
  <1>5. ASSUME NEW c \in Submission, keeper'[c] # Unknown, c \notin located'
        PROVE  \/ c \in Ids(stored'[keeper'[c]])
               \/ refused' /\ c \in dropped'
               \/ refused' /\ scope' = keeper'[c] /\ c \in Ids(jobs')
    <2>1. keeper[c] # Unknown /\ c \notin located
      BY <1>3, <1>5
    <2>. QED
      BY <1>3, <1>4, <2>1, RestoresForgetNone
  <1>6. NothingForgotten'
    BY <1>5 DEF NothingForgotten
  <1>7. /\ DOMAIN stored = Person
        /\ \A p \in Person : stored[p] \in Seq(JobOf(keeper, Misplaced, p))
    BY DEF QueueInv, ListsStand
  <1>. QED
    BY <1>1, <1>2, <1>3, <1>4, <1>6, <1>7 DEF ListsStand

-----------------------------------------------------------------------------

(* Only the lists change.                                                  *)
LEMMA CapturesStay ==
  ASSUME QueueInv, UNCHANGED <<who, scope, capture>>, SameBearers,
         strays' \in SUBSET strays
  PROVE  QueueTypeOK' /\ CapturesSound'
  <1>. Bearer' = Bearer /\ Misplaced' = Misplaced
    BY BearersStay DEF SameBearers
  <1>1. QueueTypeOK'
    BY DEF QueueInv, QueueTypeOK, SameBearers
  <1>2. ASSUME NEW c \in Submission
        PROVE  CaptureSound(c)'
    BY DEF QueueInv, CapturesSound, CaptureSound, CaptureFits
  <1>. QED
    BY <1>1, <1>2 DEF CapturesSound

(* The list of the account changes, in storage too.                        *)
LEMMA ListChanges ==
  ASSUME QueueInv, scope \in Person, UNCHANGED <<who, scope, dropped>>, SameBearers,
         NEW list \in Seq(JobOf(keeper, Misplaced, scope)),
         jobs' = list, Persist(scope, list),
         flush' \in Going(WellJob(keeper, Misplaced)), located \subseteq located',
         Ids(jobs) \ located' \subseteq Ids(list)
  PROVE  ListsStand' /\ NothingForgotten'
  <1>1. /\ DOMAIN stored' = Person
        /\ \A q \in Person : stored'[q] \in Seq(JobOf(keeper, Misplaced, q))
        /\ \A q \in Person : q # scope => stored'[q] = stored[q]
        /\ stored'[scope] = list \/ (stored'[scope] = stored[scope] /\ refused')
        /\ refused => refused'
    BY PersistKeeps DEF QueueInv, ListsStand
  <1>2. scope # Unknown
    BY UnknownAssumption
  <1>3. keeper' = keeper /\ Misplaced' = Misplaced
    BY BearersStay DEF SameBearers
  <1>4. Ids(stored[scope]) \ located \subseteq Ids(jobs)
    BY <1>2 DEF QueueInv, ListsStand
  <1>5. Ids(stored'[scope]) \ located' \subseteq Ids(list)
    BY <1>1, <1>4
  <1>6. ListsStand'
    BY <1>1, <1>2, <1>3, <1>5 DEF ListsStand
  <1>7. ASSUME NEW c \in Submission, keeper'[c] # Unknown, c \notin located'
        PROVE  \/ c \in Ids(stored'[keeper'[c]])
               \/ refused' /\ c \in dropped'
               \/ refused' /\ scope' = keeper'[c] /\ c \in Ids(jobs')
    <2>1. /\ keeper[c] \in Person /\ c \notin located
          /\ \/ c \in Ids(stored[keeper[c]])
             \/ refused /\ c \in dropped
             \/ refused /\ scope = keeper[c] /\ c \in Ids(jobs)
      BY <1>3, <1>7 DEF QueueInv, QueueTypeOK, NothingForgotten
    <2>2. CASE keeper[c] = scope
      BY <1>1, <1>3, <1>4, <1>7, <2>1, <2>2
    <2>3. CASE keeper[c] # scope
      BY <1>1, <1>3, <2>1, <2>3
    <2>. QED
      BY <2>2, <2>3
  <1>8. NothingForgotten'
    BY <1>7 DEF NothingForgotten
  <1>. QED
    BY <1>6, <1>8

LEMMA StartCaptureKeeps ==
  ASSUME QueueInv, NEW c \in Submission, StartCapture(c)
  PROVE  QueueInv'
  <1>. DEFINE cs == [RestoredCapture EXCEPT ![c].active = TRUE]
  <1>0. Bearer' = Bearer /\ Misplaced' = Misplaced
    BY BearersStay DEF StartCapture, quickVars
  <1>1. ListsStand' /\ NothingForgotten'
    <2>1. /\ Restores /\ jobs' = RestoredJobs /\ flush' = RestoredFlush
          /\ SameBearers /\ UNCHANGED <<who, stored, refused, located>>
      BY DEF StartCapture, quickVars, SameBearers
    <2>2. flush' \in Going(WellJob(keeper, Misplaced))
      BY <2>1, RestoresJobs DEF QueueInv
    <2>. QED
      BY <2>1, <2>2, RestoredStands
  <1>2. /\ RestoredCapture \in [Submission -> Capture]
        /\ RestoredStrays \in SUBSET (Submission \X Person)
        /\ \A d \in Submission : CaptureFits(d, RestoredCapture, RestoredStrays, Bearer, Misplaced, who)
    BY RestoresCaptures DEF QueueInv
  <1>3. /\ cs \in [Submission -> Capture]
        /\ \A d \in Submission : CaptureFits(d, cs, RestoredStrays, Bearer, Misplaced, who)
    <2>1. cs \in [Submission -> Capture]
      BY <1>2 DEF Capture
    <2>2. /\ cs[c].active /\ cs[c].fix = Unknown
          /\ \A d \in Submission \ {c} : cs[d] = RestoredCapture[d]
      BY <1>2 DEF StartCapture, NoCapture, Capture
    <2>3. author[c] = Unknown /\ \A p \in Person : <<c, p>> \notin RestoredStrays
      BY DEF StartCapture
    <2>. HIDE DEF cs
    <2>4. ASSUME NEW d \in Submission
          PROVE  CaptureFits(d, cs, RestoredStrays, Bearer, Misplaced, who)
      <3>1. Bearer[c] = Unknown
        BY <2>3 DEF QueueInv, QueueTypeOK, Bearer
      <3>. QED
        BY <1>2, <2>2, <2>3, <3>1 DEF CaptureFits
    <2>. QED
      BY <2>1, <2>4
  <1>. HIDE DEF cs
  <1>4. \A d \in Submission : d \in {c} => Bearer[d] \in {Unknown, who}
    BY DEF StartCapture, QueueInv, QueueTypeOK, Bearer
  <1>5. /\ Requested(cs, {c}) \in [Submission -> Capture]
        /\ \A d \in Submission : CaptureFits(d, Requested(cs, {c}), RestoredStrays, Bearer, Misplaced, who)
    BY <1>3, <1>4, RequestedFits
  <1>6. /\ scope' = who /\ who' = who /\ strays' = RestoredStrays
        /\ UNCHANGED <<author, keeper, post>> /\ capture' = Requested(cs, {c})
    BY DEF StartCapture, Restores, quickVars, cs
  <1>7. who \in Person /\ who # Unknown
    BY UnknownAssumption DEF QueueInv, QueueTypeOK
  <1>8. CapturesSound'
    BY <1>0, <1>5, <1>6, <1>7 DEF CapturesSound, CaptureSound
  <1>9. QueueTypeOK'
    BY <1>2, <1>5, <1>6, <1>7 DEF QueueInv, QueueTypeOK
  <1>. QED
    BY <1>1, <1>8, <1>9 DEF QueueInv

LEMMA RetryKeeps ==
  ASSUME QueueInv, Retry
  PROVE  QueueInv'
  <1>. DEFINE S == {c \in Submission : \/ RestoredCapture[c].active
                                      \/ \E i \in DOMAIN RestoredJobs :
                                           RestoredJobs[i].id = c /\ RestoredJobs[i].fix = Unknown}
  <1>1. /\ RestoredJobs \in Seq(JobOf(keeper, Misplaced, who))
        /\ RestoredFlush \in Going(WellJob(keeper, Misplaced))
    BY RestoresJobs DEF QueueInv
  <1>2. Flushed(RestoredFlush, RestoredJobs, who) \in Going(WellJob(keeper, Misplaced))
    BY <1>1, ListIsWell, FlushedIsGoing
  <1>3. ListsStand' /\ NothingForgotten'
    BY <1>2, RestoredStands DEF Retry, quickVars, SameBearers
  <1>4. /\ RestoredCapture \in [Submission -> Capture]
        /\ RestoredStrays \in SUBSET (Submission \X Person)
        /\ \A c \in Submission : CaptureFits(c, RestoredCapture, RestoredStrays, Bearer, Misplaced, who)
    BY RestoresCaptures DEF QueueInv
  <1>5. ASSUME NEW c \in Submission, c \in S
        PROVE  Bearer[c] \in {Unknown, who}
    <2>1. CASE RestoredCapture[c].active
      <3>1. Begun(RestoredCapture[c])
        BY <2>1 DEF Begun
      <3>. QED
        BY <1>4, <3>1 DEF CaptureFits
    <2>2. CASE \E i \in DOMAIN RestoredJobs : RestoredJobs[i].id = c
      <3>1. keeper[c] = who
        BY <1>1, <2>2, JobOfList
      <3>2. Bearer[c] = who
        BY <3>1, UnknownAssumption DEF Bearer, QueueInv, QueueTypeOK
      <3>. QED
        BY <3>2
    <2>. QED
      BY <1>5, <2>1, <2>2
  <1>6. capture' = Requested(RestoredCapture, S)
    BY DEF Retry
  <1>. HIDE DEF S
  <1>7. /\ Requested(RestoredCapture, S) \in [Submission -> Capture]
        /\ \A c \in Submission :
             CaptureFits(c, Requested(RestoredCapture, S), RestoredStrays, Bearer, Misplaced, who)
    BY <1>4, <1>5, RequestedFits
  <1>8. /\ scope' = who /\ who' = who /\ strays' = RestoredStrays
        /\ UNCHANGED <<author, keeper, post>> /\ Bearer' = Bearer /\ Misplaced' = Misplaced
    BY BearersStay DEF Retry, Restores, quickVars
  <1>9. who \in Person /\ who # Unknown
    BY UnknownAssumption DEF QueueInv, QueueTypeOK
  <1>10. CapturesSound'
    BY <1>6, <1>7, <1>8, <1>9 DEF CapturesSound, CaptureSound
  <1>11. QueueTypeOK'
    BY <1>4, <1>6, <1>7, <1>8, <1>9 DEF QueueInv, QueueTypeOK
  <1>. QED
    BY <1>3, <1>10, <1>11 DEF QueueInv

(* A form sends its inbound; nobody has it yet.                            *)
LEMMA SubmitKeeps ==
  ASSUME QueueInv, NEW c \in Submission, PostInbound(c)
  PROVE  QueueInv'
  <1>1. /\ capture[c].active /\ keeper[c] = Unknown
        /\ author' = [author EXCEPT ![c] = who] /\ post' = post \cup {c}
        /\ UNCHANGED <<who, scope, capture, jobs, strays, flush, stored, refused, dropped, keeper,
                      located>>
    BY DEF PostInbound, outboxVars
  <1>2. who \in Person /\ who # Unknown
    BY UnknownAssumption DEF QueueInv, QueueTypeOK
  <1>3. QueueTypeOK'
    BY <1>1, <1>2 DEF QueueInv, QueueTypeOK
  <1>4. \A d \in Submission : author'[d] = IF d = c THEN who ELSE author[d]
    BY <1>1 DEF QueueInv, QueueTypeOK
  <1>5. Misplaced' = Misplaced
    BY <1>1, <1>4 DEF Misplaced
  <1>6. ListsStand' /\ NothingForgotten'
    BY <1>1, <1>5 DEF QueueInv, ListsStand, NothingForgotten
  <1>7. /\ Bearer'[c] = who
        /\ \A d \in Submission \ {c} : Bearer'[d] = Bearer[d]
    BY <1>1, <1>4 DEF Bearer
  <1>8. ASSUME NEW d \in Submission
        PROVE  CaptureSound(d)'
    BY <1>1, <1>5, <1>7 DEF QueueInv, CapturesSound, CaptureSound, CaptureFits
  <1>. QED
    BY <1>3, <1>6, <1>8 DEF QueueInv, CapturesSound

LEMMA PostFailsKeeps ==
  ASSUME QueueInv, NEW c \in Submission, PostFails(c)
  PROVE  QueueInv'
  <1>1. /\ post' \subseteq post
        /\ UNCHANGED <<who, scope, capture, jobs, strays, flush, stored, refused, dropped, author,
                      keeper, located>>
    BY DEF PostFails, outboxVars
  <1>2. Bearer' = Bearer /\ Misplaced' = Misplaced
    BY <1>1, BearersStay
  <1>3. QueueTypeOK'
    BY <1>1 DEF QueueInv, QueueTypeOK
  <1>4. ListsStand' /\ NothingForgotten'
    BY <1>1, <1>2 DEF QueueInv, ListsStand, NothingForgotten
  <1>5. CapturesSound'
    BY <1>1, <1>2 DEF QueueInv, CapturesSound, CaptureSound, CaptureFits
  <1>. QED
    BY <1>3, <1>4, <1>5 DEF QueueInv

(* An inbound joins the list of its keeper.                                *)
LEMMA KeepersGrow ==
  ASSUME QueueTypeOK, NEW c \in Submission, keeper[c] = Unknown, NEW p \in Person,
         NEW new, new = [keeper EXCEPT ![c] = p], NEW m, Misplaced \subseteq m
  PROVE  /\ WellJob(keeper, Misplaced) \subseteq WellJob(new, m)
         /\ \A q \in Person : JobOf(keeper, Misplaced, q) \subseteq JobOf(new, m, q)
  <1>1. DOMAIN keeper = Submission
    BY DEF QueueTypeOK
  <1>2. ASSUME NEW j \in WellJob(keeper, Misplaced)
        PROVE  j \in WellJob(new, m)
    <2>1. j \in Job /\ j.id \in Submission /\ (j.id \in m \/ j.fix \in {Unknown, keeper[j.id]})
      BY DEF WellJob, Job
    <2>2. j.id \in m \/ j.fix \in {Unknown, new[j.id]}
      BY <1>1, <2>1
    <2>. QED
      BY <2>1, <2>2 DEF WellJob
  <1>3. ASSUME NEW q \in Person, NEW j \in JobOf(keeper, Misplaced, q)
        PROVE  j \in JobOf(new, m, q)
    <2>1. j \in WellJob(keeper, Misplaced) /\ j.id \in Submission /\ keeper[j.id] = q
      BY DEF JobOf, WellJob, Job
    <2>2. j.id # c
      BY <2>1, UnknownAssumption
    <2>. QED
      BY <1>1, <1>2, <2>1, <2>2 DEF JobOf
  <1>. QED
    BY <1>2, <1>3

LEMMA AppendedList ==
  ASSUME NEW S, NEW list \in Seq(S), NEW job \in S
  PROVE  /\ Append(list, job) \in Seq(S)
         /\ Ids(Append(list, job)) = Ids(list) \cup {job.id}
  <1>1. /\ Append(list, job) \in Seq(S)
        /\ Len(list) \in Nat /\ DOMAIN list = 1 .. Len(list)
        /\ DOMAIN Append(list, job) = 1 .. (Len(list) + 1)
        /\ \A i \in 1 .. Len(list) : Append(list, job)[i] = list[i]
        /\ Append(list, job)[Len(list) + 1] = job
    BY AppendProperties, LenProperties
  <1>. DEFINE new == Append(list, job)
  <1>. HIDE DEF new
  <1>2. Ids(new) \subseteq Ids(list) \cup {job.id}
    BY <1>1 DEF Ids, new
  <1>3. Ids(list) \cup {job.id} \subseteq Ids(new)
    BY <1>1 DEF Ids, new
  <1>. QED
    BY <1>1, <1>2, <1>3 DEF new

LEMMA EnqueueKeeps ==
  ASSUME QueueInv, NEW c \in Submission, NEW hasPhoto \in BOOLEAN, Enqueue(c, hasPhoto)
  PROVE  QueueInv'
  <1>. DEFINE job == [id |-> c, ready |-> ~hasPhoto, fix |-> RestoredCapture[c].fix]
  <1>. DEFINE list == Append(RestoredJobs, job)
  <1>1. /\ keeper[c] = Unknown /\ author[c] # Unknown
        /\ who \in Person /\ who # Unknown
    BY UnknownAssumption DEF QueueInv, QueueTypeOK, Enqueue
  <1>2. /\ keeper' = [keeper EXCEPT ![c] = who] /\ author' = author /\ post' = post \ {c}
        /\ who' = who /\ scope' = who /\ located' = located
        /\ strays' = RestoredStrays /\ dropped' = RestoredDropped
        /\ jobs' = list /\ Persist(who, list)
        /\ capture' = Requested(RestoredCapture, {c})
        /\ flush' = Flushed(RestoredFlush, list, who)
    BY DEF Enqueue, Restores
  <1>3. \A d \in Submission : keeper'[d] = IF d = c THEN who ELSE keeper[d]
    BY <1>2 DEF QueueInv, QueueTypeOK
  <1>4. /\ keeper' \in [Submission -> Person \cup {Unknown}]
        /\ Misplaced \subseteq Misplaced'
        /\ c \notin Misplaced' => author[c] = who
    BY <1>1, <1>2, <1>3 DEF QueueInv, QueueTypeOK, Misplaced
  <1>5. /\ Bearer'[c] = who /\ Bearer[c] = author[c]
        /\ \A d \in Submission \ {c} : Bearer'[d] = Bearer[d]
    BY <1>1, <1>2, <1>3 DEF Bearer
  <1>. DEFINE k == keeper'
  <1>. DEFINE m == Misplaced'
  <1>. DEFINE o == Bearer'
  <1>6. /\ k[c] = who /\ k = [keeper EXCEPT ![c] = who] /\ Misplaced \subseteq m
        /\ \A d \in Submission \ {c} : k[d] = keeper[d]
        /\ c \notin m => author[c] = who
        /\ o[c] = who /\ \A d \in Submission \ {c} : o[d] = Bearer[d]
    BY <1>2, <1>3, <1>4, <1>5
  <1>. HIDE DEF k, m, o
  <1>7. /\ RestoredJobs \in Seq(JobOf(k, m, who))
        /\ RestoredFlush \in Going(WellJob(k, m))
        /\ \A q \in Person : stored[q] \in Seq(JobOf(k, m, q))
    <2>1. /\ RestoredJobs \in Seq(JobOf(keeper, Misplaced, who))
          /\ RestoredFlush \in Going(WellJob(keeper, Misplaced))
          /\ \A q \in Person : stored[q] \in Seq(JobOf(keeper, Misplaced, q))
      BY RestoresJobs DEF QueueInv, ListsStand
    <2>2. /\ WellJob(keeper, Misplaced) \subseteq WellJob(k, m)
          /\ \A q \in Person : JobOf(keeper, Misplaced, q) \subseteq JobOf(k, m, q)
      BY <1>1, <1>6, KeepersGrow DEF QueueInv
    <2>3. RestoredFlush.todo \in Seq(WellJob(keeper, Misplaced)) /\ RestoredFlush.stale \in BOOLEAN
      BY <2>1 DEF Going
    <2>4. RestoredFlush.todo \in Seq(WellJob(k, m))
      BY <2>2, <2>3, ListOfMore
    <2>5. RestoredFlush \in Going(WellJob(k, m))
      BY <2>1, <2>3, <2>4 DEF Going
    <2>6. ASSUME NEW q \in Person, NEW l \in Seq(JobOf(keeper, Misplaced, q))
          PROVE  l \in Seq(JobOf(k, m, q))
      BY <2>2, ListOfMore
    <2>. QED
      BY <1>1, <2>1, <2>5, <2>6
  <1>8. /\ RestoredCapture \in [Submission -> Capture]
        /\ RestoredStrays \in SUBSET (Submission \X Person)
        /\ \A d \in Submission :
             CaptureFits(d, RestoredCapture, RestoredStrays, Bearer, Misplaced, who)
    BY RestoresCaptures DEF QueueInv
  <1>9. job \in JobOf(k, m, who) /\ job.id = c
    <2>1. RestoredCapture[c].fix \in {Unknown, who}
      BY <1>8 DEF CaptureFits
    <2>2. job \in Job
      BY <1>1, <2>1 DEF Job
    <2>. QED
      BY <1>6, <2>1, <2>2 DEF JobOf, WellJob
  <1>. HIDE DEF job
  <1>10. list \in Seq(JobOf(k, m, who)) /\ Ids(list) = Ids(RestoredJobs) \cup {c}
    BY <1>7, <1>9, AppendedList
  <1>. HIDE DEF list
  <1>11. flush' \in Going(WellJob(k, m))
    BY <1>2, <1>7, <1>10, ListIsWell, FlushedIsGoing
  <1>12. /\ DOMAIN stored' = Person
         /\ \A q \in Person : stored'[q] \in Seq(JobOf(k, m, q))
         /\ \A q \in Person : q # who => stored'[q] = stored[q]
         /\ stored'[who] = list \/ (stored'[who] = stored[who] /\ refused')
         /\ refused => refused'
    BY <1>1, <1>2, <1>7, <1>10, PersistKeeps DEF QueueInv, ListsStand
  <1>13. Ids(stored[who]) \ located \subseteq Ids(list)
    BY <1>10, RestoresJobs DEF QueueInv
  <1>14. ListsStand'
    <2>1. Ids(stored'[who]) \ located \subseteq Ids(list)
      BY <1>12, <1>13
    <2>. QED
      BY <1>1, <1>2, <1>10, <1>11, <1>12, <2>1 DEF ListsStand, k, m
  <1>15. ASSUME NEW d \in Submission, k[d] # Unknown, d \notin located
         PROVE  \/ d \in Ids(stored'[k[d]])
                \/ refused' /\ d \in dropped'
                \/ refused' /\ scope' = k[d] /\ d \in Ids(jobs')
    <2>1. CASE d = c
      BY <1>2, <1>6, <1>10, <1>12, <2>1
    <2>2. CASE d # c
      <3>1. /\ k[d] = keeper[d] /\ keeper[d] \in Person
            /\ \/ d \in Ids(stored[keeper[d]])
               \/ refused /\ d \in RestoredDropped
               \/ refused /\ who = keeper[d] /\ d \in Ids(RestoredJobs)
        BY <1>6, <1>15, <2>2, RestoresForgetNone DEF QueueInv, QueueTypeOK
      <3>2. CASE keeper[d] = who
        BY <1>2, <1>10, <1>12, <1>13, <1>15, <3>1, <3>2
      <3>3. CASE keeper[d] # who
        BY <1>2, <1>12, <3>1, <3>3
      <3>. QED
        BY <3>2, <3>3
    <2>. QED
      BY <2>1, <2>2
  <1>16. NothingForgotten'
    BY <1>2, <1>15 DEF NothingForgotten, k
  <1>17. ASSUME NEW d \in Submission
         PROVE  CaptureFits(d, RestoredCapture, RestoredStrays, o, m, who)
    <2>1. CaptureFits(d, RestoredCapture, RestoredStrays, Bearer, Misplaced, who)
      BY <1>8
    <2>2. CASE d = c
      BY <1>1, <1>5, <1>6, <2>1, <2>2 DEF CaptureFits
    <2>3. CASE d # c
      <3>1. o[d] = Bearer[d] /\ (d \in Misplaced => d \in m)
        BY <1>6, <2>3
      <3>. QED
        BY <2>1, <3>1 DEF CaptureFits
    <2>. QED
      BY <2>2, <2>3
  <1>18. \A d \in Submission : d \in {c} => o[d] \in {Unknown, who}
    BY <1>6
  <1>19. /\ Requested(RestoredCapture, {c}) \in [Submission -> Capture]
         /\ \A d \in Submission :
              CaptureFits(d, Requested(RestoredCapture, {c}), RestoredStrays, o, m, who)
    BY <1>8, <1>17, <1>18, RequestedFits
  <1>20. CapturesSound'
    BY <1>1, <1>2, <1>19 DEF CapturesSound, CaptureSound, o, m
  <1>21. QueueTypeOK'
    BY <1>1, <1>2, <1>3, <1>4, <1>8, <1>19 DEF QueueInv, QueueTypeOK
  <1>. QED
    BY <1>14, <1>16, <1>20, <1>21 DEF QueueInv

(* The photo's upload ends; what is left of the list is ready.             *)
LEMMA PhotoFinishedKeeps ==
  ASSUME QueueInv, NEW c \in Submission, NEW hasLocation \in BOOLEAN,
         PhotoFinished(c, hasLocation)
  PROVE  QueueInv'
  <1>. DEFINE left == IF hasLocation THEN Without(jobs, c) ELSE jobs
  <1>. DEFINE list == [i \in DOMAIN left |-> IF left[i].id = c
                                              THEN [left[i] EXCEPT !.ready = TRUE] ELSE left[i]]
  <1>. DEFINE S == JobOf(keeper, Misplaced, scope)
  <1>1. /\ jobs' = list
        /\ flush' = Flushed(flush, list, scope)
        /\ located' = IF hasLocation THEN located \cup {c} ELSE located
        /\ IF scope = Unknown THEN UNCHANGED <<stored, refused>> ELSE Persist(scope, list)
        /\ UNCHANGED <<who, scope, capture, strays, dropped>> /\ SameBearers
    BY DEF PhotoFinished, SameBearers
  <1>2. /\ left \in Seq(S) /\ Ids(left) \subseteq Ids(jobs)
        /\ Ids(jobs) \ located' \subseteq Ids(left)
    <2>1. jobs \in Seq(S)
      BY DEF QueueInv, ListsStand
    <2>. HIDE DEF S
    <2>2. /\ Without(jobs, c) \in Seq(S) /\ Ids(Without(jobs, c)) \subseteq Ids(jobs)
          /\ Ids(jobs) \ {c} \subseteq Ids(Without(jobs, c))
      BY <2>1, WithoutKeeps
    <2>. QED
      BY <1>1, <2>1, <2>2
  <1>. HIDE DEF left
  <1>3. ASSUME NEW i \in DOMAIN left
        PROVE  list[i] \in S /\ list[i].id = left[i].id
    <2>1. /\ left[i] \in Job /\ keeper[left[i].id] = scope
          /\ left[i].id \in Misplaced \/ left[i].fix \in {Unknown, scope}
      BY <1>2, JobOfList
    <2>2. list[i] = left[i] \/ list[i] = [left[i] EXCEPT !.ready = TRUE]
      OBVIOUS
    <2>. HIDE DEF list
    <2>3. list[i] \in Job /\ list[i].id = left[i].id /\ list[i].fix = left[i].fix
      BY <2>1, <2>2 DEF Job
    <2>. QED
      BY <2>1, <2>3 DEF JobOf, WellJob
  <1>4. list \in [DOMAIN left -> S]
    BY <1>3
  <1>. HIDE DEF list
  <1>5. list \in Seq(S) /\ DOMAIN list = DOMAIN left
    BY <1>2, <1>4, MappedList
  <1>6. Ids(list) = Ids(left)
    BY <1>3, <1>5 DEF Ids
  <1>7. flush' \in Going(WellJob(keeper, Misplaced))
    <2>1. flush \in Going(WellJob(keeper, Misplaced))
      BY DEF QueueInv, ListsStand
    <2>2. list \in Seq(WellJob(keeper, Misplaced))
      BY <1>5, ListIsWell
    <2>. QED
      BY <1>1, <2>1, <2>2, FlushedIsGoing
  <1>8. CASE scope # Unknown
    <2>1. scope \in Person
      BY <1>8 DEF QueueInv, QueueTypeOK
    <2>2. Ids(jobs) \ located' \subseteq Ids(list) /\ located \subseteq located'
      BY <1>1, <1>2, <1>6
    <2>3. ListsStand' /\ NothingForgotten'
      BY <1>1, <1>5, <1>7, <1>8, <2>1, <2>2, ListChanges
    <2>. QED
      BY <1>1, <2>3, CapturesStay DEF QueueInv
  <1>9. CASE scope = Unknown
    <2>1. jobs = <<>> /\ flush = NoFlush /\ strays = {}
      BY <1>9 DEF QueueInv, ListsStand
    <2>2. Ids(jobs) = {}
      BY <2>1 DEF Ids
    <2>3. left = <<>>
      BY <2>1, <2>2 DEF left, Without
    <2>4. list = <<>>
      BY <1>2, <1>5, <2>3
    <2>5. Rest(<<>>, <<>>, FALSE, scope) = NoFlush
      BY DEF Rest
    <2>6. flush' = NoFlush
      BY <1>1, <2>1, <2>4, <2>5 DEF Flushed, NoFlush
    <2>7. UNCHANGED <<stored, refused, dropped, scope>> /\ keeper' = keeper /\ Misplaced' = Misplaced
      BY <1>1, <1>9, BearersStay DEF SameBearers
    <2>8. ListsStand'
      BY <1>1, <1>5, <1>7, <1>9, <2>1, <2>4, <2>6, <2>7 DEF QueueInv, ListsStand
    <2>9. NothingForgotten'
      BY <1>1, <1>9, <2>7 DEF QueueInv, QueueTypeOK, NothingForgotten
    <2>. QED
      BY <1>1, <2>8, <2>9, CapturesStay DEF QueueInv
  <1>. QED
    BY <1>8, <1>9

(* A form's jobs get their author's position.                              *)
LEMMA FixedKeeps ==
  ASSUME QueueInv, NEW c \in Submission,
         \A i \in DOMAIN jobs : jobs[i].id = c => scope = who \/ c \in Misplaced
  PROVE  Fixed(c) \in Seq(JobOf(keeper, Misplaced, scope)) /\ Ids(Fixed(c)) = Ids(jobs)
  <1>. DEFINE S == JobOf(keeper, Misplaced, scope)
  <1>1. jobs \in Seq(S)
    BY DEF QueueInv, ListsStand
  <1>2. ASSUME NEW i \in DOMAIN jobs
        PROVE  Fixed(c)[i] \in S /\ Fixed(c)[i].id = jobs[i].id
    <2>1. /\ jobs[i] \in Job /\ keeper[jobs[i].id] = scope
          /\ jobs[i].id \in Misplaced \/ jobs[i].fix \in {Unknown, scope}
      BY <1>1, JobOfList
    <2>2. Fixed(c)[i] = IF jobs[i].id = c THEN [jobs[i] EXCEPT !.fix = who] ELSE jobs[i]
      BY DEF Fixed
    <2>3. CASE jobs[i].id = c
      <3>1. (scope = who \/ c \in Misplaced) /\ who \in Person
        BY <2>3 DEF QueueInv, QueueTypeOK
      <3>2. /\ Fixed(c)[i] \in Job /\ Fixed(c)[i].id = jobs[i].id /\ Fixed(c)[i].fix = who
        BY <2>1, <2>2, <2>3, <3>1 DEF Job
      <3>. QED
        BY <2>1, <2>3, <3>1, <3>2 DEF JobOf, WellJob
    <2>4. CASE jobs[i].id # c
      BY <2>1, <2>2, <2>4 DEF JobOf, WellJob
    <2>. QED
      BY <2>3, <2>4
  <1>3. Fixed(c) \in [DOMAIN jobs -> S]
    BY <1>2 DEF Fixed
  <1>. HIDE DEF S
  <1>4. Fixed(c) \in Seq(S) /\ DOMAIN Fixed(c) = DOMAIN jobs
    BY <1>1, <1>3, MappedList
  <1>5. Ids(Fixed(c)) = Ids(jobs)
    BY <1>2, <1>4 DEF Ids
  <1>. QED
    BY <1>4, <1>5 DEF S

LEMMA FixKeepsLists ==
  ASSUME QueueInv, NEW c \in Submission, scope \in Person,
         \A i \in DOMAIN jobs : jobs[i].id = c => scope = who \/ c \in Misplaced,
         jobs' = Fixed(c), Persist(scope, Fixed(c)),
         flush' = Flushed(flush, Fixed(c), scope),
         UNCHANGED <<who, scope, dropped, located>>, SameBearers
  PROVE  ListsStand' /\ NothingForgotten'
  <1>1. Fixed(c) \in Seq(JobOf(keeper, Misplaced, scope)) /\ Ids(Fixed(c)) = Ids(jobs)
    BY FixedKeeps
  <1>2. flush' \in Going(WellJob(keeper, Misplaced))
    <2>1. flush \in Going(WellJob(keeper, Misplaced))
      BY DEF QueueInv, ListsStand
    <2>2. Fixed(c) \in Seq(WellJob(keeper, Misplaced))
      BY <1>1, ListIsWell
    <2>. QED
      BY <2>1, <2>2, FlushedIsGoing
  <1>3. Ids(jobs) \ located' \subseteq Ids(Fixed(c)) /\ located \subseteq located'
    BY <1>1
  <1>. QED
    BY <1>1, <1>2, <1>3, ListChanges

LEMMA ListsStay ==
  ASSUME QueueInv, UNCHANGED <<scope, outboxVars, author, keeper, located>>
  PROVE  ListsStand' /\ NothingForgotten'
  BY BearersStay DEF outboxVars, QueueInv, ListsStand, NothingForgotten

LEMMA LocatedKeeps ==
  ASSUME QueueInv, NEW c \in Submission, Located(c)
  PROVE  QueueInv'
  <1>1. scope \in Person /\ Bearer[c] \in {Unknown, scope}
    <2>1. Begun(capture[c])
      BY DEF Located, Begun
    <2>. QED
      BY <2>1 DEF QueueInv, QueueTypeOK, CapturesSound, CaptureSound, CaptureFits
  <1>2. /\ capture' \in [Submission -> Capture]
        /\ capture'[c].active = capture[c].active /\ capture'[c].fix \in {Unknown, scope}
        /\ \A d \in Submission \ {c} : capture'[d] = capture[d]
    <2>1. /\ capture \in [Submission -> Capture] /\ capture[c].fix \in {Unknown, scope}
          /\ who \in Person
      BY DEF QueueInv, QueueTypeOK, CapturesSound, CaptureSound, CaptureFits
    <2>2. CASE scope = who
      <3>1. capture' = [capture EXCEPT ![c].asking = FALSE, ![c].fix = who]
        BY <2>2 DEF Located
      <3>. QED
        BY <2>1, <2>2, <3>1 DEF Capture
    <2>3. CASE scope # who
      <3>1. capture' = [capture EXCEPT ![c].asking = FALSE]
        BY <2>3 DEF Located
      <3>. QED
        BY <2>1, <2>3, <3>1 DEF Capture
    <2>. QED
      BY <2>2, <2>3
  <1>3. UNCHANGED <<who, scope, strays, dropped, author, post, keeper, located>>
    BY DEF Located, quickVars
  <1>. Bearer' = Bearer /\ Misplaced' = Misplaced /\ SameBearers
    BY <1>3, BearersStay DEF SameBearers
  <1>4. QueueTypeOK' /\ CapturesSound'
    <2>1. QueueTypeOK'
      BY <1>2, <1>3 DEF QueueInv, QueueTypeOK
    <2>2. scope # Unknown
      BY <1>1, UnknownAssumption
    <2>3. ASSUME NEW d \in Submission
          PROVE  CaptureSound(d)'
      <3>1. CaptureSound(d)
        BY DEF QueueInv, CapturesSound
      <3>2. CASE d = c
        BY <1>1, <1>2, <1>3, <2>2, <3>1, <3>2 DEF CaptureSound, CaptureFits
      <3>3. CASE d # c
        <4>1. capture'[d] = capture[d]
          BY <1>2, <3>3
        <4>. QED
          BY <1>3, <3>1, <4>1 DEF CaptureSound, CaptureFits
      <3>. QED
        BY <3>2, <3>3
    <2>. QED
      BY <2>1, <2>3 DEF CapturesSound
  <1>5. ListsStand' /\ NothingForgotten'
    <2>1. CASE scope = who
      <3>1. /\ jobs' = Fixed(c) /\ Persist(scope, Fixed(c))
            /\ flush' = Flushed(flush, Fixed(c), scope)
        BY <2>1 DEF Located
      <3>. QED
        BY <1>1, <1>3, <2>1, <3>1, FixKeepsLists
    <2>2. CASE scope # who
      BY <1>3, <2>2, ListsStay DEF Located, outboxVars
    <2>. QED
      BY <2>1, <2>2
  <1>. QED
    BY <1>4, <1>5 DEF QueueInv

LEMMA StrayLocatedKeeps ==
  ASSUME QueueInv, NEW c \in Submission, NEW p \in Person, StrayLocated(c, p)
  PROVE  QueueInv'
  <1>1. /\ <<c, p>> \in strays /\ strays' \in SUBSET strays
        /\ UNCHANGED <<who, scope, capture, dropped, author, post, keeper, located>>
    BY DEF StrayLocated, quickVars
  <1>. Bearer' = Bearer /\ Misplaced' = Misplaced /\ SameBearers
    BY <1>1, BearersStay DEF SameBearers
  <1>2. scope \in Person /\ scope # Unknown /\ (c \in Misplaced \/ Bearer[c] \in {Unknown, p})
    BY <1>1 DEF QueueInv, QueueTypeOK, ListsStand, CapturesSound, CaptureSound, CaptureFits
  <1>3. CASE p = who
    <2>1. /\ jobs' = Fixed(c) /\ Persist(scope, Fixed(c))
          /\ flush' = Flushed(flush, Fixed(c), scope)
      BY <1>3 DEF StrayLocated
    <2>2. ASSUME NEW i \in DOMAIN jobs, jobs[i].id = c
          PROVE  scope = who \/ c \in Misplaced
      <3>1. jobs \in Seq(JobOf(keeper, Misplaced, scope))
        BY DEF QueueInv, ListsStand
      <3>2. keeper[c] = scope
        BY <2>2, <3>1, JobOfList
      <3>3. Bearer[c] = scope
        BY <1>2, <3>2 DEF Bearer
      <3>. QED
        BY <1>2, <1>3, <3>3
    <2>3. ListsStand' /\ NothingForgotten'
      BY <1>1, <1>2, <2>1, <2>2, FixKeepsLists
    <2>. QED
      BY <1>1, <2>3, CapturesStay DEF QueueInv
  <1>4. CASE p # who
    <2>1. UNCHANGED <<jobs, stored, refused, flush>>
      BY <1>4 DEF StrayLocated
    <2>2. ListsStand' /\ NothingForgotten'
      BY <1>1, <1>2, <2>1 DEF QueueInv, ListsStand, NothingForgotten
    <2>. QED
      BY <1>1, <2>2, CapturesStay DEF QueueInv
  <1>. QED
    BY <1>3, <1>4

LEMMA CaptureGoesKeeps ==
  ASSUME QueueInv, NEW c \in Submission, StopCapture(c) \/ LocateFails(c)
  PROVE  QueueInv'
  <1>1. UNCHANGED <<who, scope, outboxVars, strays, author, post, keeper, located>>
    BY DEF StopCapture, LocateFails, quickVars, outboxVars
  <1>. Bearer' = Bearer /\ Misplaced' = Misplaced
    BY <1>1, BearersStay
  <1>2. Begun(capture[c])
    BY DEF StopCapture, LocateFails, Begun
  <1>3. /\ capture' \in [Submission -> Capture]
        /\ capture'[c].active => capture[c].active
        /\ capture'[c].fix = capture[c].fix
        /\ \A d \in Submission \ {c} : capture'[d] = capture[d]
    <2>1. capture \in [Submission -> Capture]
      BY DEF QueueInv, QueueTypeOK
    <2>2. \/ capture' = [capture EXCEPT ![c].active = FALSE]
          \/ capture' = [capture EXCEPT ![c].asking = FALSE]
      BY DEF StopCapture, LocateFails
    <2>. QED
      BY <2>1, <2>2 DEF Capture
  <1>4. ASSUME NEW d \in Submission
        PROVE  CaptureSound(d)'
    <2>1. CaptureSound(d)
      BY DEF QueueInv, CapturesSound
    <2>2. CASE d = c
      BY <1>1, <1>2, <1>3, <2>1, <2>2 DEF CaptureSound, CaptureFits
    <2>3. CASE d # c
      <3>1. capture'[d] = capture[d]
        BY <1>3, <2>3
      <3>. QED
        BY <1>1, <2>1, <3>1 DEF CaptureSound, CaptureFits
    <2>. QED
      BY <2>2, <2>3
  <1>5. QueueTypeOK'
    BY <1>1, <1>3 DEF QueueInv, QueueTypeOK
  <1>. QED
    BY <1>1, <1>4, <1>5, ListsStay DEF QueueInv, CapturesSound

(* The job whose position arrived leaves the list.                         *)
LEMMA SavedKeeps ==
  ASSUME QueueInv, Saved
  PROVE  QueueInv'
  <1>. DEFINE job == Head(flush.todo)
  <1>. DEFINE list == IF flush.stale THEN jobs ELSE Without(jobs, job.id)
  <1>1. /\ flush.todo # <<>> /\ located' = located \cup {job.id}
        /\ jobs' = list /\ Persist(scope, list)
        /\ flush' = Rest(Tail(flush.todo), list, flush.stale, scope)
        /\ UNCHANGED <<who, scope, capture, strays, dropped>> /\ SameBearers
    BY DEF Saved, SameBearers
  <1>2. scope \in Person
    BY <1>1 DEF QueueInv, QueueTypeOK, ListsStand, NoFlush
  <1>3. /\ list \in Seq(JobOf(keeper, Misplaced, scope))
        /\ Ids(jobs) \ {job.id} \subseteq Ids(list)
    <2>1. jobs \in Seq(JobOf(keeper, Misplaced, scope))
      BY DEF QueueInv, ListsStand
    <2>. HIDE DEF job
    <2>. QED
      BY <2>1, WithoutKeeps
  <1>. HIDE DEF list
  <1>4. flush' \in Going(WellJob(keeper, Misplaced))
    <2>1. flush.todo \in Seq(WellJob(keeper, Misplaced)) /\ flush.stale \in BOOLEAN
      BY DEF QueueInv, ListsStand, Going
    <2>2. Tail(flush.todo) \in Seq(WellJob(keeper, Misplaced))
      BY <1>1, <2>1, HeadTailProperties
    <2>3. list \in Seq(WellJob(keeper, Misplaced))
      BY <1>3, ListIsWell
    <2>. QED
      BY <1>1, <2>1, <2>2, <2>3, RestIsGoing
  <1>5. located \subseteq located' /\ Ids(jobs) \ located' \subseteq Ids(list)
    BY <1>1, <1>3
  <1>6. ListsStand' /\ NothingForgotten'
    BY <1>1, <1>2, <1>3, <1>4, <1>5, ListChanges
  <1>. QED
    BY <1>1, <1>6, CapturesStay DEF QueueInv

LEMMA SaveFailsKeeps ==
  ASSUME QueueInv, NEW arrives \in BOOLEAN, SaveFails(arrives)
  PROVE  QueueInv'
  <1>1. /\ flush.todo # <<>> /\ located \subseteq located'
        /\ flush' = Rest(Tail(flush.todo), jobs, flush.stale, scope)
        /\ UNCHANGED <<who, scope, jobs, capture, strays, stored, refused, dropped>>
        /\ SameBearers
    BY DEF SaveFails, SameBearers
  <1>. keeper' = keeper /\ Misplaced' = Misplaced
    BY <1>1, BearersStay DEF SameBearers
  <1>2. scope # Unknown
    BY <1>1 DEF QueueInv, ListsStand, NoFlush
  <1>3. flush' \in Going(WellJob(keeper, Misplaced))
    <2>1. flush.todo \in Seq(WellJob(keeper, Misplaced)) /\ flush.stale \in BOOLEAN
      BY DEF QueueInv, ListsStand, Going
    <2>2. Tail(flush.todo) \in Seq(WellJob(keeper, Misplaced))
      BY <1>1, <2>1, HeadTailProperties
    <2>3. jobs \in Seq(WellJob(keeper, Misplaced))
      BY ListIsWell DEF QueueInv, ListsStand
    <2>. QED
      BY <1>1, <2>1, <2>2, <2>3, RestIsGoing
  <1>4. ListsStand'
    BY <1>1, <1>2, <1>3 DEF QueueInv, ListsStand
  <1>5. NothingForgotten'
    BY <1>1 DEF QueueInv, NothingForgotten
  <1>. QED
    BY <1>1, <1>4, <1>5, CapturesStay DEF QueueInv

LEMMA SignInKeeps ==
  ASSUME QueueInv, NEW p \in Person, SignIn(p)
  PROVE  QueueInv'
  <1>1. /\ who' = p /\ capture' = [c \in Submission |-> [capture[c] EXCEPT !.active = FALSE]]
        /\ UNCHANGED <<scope, outboxVars, strays, author, post, keeper, located>>
    BY DEF SignIn, quickVars, outboxVars
  <1>. Bearer' = Bearer /\ Misplaced' = Misplaced
    BY <1>1, BearersStay
  <1>2. ASSUME NEW c \in Submission
        PROVE  /\ capture'[c] \in Capture
               /\ ~capture'[c].active /\ capture'[c].fix = capture[c].fix
               /\ Begun(capture'[c]) => Begun(capture[c])
    <2>1. capture[c] \in Capture
      BY DEF QueueInv, QueueTypeOK
    <2>2. capture'[c] = [capture[c] EXCEPT !.active = FALSE]
      BY <1>1
    <2>. QED
      BY <2>1, <2>2 DEF Capture, Begun
  <1>3. capture' \in [Submission -> Capture]
    BY <1>1, <1>2
  <1>4. ASSUME NEW c \in Submission
        PROVE  CaptureSound(c)'
    BY <1>1, <1>2 DEF QueueInv, CapturesSound, CaptureSound, CaptureFits
  <1>5. QueueTypeOK'
    BY <1>1, <1>3 DEF QueueInv, QueueTypeOK
  <1>. QED
    BY <1>1, <1>4, <1>5, ListsStay DEF QueueInv, CapturesSound

LEMMA ReloadKeeps ==
  ASSUME QueueInv, Reload
  PROVE  QueueInv'
  <1>1. /\ scope' = Unknown /\ jobs' = <<>> /\ strays' = {} /\ flush' = NoFlush
        /\ capture' = [c \in Submission |-> NoCapture]
        /\ dropped' = dropped \cup LostJobs /\ post' = {}
        /\ UNCHANGED <<who, stored, refused, author, keeper, located>>
    BY DEF Reload
  <1>. Bearer' = Bearer /\ Misplaced' = Misplaced
    BY <1>1, BearersStay
  <1>2. ListsStand'
    BY <1>1, EmptyIsList DEF QueueInv, ListsStand
  <1>3. ASSUME NEW c \in Submission, keeper[c] # Unknown, c \notin located
        PROVE  c \in Ids(stored[keeper[c]]) \/ (refused /\ c \in dropped \cup LostJobs)
    BY <1>3 DEF QueueInv, NothingForgotten, LostJobs
  <1>6. NothingForgotten'
    BY <1>1, <1>3 DEF NothingForgotten
  <1>4. CapturesSound'
    BY <1>1 DEF CapturesSound, CaptureSound, CaptureFits, NoCapture, Begun
  <1>5. QueueTypeOK'
    BY <1>1, NoCaptureTyped DEF QueueInv, QueueTypeOK
  <1>. QED
    BY <1>2, <1>6, <1>4, <1>5 DEF QueueInv

LEMMA QueueInitHolds ==
  ASSUME QueueInit
  PROVE  QueueInv
  <1>1. ListsStand
    BY EmptyIsList DEF QueueInit, ListsStand
  <1>2. QueueTypeOK
    BY NoCaptureTyped DEF QueueInit, QueueTypeOK
  <1>3. CapturesSound
    BY DEF QueueInit, CapturesSound, CaptureSound, CaptureFits, NoCapture, Begun
  <1>4. NothingForgotten
    BY DEF QueueInit, NothingForgotten
  <1>. QED
    BY <1>1, <1>2, <1>3, <1>4 DEF QueueInv

LEMMA QueueStep ==
  ASSUME QueueInv, [QueueNext]_queueVars
  PROVE  QueueInv'
  <1>1. CASE UNCHANGED queueVars
    BY <1>1, BearersStay DEF queueVars, outboxVars, quickVars, QueueInv, QueueTypeOK, ListsStand, CapturesSound, CaptureSound,
                CaptureFits, NothingForgotten
  <1>2. ASSUME NEW c \in Submission, StartCapture(c)
        PROVE  QueueInv'
    BY <1>2, StartCaptureKeeps
  <1>3. ASSUME NEW c \in Submission, StopCapture(c) \/ LocateFails(c)
        PROVE  QueueInv'
    BY <1>3, CaptureGoesKeeps
  <1>4. ASSUME NEW c \in Submission, NEW b \in BOOLEAN, Enqueue(c, b)
        PROVE  QueueInv'
    BY <1>4, EnqueueKeeps
  <1>5. ASSUME NEW c \in Submission, NEW b \in BOOLEAN, PhotoFinished(c, b)
        PROVE  QueueInv'
    BY <1>5, PhotoFinishedKeeps
  <1>6. ASSUME NEW c \in Submission, Located(c)
        PROVE  QueueInv'
    BY <1>6, LocatedKeeps
  <1>7. ASSUME NEW c \in Submission, NEW p \in Person, StrayLocated(c, p)
        PROVE  QueueInv'
    BY <1>7, StrayLocatedKeeps
  <1>8. ASSUME NEW b \in BOOLEAN, SaveFails(b)
        PROVE  QueueInv'
    BY <1>8, SaveFailsKeeps
  <1>9. ASSUME NEW p \in Person, SignIn(p)
        PROVE  QueueInv'
    BY <1>9, SignInKeeps
  <1>10. CASE BecomeCalm
    <2>1. /\ UNCHANGED <<who, scope, outboxVars, capture, strays, author, keeper, located>>
          /\ SameBearers
      BY <1>10 DEF BecomeCalm, outboxVars, quickVars, SameBearers
    <2>2. strays' \in SUBSET strays
      BY <2>1
    <2>. QED
      BY <2>1, <2>2, ListsStay, CapturesStay DEF QueueInv
  <1>11. ASSUME NEW c \in Submission, PostInbound(c) \/ PostFails(c)
         PROVE  QueueInv'
    BY <1>11, SubmitKeeps, PostFailsKeeps
  <1>. QED
    BY <1>1, <1>2, <1>3, <1>4, <1>5, <1>6, <1>7, <1>8, <1>9, <1>10, <1>11, RetryKeeps, SavedKeeps,
       ReloadKeeps DEF QueueNext

(* Once enqueued, whatever reload, change of account, upload or lost reply *)
(* comes, an inbound without a location is in the stored list it was put   *)
(* in, unless a store was refused and the memory gone since; and no list   *)
(* has a position of anyone but the author of its inbound, of those that   *)
(* were put in their author's list: for any number of accounts and of      *)
(* submissions.                                                            *)
THEOREM QueueKeepsLists == QueueSpec => []ListsAreTheAuthors
  <1>1. QueueInv => ListsAreTheAuthors
    <2>. SUFFICES ASSUME QueueInv
                  PROVE  FixesAreTheAuthors
      BY DEF QueueInv, ListsAreTheAuthors
    <2>. SUFFICES ASSUME NEW p \in Person, NEW list \in {stored[p], jobs, flush.todo},
                         NEW i \in DOMAIN list,
                         list[i].id \notin Misplaced
                  PROVE  list[i].fix \in {Unknown, author[list[i].id]}
      BY DEF FixesAreTheAuthors
    <2>1. list \in Seq(WellJob(keeper, Misplaced))
      BY ListIsWell DEF QueueInv, ListsStand, Going
    <2>2. list[i] \in WellJob(keeper, Misplaced)
      BY <2>1, ElementOfSeq, LenProperties
    <2>3. list[i].id \in Submission /\ list[i].fix \in {Unknown, keeper[list[i].id]}
      BY <2>2 DEF WellJob, Job
    <2>. QED
      BY <2>3 DEF Misplaced
  <1>. QED
    BY <1>1, QueueInitHolds, QueueStep, PTL DEF QueueSpec

=============================================================================
