------------------------------ MODULE ListPage ------------------------------
(***************************************************************************)
(* The list of properties in the browser (properties/page.tsx with         *)
(* use-properties-list.ts, and useClampedPage of use-persisted-state.ts):  *)
(* every change of the view or page fetches anew, the fetch before is      *)
(* abandoned, and a page past the end gives way to the last one.           *)
(*                                                                         *)
(* A page has one row.                                                     *)
(***************************************************************************)
EXTENDS Integers

CONSTANTS
  View,     \* tab, search and filters
  MaxSize,  \* bound on the rows of a view
  MaxMoves  \* bound on what the user does

ASSUME MaxSizeAssumption == MaxSize \in Nat
ASSUME MaxMovesAssumption == MaxMoves \in Nat

VARIABLES
  size,     \* [View -> Nat]: the rows there are, at the site backend
  asks,     \* what the page asks for: view and page; mounted
  answer,   \* totalCount, and what the answer on the screen was to
  fetches,  \* the fetches whose reply has not come
  loading,  \* isLoading
  action,   \* the row action under way: its kind, and the view and page it began on
  astray,   \* history: since the page last asked, a row action fetched what it began on
  moves,    \* history: what the user did so far
  quiet     \* nobody changes the rows any more

listVars == <<size, asks, answer, fetches, loading, action, astray, moves, quiet>>

Page == 0..MaxSize
Place == [view : View, page : Page]

NoAction == [kind |-> "none", place |-> [page |-> 0]]

ListInit ==
  /\ size \in [View -> Page]
  /\ asks = [mounted |-> FALSE, place |-> [page |-> 0]]
  /\ answer = [total |-> 0, to |-> [page |-> 0]]
  /\ fetches = {}
  /\ loading = TRUE
  /\ action = NoAction
  /\ astray = FALSE
  /\ moves = 0
  /\ quiet = FALSE

-----------------------------------------------------------------------------

Asked(place) == [place |-> place, aborted |-> FALSE, replied |-> FALSE, total |-> 0]

(* fetchProperties: the fetch before is told that nobody waits for it, and *)
(* what it will bring is of no interest.                                   *)
Fetched(fs, place) == {[Asked(f.place) EXCEPT !.aborted = TRUE] : f \in fs} \cup {Asked(place)}

Move == moves < MaxMoves /\ moves' = moves + 1

(* The effect of a new view or page.                                       *)
Show(place, fs) ==
  /\ asks' = [mounted |-> TRUE, place |-> place]
  /\ fetches' = Fetched(fs, place)
  /\ loading' = TRUE
  /\ astray' = FALSE

LastPage(total) == IF total = 0 THEN 0 ELSE total - 1

(* Mutant: the page stays.                                                 *)
UnclampedPage(page, total) == page

(* useClampedPage, when a fetch has settled or the count has changed.      *)
ClampedPage(page, total) == IF page > LastPage(total) THEN LastPage(total) ELSE page

Settled(total, fs) ==
  LET place == [asks.place EXCEPT !.page = ClampedPage(@, total)] IN
  IF place # asks.place THEN Show(place, fs)
  ELSE /\ fetches' = fs
       /\ loading' = FALSE
       /\ UNCHANGED <<asks, astray>>

(* The page opens where this browser tab left it.                          *)
Mount(place) ==
  /\ ~asks.mounted
  /\ Show(place, {})
  /\ UNCHANGED <<size, answer, action, moves, quiet>>

ShowView(v) ==
  /\ asks.mounted
  /\ v # asks.place.view
  /\ Move
  /\ Show([view |-> v, page |-> 0], fetches)
  /\ UNCHANGED <<size, answer, action, quiet>>

(* The pages on offer are those of the count on the screen.                *)
GoPage(page) ==
  /\ asks.mounted
  /\ page # asks.place.page
  /\ page <= LastPage(answer.total)
  /\ Move
  /\ Show([asks.place EXCEPT !.page = page], fetches)
  /\ UNCHANGED <<size, answer, action, quiet>>

(* Toggle, approve or delete the row; the last takes it out of the view,   *)
(* and the second, in the review queue.                                    *)
Act(kind) ==
  /\ asks.mounted
  /\ action = NoAction
  /\ answer.total > 0
  /\ size[asks.place.view] > 0
  /\ kind = "toggle" \/ ~quiet
  /\ Move
  /\ action' = [kind |-> kind, place |-> asks.place]
  /\ size' = IF kind = "toggle" THEN size ELSE [size EXCEPT ![asks.place.view] = @ - 1]
  /\ UNCHANGED <<asks, answer, fetches, loading, astray, quiet>>

(* handleToggleVisibility, handleApprove: the fetch is of what was shown   *)
(* when the action began.                                                  *)
Refetch ==
  /\ action.kind = "toggle" \/ (action.kind = "approve" /\ action.place.page = 0)
  /\ action' = NoAction
  /\ fetches' = Fetched(fetches, action.place)
  /\ loading' = TRUE
  /\ astray' = (action.place # asks.place)
  /\ UNCHANGED <<size, asks, answer, moves, quiet>>

(* handleApprove, of the only row of a later page: resetPage.              *)
Approved ==
  /\ action.kind = "approve"
  /\ action.place.page > 0
  /\ action' = NoAction
  /\ Show([asks.place EXCEPT !.page = 0], fetches)
  /\ UNCHANGED <<size, answer, moves, quiet>>

(* deleteBulk: what it took away is subtracted from the count there is.    *)
Deleted ==
  LET total == IF answer.total > 0 THEN answer.total - 1 ELSE 0 IN
  /\ action.kind = "delete"
  /\ action' = NoAction
  /\ answer' = [answer EXCEPT !.total = total]
  /\ IF loading THEN UNCHANGED <<asks, fetches, loading, astray>> ELSE Settled(total, fetches)
  /\ UNCHANGED <<size, moves, quiet>>

ActionFails ==
  /\ action # NoAction
  /\ action' = NoAction
  /\ UNCHANGED <<size, asks, answer, fetches, loading, astray, moves, quiet>>

-----------------------------------------------------------------------------

Reply(f) ==
  /\ f \in fetches
  /\ ~f.replied /\ ~f.aborted
  /\ fetches' = (fetches \ {f})
                  \cup {[f EXCEPT !.replied = TRUE, !.total = size[f.place.view]]}
  /\ UNCHANGED <<size, asks, answer, loading, action, astray, moves, quiet>>

(* Mutant: replies to what is no longer asked are shown.                   *)
NeverIgnored(f) == FALSE

Ignored(f) == f.aborted

(* The reply arrives, or the failure: an empty list.                       *)
Arrives(f, total) ==
  /\ f \in fetches
  /\ IF Ignored(f)
       THEN fetches' = fetches \ {f} /\ UNCHANGED <<asks, answer, loading, astray>>
       ELSE /\ answer' = [total |-> total, to |-> f.place]
            /\ Settled(total, fetches \ {f})
  /\ UNCHANGED <<size, action, moves, quiet>>

FetchArrives(f) == f.replied /\ Arrives(f, f.total)

FetchFails(f) == Arrives(f, 0)

OthersChange(v, n) ==
  /\ ~quiet
  /\ n \in Page
  /\ size' = [size EXCEPT ![v] = n]
  /\ UNCHANGED <<asks, answer, fetches, loading, action, astray, moves, quiet>>

BecomeQuiet ==
  /\ ~quiet
  /\ quiet' = TRUE
  /\ UNCHANGED <<size, asks, answer, fetches, loading, action, astray, moves>>

ListNext ==
  \/ \E place \in Place : Mount(place)
  \/ \E v \in View : ShowView(v) \/ \E n \in {size[v] - 1, size[v] + 1} : OthersChange(v, n)
  \/ \E page \in Page : GoPage(page)
  \/ \E kind \in {"toggle", "approve", "delete"} : Act(kind)
  \/ Refetch \/ Approved \/ Deleted \/ ActionFails
  \/ \E f \in fetches : Reply(f) \/ FetchArrives(f) \/ FetchFails(f)
  \/ BecomeQuiet

(* Requests end, well or not.                                              *)
ListFairness ==
  /\ WF_listVars(Refetch \/ Approved \/ Deleted \/ ActionFails)
  /\ WF_listVars(\E f \in fetches : ~Ignored(f) /\ (FetchArrives(f) \/ FetchFails(f)))

ListSpec == ListInit /\ [][ListNext]_listVars /\ ListFairness

-----------------------------------------------------------------------------

(* A list that is not loading shows what its tab, filters and page say, or *)
(* failed to, in whatever order replies come, unless a row action that     *)
(* began elsewhere has fetched since; and its page is one of those it has. *)
ShowsWhatItSays ==
  ~loading =>
    /\ astray \/ answer.to = asks.place
    /\ asks.place.page <= LastPage(answer.total)

(* "once the fetch settles, step back to the last real page"               *)
(* (useClampedPage): where nobody changes the rows, a list that asks for   *)
(* them comes to rest on a page there is, unless the last to ask was a row *)
(* action that began elsewhere: then it counts the rows of that place.     *)
RestsOnARealPage ==
  (quiet /\ \E f \in fetches : ~f.aborted /\ ~f.replied)
    ~> (~loading /\ (astray \/ asks.place.page <= LastPage(size[asks.place.view])))

=============================================================================
