------------------------------- MODULE MCDuty -------------------------------
(***************************************************************************)
(* The parts that must come to an end, as one specification for TLC: they  *)
(* share no variable, no property relates two of them, and `duty' says     *)
(* which moves, as in MCDesk.  The others stand still, in initial states   *)
(* that enable no action they are fair to.                                 *)
(*                                                                         *)
(* The location queue moves twice: with two people, one form and a storage *)
(* that may refuse, and with one person, two forms and one that does not.  *)
(* So does the list: with two moves of the user among the changes of       *)
(* others, and with three while only the user's change the rows.           *)
(***************************************************************************)
EXTENDS LocationQueue, SiteSession, ListPage, ConnectionPool

CONSTANTS i1, i2, p1

VARIABLE duty

dutyVars == <<queueVars, siteVars, listVars, poolVars, duty>>

DutyInit ==
  /\ QueueInit /\ SiteInit /\ ListInit /\ PoolInit
  /\ duty \in {"people", "forms", "site", "list", "moves", "pool"}
  /\ duty \in {"people", "forms"} \/ who = p1
  /\ duty \in {"list", "moves"} \/ \A v \in View : size[v] = 0
  /\ duty = "pool" \/ \A c \in Notifier : notices[c] = 0

Holds(duties, vars) == IF duty \in duties THEN TRUE ELSE UNCHANGED vars

DutyNext ==
  /\ \/ duty = "people" /\ QueueNext /\ capture'[i2] = NoCapture
     \/ duty = "forms" /\ QueueNext /\ who' = who /\ ~refused'
     \/ duty = "site" /\ SiteNext
     \/ duty = "list" /\ ListNext /\ moves' < MaxMoves
     \/ duty = "moves" /\ ListNext /\ (size' # size => action' # action)
     \/ duty = "pool" /\ PoolNext
  /\ Holds({"people", "forms"}, queueVars) /\ Holds({"site"}, siteVars)
  /\ Holds({"list", "moves"}, listVars) /\ Holds({"pool"}, poolVars)
  /\ UNCHANGED duty

DutySpec ==
  /\ DutyInit /\ [][DutyNext]_dutyVars
  /\ QueueFairness /\ SiteFairness /\ ListFairness /\ PoolFairness

=============================================================================
