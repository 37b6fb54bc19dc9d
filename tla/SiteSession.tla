---------------------------- MODULE SiteSession ----------------------------
(***************************************************************************)
(* The CRM's client of the site backend (site-api.service.ts): one service *)
(* account, one cached token, one login at a time, and a request that is   *)
(* refused is sent once more.  The site backend is known by what the       *)
(* client makes of its replies.                                            *)
(***************************************************************************)
EXTENDS Naturals

CONSTANT Caller  \* the requests there are, each made once

VARIABLES
  token,    \* this.token: 0 is null, n the n-th the site has issued
  login,    \* loginInFlight is there
  call,     \* [Caller -> record]: carries: the token; again: it is the retry
  issued,   \* tokens issued so far
  expired,  \* the tokens up to this one are good no more
  handled,  \* history: [Caller -> Nat]: how often the site has done what is asked
  steady    \* the site answers and lets no token expire, from now on

siteVars == <<token, login, call, issued, expired, handled, steady>>

NewCall == [at |-> "new", carries |-> 0, again |-> FALSE, late |-> FALSE]

SiteInit ==
  /\ token = 0
  /\ login = FALSE
  /\ call = [c \in Caller |-> NewCall]
  /\ issued = 0
  /\ expired = 0
  /\ handled = [c \in Caller |-> 0]
  /\ steady = FALSE

Ended == {"served", "refused", "failed"}

-----------------------------------------------------------------------------

(* request, uploadImage: with the token there is, or after the login, a    *)
(* new one if none is under way.                                           *)
BeginCall(c) ==
  /\ call[c].at = "new"
  /\ call' = [call EXCEPT ![c].at = IF token = 0 THEN "login" ELSE "sent",
                          ![c].carries = token, ![c].late = steady]
  /\ login' = (login \/ token = 0)
  /\ UNCHANGED <<token, issued, expired, handled, steady>>

(* The reply of the login; who waited for it sends its request.            *)
LoginReply ==
  /\ login
  /\ issued' = issued + 1
  /\ token' = issued + 1
  /\ login' = FALSE
  /\ call' = [c \in Caller |->
       IF call[c].at = "login" THEN [call[c] EXCEPT !.at = "sent", !.carries = issued + 1]
       ELSE call[c]]
  /\ UNCHANGED <<expired, handled, steady>>

(* Mutant: who waited for the login is not told.                           *)
LoginFailsSilently ==
  /\ login
  /\ ~steady
  /\ login' = FALSE
  /\ UNCHANGED <<token, call, issued, expired, handled, steady>>

(* An error, or 10 seconds without an answer.                              *)
LoginFails ==
  /\ login
  /\ ~steady
  /\ login' = FALSE
  /\ call' = [c \in Caller |->
       IF call[c].at = "login" THEN [call[c] EXCEPT !.at = "failed"] ELSE call[c]]
  /\ UNCHANGED <<token, issued, expired, handled, steady>>

(* The site's answer: 401, or what it has done.                            *)
Handle(c) ==
  /\ call[c].at = "sent"
  /\ IF call[c].carries > expired
       THEN /\ handled' = [handled EXCEPT ![c] = @ + 1]
            /\ call' = [call EXCEPT ![c].at = "ok"]
       ELSE /\ call' = [call EXCEPT ![c].at = "denied"]
            /\ UNCHANGED handled
  /\ UNCHANGED <<token, login, issued, expired, steady>>

Serve(c) ==
  /\ call[c].at = "ok"
  /\ call' = [call EXCEPT ![c].at = "served"]
  /\ UNCHANGED <<token, login, issued, expired, handled, steady>>

(* A 401 throws the token away, even if it is newer than the one refused.  *)
Retries(c) == ~call[c].again

Denied(c) ==
  /\ call[c].at = "denied"
  /\ IF Retries(c)
       THEN /\ token' = 0
            /\ login' = TRUE
            /\ call' = [call EXCEPT ![c].at = "login", ![c].again = TRUE]
       ELSE /\ call' = [call EXCEPT ![c].at = "refused"]
            /\ UNCHANGED <<token, login>>
  /\ UNCHANGED <<issued, expired, handled, steady>>

(* Mutant: a request without an answer is sent again.                      *)
SentAgain(c) == [call[c] EXCEPT !.at = "sent"]

(* The request or the answer is lost, or 30 seconds pass: never retried.   *)
AfterUnreachable(c) == [call[c] EXCEPT !.at = "failed"]

Unreachable(c) ==
  /\ call[c].at \in {"sent", "ok", "denied"}
  /\ ~steady
  /\ call' = [call EXCEPT ![c] = AfterUnreachable(c)]
  /\ UNCHANGED <<token, login, issued, expired, handled, steady>>

TokenExpires ==
  /\ ~steady
  /\ expired < issued
  /\ expired' = expired + 1
  /\ UNCHANGED <<token, login, call, issued, handled, steady>>

SiteRecovers ==
  /\ ~steady
  /\ steady' = TRUE
  /\ UNCHANGED <<token, login, call, issued, expired, handled>>

SiteNext ==
  \/ \E c \in Caller : BeginCall(c) \/ Handle(c) \/ Serve(c) \/ Denied(c) \/ Unreachable(c)
  \/ LoginReply \/ LoginFails \/ TokenExpires \/ SiteRecovers

(* The timeouts; the answers of a site that is steady; the client's code.  *)
SiteFairness ==
  /\ WF_siteVars(LoginFails \/ (steady /\ LoginReply))
  /\ \A c \in Caller :
       WF_siteVars(Unreachable(c) \/ (steady /\ (Handle(c) \/ Serve(c) \/ Denied(c))))

SiteSpec == SiteInit /\ [][SiteNext]_siteVars /\ SiteFairness

-----------------------------------------------------------------------------

(* The site does what a request asks once at most: one that may have been  *)
(* done is not sent again, however tokens expire and logins are shared.    *)
HandledOnce == \A c \in Caller : handled[c] <= 1

(* A site that is back serves whatever is asked of it, though tokens have  *)
(* expired and logins failed meanwhile: "re-logs-in once on 401".          *)
ServedOnceSteady ==
  \A c \in Caller : call[c].late /\ call[c].at \in Ended => call[c].at = "served"

(* Both: neither too often nor in vain.                                    *)
ServedOnce == HandledOnce /\ ServedOnceSteady

(* No request waits for ever, for a login or for its answer.               *)
EveryCallEnds ==
  \A c \in Caller : (call[c].at # "new") ~> (call[c].at \in Ended)

=============================================================================
