---------------------------- MODULE MailPromise ----------------------------
(***************************************************************************)
(* What the mail pipeline promises about each email, with no dispatchers,  *)
(* requests or SQL: it is suggested, queued, and then delivered once,      *)
(* withdrawn, or failed; a failed one may be queued again or withdrawn,    *)
(* a delivered or withdrawn one is final.  The promise holds while all is  *)
(* calm: from the first crash, stall or database error on, it is void.     *)
(***************************************************************************)
EXTENDS Naturals

CONSTANT Letter

VARIABLES
  stage,  \* [Letter -> Stage]
  copies, \* [Letter -> Nat], what reached the recipient
  calm    \* no misfortune has happened yet

Stage == {"absent", "draft", "queued", "delivered", "withdrawn", "failed"}

Init ==
  /\ stage = [l \in Letter |-> "absent"]
  /\ copies = [l \in Letter |-> 0]

Move(l, from, to) ==
  /\ stage[l] \in from
  /\ stage' = [stage EXCEPT ![l] = to]

Suggest(l) == Move(l, {"absent"}, "draft") /\ UNCHANGED copies
Queue(l)   == Move(l, {"absent", "draft", "failed"}, "queued") /\ UNCHANGED copies
Fail(l)    == Move(l, {"absent", "queued"}, "failed") /\ UNCHANGED copies

Deliver(l) ==
  /\ Move(l, {"queued"}, "delivered")
  /\ copies' = [copies EXCEPT ![l] = @ + 1]

(* By staff, by a newer draft, by expiry, by the do-not-mail list.         *)
Withdraw(S) ==
  /\ \A l \in S : stage[l] \in {"draft", "queued", "failed"}
  /\ stage' = [l \in Letter |-> IF l \in S THEN "withdrawn" ELSE stage[l]]
  /\ UNCHANGED copies

Next ==
  \/ \E l \in Letter : Suggest(l) \/ Queue(l) \/ Fail(l) \/ Deliver(l)
  \/ \E S \in SUBSET Letter : Withdraw(S)

Spec == Init /\ [][calm' => Next]_<<stage, copies>>

=============================================================================
