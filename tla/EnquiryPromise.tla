-------------------------- MODULE EnquiryPromise --------------------------
(***************************************************************************)
(* What the enquiry queue promises of each enquiry, tables, locks and      *)
(* transactions aside: it is decided, by one of three decisions, and what  *)
(* the visitor asked for is then on one lead, or on none if it was         *)
(* acknowledged.  Only a convert decides it again: one made for another    *)
(* enquiry, still open, that takes it along.  A lead that is deleted takes *)
(* its enquiries with it.                                                  *)
(***************************************************************************)
CONSTANTS Enquiry, Customer

VARIABLES
  stage,  \* [Enquiry -> {"absent", "open", "attached", "converted", "acknowledged"}]
  place   \* [Enquiry -> SUBSET Customer], the leads that hold the enquiry

vars == <<stage, place>>

Init ==
  /\ stage = [e \in Enquiry |-> "absent"]
  /\ place = [e \in Enquiry |-> {}]

Ask(e) ==
  /\ stage[e] = "absent"
  /\ stage' = [stage EXCEPT ![e] = "open"]
  /\ UNCHANGED place

(* To a customer known already.                                            *)
Attach(e, c) ==
  /\ stage[e] = "open"
  /\ stage' = [stage EXCEPT ![e] = "attached"]
  /\ place' = [place EXCEPT ![e] = {c}]

(* Into a new one, together with others of the same visitor.               *)
Convert(S, c) ==
  /\ \E e \in S : stage[e] = "open"
  /\ \A e \in S : stage[e] # "absent"
  /\ \A e \in Enquiry : c \notin place[e]
  /\ stage' = [e \in Enquiry |-> IF e \in S THEN "converted" ELSE stage[e]]
  /\ place' = [e \in Enquiry |-> IF e \in S THEN place[e] \union {c} ELSE place[e]]

Dismiss(e) ==
  /\ stage[e] = "open"
  /\ stage' = [stage EXCEPT ![e] = "acknowledged"]
  /\ UNCHANGED place

Forget(c) ==
  /\ place' = [e \in Enquiry |-> place[e] \ {c}]
  /\ UNCHANGED stage

Next ==
  \/ \E e \in Enquiry : Ask(e) \/ Dismiss(e) \/ \E c \in Customer : Attach(e, c)
  \/ \E c \in Customer, S \in SUBSET Enquiry : Convert(S, c)
  \/ \E c \in Customer : Forget(c)

Spec == Init /\ [][Next]_vars

=============================================================================
