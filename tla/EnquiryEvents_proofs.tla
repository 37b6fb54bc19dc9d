----------------------- MODULE EnquiryEvents_proofs -----------------------
(***************************************************************************)
(* Theorems about EnquiryEvents, for any number of staff, leads, numbers   *)
(* and enquiries.                                                          *)
(***************************************************************************)
EXTENDS EnquiryEvents, TLAPS

-----------------------------------------------------------------------------
(* The inductive invariant.                                                *)

(* What a decision carries from step to step, whatever the tables hold.    *)
Shape(t) ==
  /\ t.at = "idle" => t = NoTransaction
  /\ t.at # "idle" => t.event \in EventId /\ t.request # "none"
  /\ t.at \in {"insert", "save"} => t.request = "convert" /\ t.event \in t.siblings
  /\ t.at = "attach" => t.request # "acknowledge"
  /\ t.at = "acknowledge" => t.request = "acknowledge"
  /\ t.at = "notify" => t.request # "convert" /\ t.owner # None
  /\ t.at \in {"find", "insert"} => t.lead = None
  /\ t.at \in {"attach", "save", "notify"} => t.lead # None
  /\ t.at = "commit" /\ t.request # "acknowledge" => t.lead # None
  /\ t.at \in {"find", "attach", "insert", "acknowledge"} => t.saved = {}
  /\ t.at \in {"notify", "commit"} => t.event \in t.saved
  /\ t.saved \subseteq t.siblings \union {t.event}
  /\ t.siblings # {} => t.at \in {"insert", "save", "commit"} /\ t.request = "convert"

Stored(e) == event[e].status \notin {"absent", "arriving"}

(* What it knows of the tables, and its locks keep true: its event is open *)
(* and keeps its match, its lead stays until the commit, and a lead that   *)
(* is not committed yet is one it inserted for the number of its event.    *)
Grounded(t) ==
  /\ t.at # "idle" => event[t.event].status = "open"
  /\ t.at # "idle" /\ (t.request = "accept" \/ (t.request = "acknowledge" /\ t.at = "find"))
       => event[t.event].matched # None
  /\ \A e \in t.siblings : Stored(e) /\ event[e].mobile = event[t.event].mobile
  /\ t.lead # None => lead[t.lead].state # "unused"
  /\ t.at \in {"notify", "commit"} /\ t.lead # None
       => lead[t.lead].state \in {"inserted", "live"}
  /\ t.at = "save" \/ (t.at = "commit" /\ t.siblings # {}) => lead[t.lead].state = "inserted"
  /\ t.lead # None /\ lead[t.lead].state = "inserted"
       => /\ t.at \in {"save", "commit"} /\ t.request = "convert"
          /\ lead[t.lead].mobile = event[t.event].mobile

HeldBy(t) == IF t.at = "idle" THEN {} ELSE {t.event} \union t.saved

(* Row locks are exclusive, and a lead that is not committed is nobody     *)
(* else's to attach to.                                                    *)
Exclusive ==
  \A p, q \in Staff :
    p # q => /\ HeldBy(tx[p]) \intersect HeldBy(tx[q]) = {}
             /\ Creates(p) => tx[q].lead # tx[p].lead

(* The foreign key of matched_lead_id.                                     *)
MatchesLive ==
  \A e \in EventId : Stored(e) /\ event[e].matched # None => Live(event[e].matched)

(* The unique index on mobile_number.                                      *)
NumbersUnique ==
  \A k, l \in LeadId :
    /\ lead[k].state \in {"inserted", "live"} /\ lead[l].state \in {"inserted", "live"}
    /\ lead[k].mobile = lead[l].mobile
    => k = l

ConvertedOnNumber ==
  \A e \in EventId :
    Placed(e) => lead[event[e].resolved].mobile = event[e].mobile

TablesAgree == MatchesLive /\ NumbersUnique /\ ConvertedOnNumber /\ EnquiryKept /\ HistoryKept

IInv ==
  /\ TypeOK
  /\ \A p \in Staff : Shape(tx[p]) /\ Grounded(tx[p])
  /\ Exclusive
  /\ TablesAgree

-----------------------------------------------------------------------------
(* Steps of one decision that leave leads, events, inquiries and history   *)
(* alone: what its transaction becomes must have the shape, be grounded,   *)
(* and touch nobody else's locks.                                          *)

LEMMA TxStep ==
  ASSUME IInv, NEW p \in Staff, NEW t \in Transaction,
         tx' = [tx EXCEPT ![p] = t],
         UNCHANGED <<lead, event, inquiry, history, renumbered>>, notice' \subseteq Notice,
         Shape(t), Grounded(t),
         \A q \in Staff \ {p} :
           /\ HeldBy(t) \intersect HeldBy(tx[q]) = {}
           /\ Creates(q) => t.lead # tx[q].lead,
         t.lead # None /\ lead[t.lead].state = "inserted" => t.lead = tx[p].lead
  PROVE  IInv'
  <1>1. TypeOK'
    BY DEF IInv, TypeOK
  <1>2. /\ tx'[p] = t
        /\ \A q \in Staff \ {p} : tx'[q] = tx[q]
    BY DEF IInv, TypeOK
  <1>3. \A q \in Staff : Shape(tx'[q]) /\ Grounded(tx'[q])
    BY <1>2 DEF IInv
  <1>4. \A q \in Staff : (Shape(tx[q]) /\ Grounded(tx[q]))'
    BY <1>3 DEF Shape, Grounded, Stored
  <1>5. Exclusive'
    BY <1>2 DEF IInv, Exclusive, Creates
  <1>6. TablesAgree'
    BY DEF IInv, TablesAgree, MatchesLive, Stored, NumbersUnique, ConvertedOnNumber, Placed,
           EnquiryKept, HistoryKept, Live
  <1>. QED
    BY <1>1, <1>4, <1>5, <1>6 DEF IInv

LEMMA NoTransactionType == NoTransaction \in Transaction /\ NoTransaction.at = "idle"
  BY DEF NoTransaction, Transaction

(* A decision that changes nothing but where it is and what it has saved   *)
(* keeps what it holds.                                                    *)
LEMMA OthersKeepOut ==
  ASSUME IInv, NEW p \in Staff, NEW q \in Staff \ {p}
  PROVE  /\ Held(p) \intersect HeldBy(tx[q]) = {}
         /\ Held(q) = HeldBy(tx[q])
         /\ Creates(q) => tx[p].lead # tx[q].lead
  BY DEF IInv, Exclusive, Held, HeldBy, At

LEMMA TxStepSameLead ==
  ASSUME IInv, NEW p \in Staff, NEW t \in Transaction,
         tx' = [tx EXCEPT ![p] = t],
         UNCHANGED <<lead, event, inquiry, history, renumbered>>, notice' \subseteq Notice,
         Shape(t), Grounded(t), t.lead = tx[p].lead,
         \A q \in Staff \ {p} : HeldBy(t) \intersect HeldBy(tx[q]) = {}
  PROVE  IInv'
  <1>1. \A q \in Staff \ {p} : Creates(q) => t.lead # tx[q].lead
    BY OthersKeepOut
  <1>. QED
    BY <1>1, TxStep

LEMMA LockKeeps ==
  ASSUME IInv, NEW p \in Staff, NEW e \in EventId,
         NEW request \in {"convert", "accept", "acknowledge"}, LockOpenEvent(p, e, request)
  PROVE  IInv'
  <1>. DEFINE place == IF request = "acknowledge" /\ event[e].matched = None
                       THEN "acknowledge" ELSE "find"
              t == [NoTransaction EXCEPT !.at = place, !.request = request, !.event = e]
  <1>1. /\ t \in Transaction
        /\ t.at = place /\ t.request = request /\ t.event = e
        /\ t.lead = None /\ t.siblings = {} /\ t.saved = {}
    BY DEF NoTransaction, Transaction
  <1>2. /\ tx' = [tx EXCEPT ![p] = t] /\ UNCHANGED <<tables, renumbered>>
        /\ event[e].status = "open"
        /\ request = "accept" => event[e].matched # None
        /\ \A q \in Staff : e \notin Held(q)
    BY DEF LockOpenEvent, ReadWithoutLock, Locked
  <1>. HIDE DEF t
  <1>3. Shape(t)
    BY <1>1, <1>2 DEF Shape
  <1>4. Grounded(t)
    BY <1>1, <1>2 DEF Grounded
  <1>5. \A q \in Staff \ {p} : HeldBy(t) \intersect HeldBy(tx[q]) = {}
    BY <1>1, <1>2, OthersKeepOut DEF HeldBy
  <1>6. \A q \in Staff \ {p} : Creates(q) => t.lead # tx[q].lead
    BY <1>1 DEF Creates
  <1>. QED
    BY <1>1, <1>2, <1>3, <1>4, <1>5, <1>6, TxStep DEF tables, IInv, TypeOK

LEMMA FindMeanwhileKeeps ==
  ASSUME IInv, NEW p \in Staff, FindMeanwhile(p)
  PROVE  IInv'
  <1>. DEFINE m == event[tx[p].event].mobile
              found == {l \in LeadId : Live(l) /\ lead[l].mobile = m}
              insert == [tx[p] EXCEPT !.at = "insert", !.siblings = OpenSiblings(m)]
              attach == [tx[p] EXCEPT !.at = "attach", !.lead = CHOOSE l \in found : TRUE]
  <1>1. /\ tx[p] \in Transaction /\ tx[p].at = "find" /\ tx[p].request = "convert"
        /\ Shape(tx[p]) /\ Grounded(tx[p])
    BY DEF FindMeanwhile, At, IInv, TypeOK
  <1>2. UNCHANGED <<tables, renumbered>> /\ notice \subseteq Notice
    BY DEF FindMeanwhile, IInv, TypeOK
  <1>3. CASE found = {}
    <2>1. tx' = [tx EXCEPT ![p] = insert]
      BY <1>3 DEF FindMeanwhile
    <2>2. /\ insert \in Transaction
          /\ insert.at = "insert" /\ insert.siblings = OpenSiblings(m)
          /\ insert.request = tx[p].request /\ insert.event = tx[p].event
          /\ insert.lead = tx[p].lead /\ insert.saved = tx[p].saved
      BY <1>1 DEF Transaction, OpenSiblings
    <2>. HIDE DEF insert
    <2>3. Shape(insert)
      BY <1>1, <2>2 DEF Shape, Grounded, OpenSiblings
    <2>4. Grounded(insert)
      BY <1>1, <2>2 DEF Shape, Grounded, OpenSiblings, Stored
    <2>5. HeldBy(insert) = Held(p)
      BY <1>1, <2>2 DEF HeldBy, Held, At
    <2>6. \A q \in Staff \ {p} : HeldBy(insert) \intersect HeldBy(tx[q]) = {}
      BY <2>5, OthersKeepOut
    <2>. QED
      BY <1>2, <2>1, <2>2, <2>3, <2>4, <2>6, TxStepSameLead DEF tables
  <1>4. CASE found # {}
    <2>1. tx' = [tx EXCEPT ![p] = attach]
      BY <1>4 DEF FindMeanwhile
    <2>2. (CHOOSE l \in found : TRUE) \in found
      BY <1>4
    <2>3. /\ attach \in Transaction
          /\ attach.at = "attach" /\ attach.lead \in LeadId /\ Live(attach.lead)
          /\ attach.request = tx[p].request /\ attach.event = tx[p].event
          /\ attach.siblings = tx[p].siblings /\ attach.saved = tx[p].saved
      BY <1>1, <2>2 DEF Transaction
    <2>. HIDE DEF attach
    <2>4. Shape(attach)
      BY <1>1, <2>3, NoneAssumption DEF Shape
    <2>5. Grounded(attach)
      BY <1>1, <2>3 DEF Grounded, Live
    <2>6. HeldBy(attach) = Held(p)
      BY <1>1, <2>3 DEF HeldBy, Held, At
    <2>7. \A q \in Staff \ {p} : Creates(q) => attach.lead # tx[q].lead
      BY <2>3 DEF Creates, Live
    <2>. QED
      BY <1>2, <2>1, <2>3, <2>4, <2>5, <2>6, <2>7, OthersKeepOut, TxStep DEF tables, Live
  <1>. QED
    BY <1>3, <1>4

LEMMA FindMatchedKeeps ==
  ASSUME IInv, NEW p \in Staff, FindMatched(p)
  PROVE  IInv'
  <1>. DEFINE matched == event[tx[p].event].matched
              place == IF tx[p].request = "accept" THEN "attach" ELSE "acknowledge"
              t == [tx[p] EXCEPT !.at = place, !.lead = matched, !.owner = lead[matched].owner]
  <1>1. /\ tx[p] \in Transaction /\ tx[p].at = "find" /\ tx[p].request # "convert"
        /\ Shape(tx[p]) /\ Grounded(tx[p])
    BY DEF FindMatched, At, IInv, TypeOK
  <1>2. /\ UNCHANGED <<tables, renumbered>> /\ notice \subseteq Notice
        /\ tx' = [tx EXCEPT ![p] = t] /\ Live(matched)
    BY DEF FindMatched, IInv, TypeOK
  <1>3. matched \in LeadId
    <2>1. tx[p].event \in EventId /\ tx[p].request \in {"accept", "acknowledge"}
      BY <1>1 DEF Shape, Transaction
    <2>2. matched \in LeadId \union {None} /\ matched # None
      BY <1>1, <2>1 DEF Grounded, IInv, TypeOK, Event
    <2>. QED
      BY <2>2
  <1>4. /\ t \in Transaction
        /\ t.at = place /\ t.lead = matched
        /\ t.request = tx[p].request /\ t.event = tx[p].event
        /\ t.siblings = tx[p].siblings /\ t.saved = tx[p].saved
    <2>1. lead[matched].owner \in Staff \union {None}
      BY <1>3 DEF IInv, TypeOK, Lead
    <2>. QED
      BY <1>1, <1>3, <2>1 DEF Transaction
  <1>. HIDE DEF t
  <1>5. Shape(t)
    BY <1>1, <1>3, <1>4, NoneAssumption DEF Shape, Transaction
  <1>6. Grounded(t)
    BY <1>1, <1>2, <1>4 DEF Grounded, Live
  <1>7. HeldBy(t) = Held(p)
    BY <1>1, <1>4 DEF HeldBy, Held, At
  <1>8. \A q \in Staff \ {p} : Creates(q) => t.lead # tx[q].lead
    BY <1>2, <1>4 DEF Creates, Live
  <1>. QED
    BY <1>2, <1>4, <1>5, <1>6, <1>7, <1>8, OthersKeepOut, TxStep DEF tables, Live

LEMMA WriteKeeps ==
  ASSUME IInv, NEW p \in Staff, WriteAttached(p) \/ WriteAcknowledged(p)
  PROVE  IInv'
  <1>. DEFINE place == AfterWrites(p)
              t == [tx[p] EXCEPT !.at = place, !.saved = {tx[p].event}]
  <1>1. /\ tx[p] \in Transaction /\ tx[p].at \in {"attach", "acknowledge"}
        /\ Shape(tx[p]) /\ Grounded(tx[p])
    BY DEF WriteAttached, WriteAcknowledged, At, IInv, TypeOK
  <1>2. /\ UNCHANGED <<tables, renumbered>> /\ notice \subseteq Notice
        /\ tx' = [tx EXCEPT ![p] = t]
        /\ tx[p].lead # None => Live(tx[p].lead)
    BY DEF WriteAttached, WriteAcknowledged, IInv, TypeOK
  <1>3. /\ place \in {"notify", "commit"}
        /\ place = "notify"
             => tx[p].request # "convert" /\ tx[p].lead # None /\ tx[p].owner # None
    BY DEF AfterWrites, Notifies
  <1>4. tx[p].event \in EventId
    BY <1>1 DEF Shape
  <1>. HIDE DEF place
  <1>5. /\ t \in Transaction
        /\ t.at = place /\ t.saved = {tx[p].event} /\ t.lead = tx[p].lead
        /\ t.request = tx[p].request /\ t.event = tx[p].event /\ t.owner = tx[p].owner
        /\ t.siblings = tx[p].siblings
    BY <1>1, <1>3, <1>4 DEF Transaction
  <1>. HIDE DEF t
  <1>6. Shape(t)
    BY <1>1, <1>3, <1>5 DEF Shape
  <1>7. Grounded(t)
    BY <1>1, <1>2, <1>3, <1>5 DEF Shape, Grounded, Live
  <1>8. HeldBy(t) = Held(p)
    BY <1>1, <1>3, <1>5 DEF Shape, HeldBy, Held, At
  <1>9. \A q \in Staff \ {p} : HeldBy(t) \intersect HeldBy(tx[q]) = {}
    BY <1>8, OthersKeepOut
  <1>. QED
    BY <1>2, <1>5, <1>6, <1>7, <1>9, TxStepSameLead DEF tables

LEMMA SaveSiblingKeeps ==
  ASSUME IInv, NEW p \in Staff, SaveSibling(p)
  PROVE  IInv'
  <1>. DEFINE e == NextSibling(p)
              t == [tx[p] EXCEPT !.saved = @ \union {e}]
  <1>1. /\ tx[p] \in Transaction /\ tx[p].at = "save"
        /\ Shape(tx[p]) /\ Grounded(tx[p])
    BY DEF SaveSibling, At, IInv, TypeOK
  <1>2. /\ UNCHANGED <<tables, renumbered>> /\ notice \subseteq Notice
        /\ tx' = [tx EXCEPT ![p].saved = @ \union {e}]
        /\ \A q \in Staff \ {p} : e \notin Held(q)
    BY DEF SaveSibling, LockedByOther, IInv, TypeOK
  <1>3. e \in tx[p].siblings
    <2>1. Unsaved(p) # {}
      BY DEF SaveSibling
    <2>2. e \in Unsaved(p)
      BY <2>1 DEF NextSibling
    <2>. QED
      BY <2>2 DEF Unsaved
  <1>. HIDE DEF e
  <1>4. tx' = [tx EXCEPT ![p] = t]
    BY <1>2 DEF IInv, TypeOK
  <1>5. /\ t \in Transaction
        /\ t.saved = tx[p].saved \union {e} /\ t.at = tx[p].at /\ t.lead = tx[p].lead
        /\ t.request = tx[p].request /\ t.event = tx[p].event
        /\ t.siblings = tx[p].siblings
    BY <1>1, <1>3 DEF Transaction
  <1>. HIDE DEF t
  <1>6. Shape(t)
    BY <1>1, <1>3, <1>5 DEF Shape
  <1>7. Grounded(t)
    BY <1>1, <1>5 DEF Grounded
  <1>8. HeldBy(t) = Held(p) \union {e}
    BY <1>1, <1>5 DEF HeldBy, Held, At
  <1>9. \A q \in Staff \ {p} : HeldBy(t) \intersect HeldBy(tx[q]) = {}
    BY <1>2, <1>8, OthersKeepOut
  <1>. QED
    BY <1>2, <1>4, <1>5, <1>6, <1>7, <1>9, TxStepSameLead DEF tables

LEMMA ToCommitKeeps ==
  ASSUME IInv, NEW p \in Staff, SiblingsSaved(p) \/ NotifyLeadOwner(p)
  PROVE  IInv'
  <1>. DEFINE t == [tx[p] EXCEPT !.at = "commit"]
  <1>1. /\ tx[p] \in Transaction /\ tx[p].at \in {"save", "notify"}
        /\ Shape(tx[p]) /\ Grounded(tx[p])
    BY DEF SiblingsSaved, NotifyLeadOwner, At, IInv, TypeOK
  <1>2. UNCHANGED <<lead, event, inquiry, history, renumbered>> /\ tx' = [tx EXCEPT ![p] = t]
    BY DEF SiblingsSaved, NotifyLeadOwner, Goto, tables, IInv, TypeOK
  <1>3. tx[p].at = "save" => tx[p].siblings \subseteq tx[p].saved
    BY DEF SiblingsSaved, NotifyLeadOwner, Unsaved, At
  <1>4. notice' \subseteq Notice
    <2>1. CASE SiblingsSaved(p)
      BY <2>1 DEF SiblingsSaved, tables, IInv, TypeOK
    <2>2. CASE NotifyLeadOwner(p)
      <3>1. tx[p].event \in EventId /\ tx[p].lead \in LeadId /\ tx[p].owner \in Staff
        BY <1>1, <2>2 DEF NotifyLeadOwner, At, Shape, Transaction
      <3>. QED
        BY <2>2, <3>1 DEF NotifyLeadOwner, Notice, IInv, TypeOK
    <2>. QED
      BY <2>1, <2>2
  <1>5. /\ t \in Transaction /\ t.at = "commit"
        /\ t.saved = tx[p].saved /\ t.lead = tx[p].lead
        /\ t.request = tx[p].request /\ t.event = tx[p].event
        /\ t.siblings = tx[p].siblings
    BY <1>1 DEF Transaction
  <1>. HIDE DEF t
  <1>6. Shape(t)
    BY <1>1, <1>3, <1>5 DEF Shape
  <1>7. Grounded(t)
    BY <1>1, <1>5 DEF Grounded, Shape
  <1>8. HeldBy(t) = Held(p)
    BY <1>1, <1>5 DEF HeldBy, Held, At
  <1>9. \A q \in Staff \ {p} : HeldBy(t) \intersect HeldBy(tx[q]) = {}
    BY <1>8, OthersKeepOut
  <1>. QED
    BY <1>2, <1>4, <1>5, <1>6, <1>7, <1>9, TxStepSameLead

-----------------------------------------------------------------------------
(* The end of a transaction: its locks and its lead are gone, and nobody   *)
(* else's are touched.                                                     *)

LEMMA EndStep ==
  ASSUME IInv, TypeOK', TablesAgree', NEW p \in Staff,
         tx' = [tx EXCEPT ![p] = NoTransaction],
         \A q \in Staff \ {p} : Grounded(tx[q])',
         \A q \in Staff \ {p} : Creates(q)' => Creates(q)
  PROVE  IInv'
  <1>1. /\ tx'[p] = NoTransaction
        /\ \A q \in Staff \ {p} : tx'[q] = tx[q]
    BY DEF IInv, TypeOK
  <1>2. NoTransaction.at = "idle" /\ NoTransaction.lead = None
        /\ NoTransaction.siblings = {} /\ NoTransaction.saved = {}
    BY DEF NoTransaction
  <1>3. Shape(NoTransaction) /\ Grounded(NoTransaction)'
    BY <1>2 DEF Shape, Grounded
  <1>4. \A q \in Staff : Shape(tx[q])'
    BY <1>1, <1>3 DEF IInv, Shape
  <1>5. \A q \in Staff : Grounded(tx[q])'
    <2>1. Grounded(tx[p])'
      BY <1>1, <1>3 DEF Grounded, Stored
    <2>. QED
      BY <2>1
  <1>6. Exclusive'
    <2>. SUFFICES ASSUME NEW q \in Staff, NEW r \in Staff, q # r
                  PROVE  /\ HeldBy(tx'[q]) \intersect HeldBy(tx'[r]) = {}
                         /\ Creates(q)' => tx'[r].lead # tx'[q].lead
      BY DEF Exclusive, HeldBy
    <2>1. CASE q = p
      BY <1>1, <1>2, <2>1 DEF HeldBy, Creates
    <2>2. CASE r = p
      BY <1>1, <1>2, <2>2 DEF HeldBy, Creates
    <2>3. CASE q # p /\ r # p
      BY <1>1, <2>3 DEF IInv, Exclusive
    <2>. QED
      BY <2>1, <2>2, <2>3
  <1>. QED
    BY <1>4, <1>5, <1>6 DEF IInv

LEMMA RollbackKeeps ==
  ASSUME IInv, NEW p \in Staff, Rollback(p)
  PROVE  IInv'
  <1>. DEFINE l == tx[p].lead
  <1>1. /\ UNCHANGED <<event, inquiry, history, notice, renumbered>>
        /\ tx' = [tx EXCEPT ![p] = NoTransaction]
    BY DEF Rollback
  <1>2. tx[p] \in Transaction
    BY DEF IInv, TypeOK
  <1>3. Blank("deleted") \in Lead /\ Blank("deleted").state = "deleted"
    BY DEF Blank, Lead
  (* At most one lead changes, and that one was never committed.           *)
  <1>4. \A k \in LeadId : \/ lead'[k] = lead[k]
                          \/ /\ k = l /\ Creates(p)
                             /\ lead[k].state = "inserted" /\ lead'[k].state = "deleted"
    BY <1>3 DEF Rollback, Creates, IInv, TypeOK
  <1>5. lead' \in [LeadId -> Lead]
    <2>1. CASE Creates(p)
      <3>1. l \in LeadId
        BY <1>2, <2>1 DEF Creates, Transaction
      <3>. QED
        BY <1>3, <2>1 DEF Rollback, IInv, TypeOK
    <2>2. CASE ~Creates(p)
      BY <2>2 DEF Rollback, IInv, TypeOK
    <2>. QED
      BY <2>1, <2>2
  <1>6. TypeOK'
    BY <1>1, <1>5, NoTransactionType DEF IInv, TypeOK
  <1>7. TablesAgree'
    <2>1. MatchesLive' /\ NumbersUnique'
      BY <1>1, <1>4 DEF IInv, TypeOK, Event, TablesAgree, MatchesLive, NumbersUnique, Stored,
                        Live
    <2>2. EnquiryKept' /\ HistoryKept'
      BY <1>1, <1>4 DEF IInv, TypeOK, Event, TablesAgree, EnquiryKept, HistoryKept, Live
    <2>3. ConvertedOnNumber'
      BY <1>1, <1>4, NoneAssumption
         DEF IInv, TypeOK, Event, TablesAgree, EnquiryKept, ConvertedOnNumber, Placed, Live
    <2>. QED
      BY <2>1, <2>2, <2>3 DEF TablesAgree
  <1>8. ASSUME NEW q \in Staff \ {p}
        PROVE  Grounded(tx[q])' /\ (Creates(q)' => Creates(q))
    <2>1. tx'[q] = tx[q] /\ tx[q] \in Transaction
      BY <1>1 DEF IInv, TypeOK
    <2>2. tx[q].lead \in LeadId => lead'[tx[q].lead] = lead[tx[q].lead]
      BY <1>4, OthersKeepOut DEF IInv, Exclusive
    <2>3. tx[q].lead \in LeadId \union {None}
      BY <2>1 DEF Transaction
    <2>4. /\ Grounded(tx[q])
          /\ tx[q].at = "save" \/ (tx[q].at = "commit" /\ tx[q].siblings # {}) => tx[q].lead # None
      BY DEF IInv, Shape
    <2>5. Grounded(tx[q])'
      BY <1>1, <2>1, <2>2, <2>3, <2>4 DEF Grounded, Stored
    <2>. QED
      BY <2>1, <2>2, <2>3, <2>5 DEF Creates
  <1>. QED
    BY <1>1, <1>6, <1>7, <1>8, EndStep

LEMMA CommitKeeps ==
  ASSUME IInv, NEW p \in Staff, Commit(p)
  PROVE  IInv'
  <1>. DEFINE l == tx[p].lead
              S == tx[p].saved
              result == Outcome(p)
  <1>1. /\ tx[p] \in Transaction /\ tx[p].at = "commit"
        /\ Shape(tx[p]) /\ Grounded(tx[p])
        /\ S \subseteq EventId /\ tx[p].request # "none"
    BY DEF Commit, At, IInv, TypeOK, Transaction, Shape
  <1>2. /\ UNCHANGED <<notice, renumbered>>
        /\ tx' = [tx EXCEPT ![p] = NoTransaction]
        /\ inquiry' = inquiry \union InquiriesOf(p)
        /\ history' = history \union HistoryOf(p)
    BY DEF Commit
  <1>3. /\ result \in Decided
        /\ result = "acknowledged" <=> tx[p].request = "acknowledge"
        /\ result = "converted" => Creates(p)
    BY <1>1 DEF Outcome, Transaction, Decided
  <1>4. \A e \in EventId :
          /\ e \notin S => event'[e] = event[e]
          /\ e \in S => /\ event'[e].status = result /\ event'[e].resolved = l
                        /\ event'[e].by = p
                        /\ event'[e].matched = event[e].matched
                        /\ event'[e].mobile = event[e].mobile
    BY DEF Commit, IInv, TypeOK, Event
  <1>5. /\ \A k \in LeadId : lead'[k].mobile = lead[k].mobile
        /\ \A k \in LeadId : lead'[k].state = lead[k].state
                          \/ (k = l /\ Creates(p) /\ lead[k].state = "inserted"
                                                  /\ lead'[k].state = "live")
        /\ Creates(p) => lead'[l].state = "live"
        /\ l # None => l \in LeadId
    BY <1>1 DEF Commit, Creates, IInv, TypeOK, Lead, Transaction
  (* The lead of the decision is there.                                    *)
  <1>6. l # None => lead'[l].state = "live"
    BY <1>1, <1>5 DEF Grounded, Creates
  <1>7. \A e \in S : Stored(e) /\ event[e].mobile = event[tx[p].event].mobile
    <2>1. S \subseteq tx[p].siblings \union {tx[p].event}
      BY <1>1 DEF Shape
    <2>2. event[tx[p].event].status = "open"
      BY <1>1 DEF Grounded
    <2>3. Stored(tx[p].event)
      BY <2>2 DEF Stored
    <2>4. \A e \in tx[p].siblings : Stored(e) /\ event[e].mobile = event[tx[p].event].mobile
      BY <1>1 DEF Grounded
    <2>. QED
      BY <2>1, <2>3, <2>4
  <1>8. TypeOK'
    <2>1. event' \in [EventId -> Event]
      <3>1. \A e \in EventId :
              [event[e] EXCEPT !.status = result, !.resolved = l, !.by = p] \in Event
        <4>1. result \in Decided /\ l \in LeadId \union {None}
          BY <1>1, <1>3 DEF Transaction
        <4>. HIDE DEF result, l
        <4>. QED
          BY <4>1 DEF IInv, TypeOK, Event
      <3>. QED
        BY <3>1 DEF Commit, IInv, TypeOK
    <2>2. lead' \in [LeadId -> Lead]
      <3>1. \A k \in LeadId : [lead[k] EXCEPT !.state = "live"] \in Lead
        BY DEF IInv, TypeOK, Lead
      <3>2. CASE Creates(p)
        <4>1. lead' = [lead EXCEPT ![l] = [lead[l] EXCEPT !.state = "live"]]
          BY <1>5, <3>2 DEF Commit, Creates, IInv, TypeOK
        <4>. QED
          BY <1>5, <3>1, <3>2, <4>1 DEF Creates, IInv, TypeOK
      <3>3. CASE ~Creates(p)
        BY <3>3 DEF Commit, IInv, TypeOK
      <3>. QED
        BY <3>2, <3>3
    <2>3. inquiry' \subseteq LeadId \X EventId
      BY <1>1, <1>2, <1>3, <1>5 DEF InquiriesOf, Shape, IInv, TypeOK
    <2>4. history' \subseteq History
      BY <1>2, <1>3, <1>5 DEF HistoryOf, History, IInv, TypeOK
    <2>. QED
      BY <1>2, <2>1, <2>2, <2>3, <2>4, NoTransactionType DEF IInv, TypeOK
  <1>9. TablesAgree'
    <2>1. MatchesLive'
      BY <1>4, <1>5, <1>7 DEF IInv, TypeOK, Event, TablesAgree, MatchesLive, Stored, Live
    <2>2. NumbersUnique'
      BY <1>5 DEF IInv, TablesAgree, NumbersUnique
    <2>3. EnquiryKept'
      <3>. SUFFICES ASSUME NEW e \in EventId,
                           event'[e].status \in {"attached", "converted"},
                           event'[e].resolved # None
                    PROVE  /\ <<event'[e].resolved, e>> \in inquiry'
                           /\ lead'[event'[e].resolved].state = "live"
        BY DEF EnquiryKept, Live
      <3>1. CASE e \in S
        <4>1. event'[e].resolved = l /\ result # "acknowledged"
          BY <1>4, <3>1
        <4>2. <<l, e>> \in InquiriesOf(p)
          BY <3>1, <4>1 DEF InquiriesOf
        <4>3. lead'[l].state = "live"
          BY <1>6, <4>1
        <4>. QED
          BY <1>2, <4>1, <4>2, <4>3
      <3>2. CASE e \notin S
        <4>1. event'[e] = event[e] /\ event[e].resolved \in LeadId
          BY <1>4, <3>2 DEF IInv, TypeOK, Event
        <4>2. <<event[e].resolved, e>> \in inquiry /\ lead[event[e].resolved].state = "live"
          BY <4>1 DEF IInv, TablesAgree, EnquiryKept, Live
        <4>3. lead'[event[e].resolved].state = "live"
          BY <1>5, <4>1, <4>2
        <4>. QED
          BY <1>2, <4>1, <4>2, <4>3
      <3>. QED
        BY <3>1, <3>2
    <2>4. HistoryKept'
      <3>. SUFFICES ASSUME NEW e \in EventId,
                           event'[e].status \in Decided, event'[e].resolved # None
                    PROVE  [type |-> event'[e].status, lead |-> event'[e].resolved,
                            by |-> event'[e].by] \in history'
        BY DEF HistoryKept
      <3>1. CASE e \in S
        BY <1>2, <1>4, <3>1 DEF HistoryOf
      <3>2. CASE e \notin S
        BY <1>2, <1>4, <3>2 DEF IInv, TablesAgree, HistoryKept
      <3>. QED
        BY <3>1, <3>2
    <2>5. ConvertedOnNumber'
      <3>. SUFFICES ASSUME NEW e \in EventId,
                           event'[e].status = "converted",
                           event'[e].resolved \in LeadId \ renumbered
                    PROVE  lead'[event'[e].resolved].mobile = event'[e].mobile
        BY <1>2 DEF ConvertedOnNumber, Placed
      <3>1. CASE e \in S
        <4>1. Creates(p) /\ event'[e].resolved = l
          BY <1>3, <1>4, <3>1
        <4>2. lead[l].mobile = event[tx[p].event].mobile
          BY <1>1, <4>1 DEF Creates, Grounded
        <4>. QED
          BY <1>4, <1>5, <1>7, <3>1, <4>1, <4>2 DEF Creates
      <3>2. CASE e \notin S
        BY <1>4, <1>5, <3>2 DEF IInv, TypeOK, Event, TablesAgree, ConvertedOnNumber, Placed
      <3>. QED
        BY <3>1, <3>2
    <2>. QED
      BY <2>1, <2>2, <2>3, <2>4, <2>5 DEF TablesAgree
  <1>10. ASSUME NEW q \in Staff \ {p}
         PROVE  Grounded(tx[q])' /\ (Creates(q)' => Creates(q))
    <2>1. /\ tx'[q] = tx[q] /\ tx[q] \in Transaction
          /\ Shape(tx[q]) /\ Grounded(tx[q])
      BY <1>2 DEF IInv, TypeOK
    <2>2. tx[q].lead \in LeadId \union {None} /\ tx[q].siblings \subseteq EventId
      BY <2>1 DEF Transaction
    <2>3. tx[q].lead # None => lead'[tx[q].lead].state = lead[tx[q].lead].state
                            /\ lead'[tx[q].lead].mobile = lead[tx[q].lead].mobile
      BY <1>5, <2>2 DEF IInv, Exclusive
    <2>4. tx[q].at # "idle" => tx[q].event \in EventId /\ event'[tx[q].event] = event[tx[q].event]
      <3>1. tx[q].at # "idle" => tx[q].event \in EventId /\ tx[q].event \in HeldBy(tx[q])
        BY <2>1 DEF Shape, HeldBy
      <3>2. S \subseteq Held(p)
        BY <1>1 DEF Held, At
      <3>. QED
        BY <1>4, <3>1, <3>2, OthersKeepOut
    <2>5. \A e \in EventId : /\ event'[e].mobile = event[e].mobile
                             /\ Stored(e) => Stored(e)'
      BY <1>3, <1>4 DEF Stored, Decided
    <2>6. tx[q].at = "idle" => tx[q].siblings = {} /\ tx[q].lead = None
      BY <2>1 DEF Shape, NoTransaction
    <2>7. \A e \in tx[q].siblings : Stored(e)' /\ event'[e].mobile = event'[tx[q].event].mobile
      <3>1. CASE tx[q].at = "idle"
        BY <2>6, <3>1
      <3>2. CASE tx[q].at # "idle"
        BY <2>1, <2>2, <2>4, <2>5, <3>2 DEF Grounded
      <3>. QED
        BY <3>1, <3>2
    <2>8. tx[q].at = "save" \/ (tx[q].at = "commit" /\ tx[q].siblings # {}) => tx[q].lead # None
      BY <2>1 DEF Shape
    <2>9. Grounded(tx[q])'
      BY <2>1, <2>3, <2>4, <2>6, <2>7, <2>8 DEF Grounded
    <2>. QED
      BY <2>1, <2>3, <2>9 DEF Creates
  <1>. QED
    BY <1>2, <1>8, <1>9, <1>10, EndStep

(* A new lead is visible to nobody, and its number is taken.               *)
LEMMA InsertKeeps ==
  ASSUME IInv, NEW p \in Staff, NEW l \in LeadId, InsertLead(p, l)
  PROVE  IInv'
  <1>. DEFINE m == event[tx[p].event].mobile
              new == [state |-> "inserted", owner |-> None, mobile |-> m]
              next == [tx[p] EXCEPT !.at = "save", !.lead = l]
  <1>1. /\ tx[p] \in Transaction /\ tx[p].at = "insert"
        /\ Shape(tx[p]) /\ Grounded(tx[p])
    BY DEF InsertLead, At, IInv, TypeOK
  <1>2. /\ UNCHANGED <<event, inquiry, history, notice, renumbered>>
        /\ lead[l].state = "unused" /\ ~MobileTaken(m)
        /\ lead' = [lead EXCEPT ![l] = new]
        /\ tx' = [tx EXCEPT ![p] = next]
    BY DEF InsertLead, IInv, TypeOK
  <1>3. new \in Lead /\ new.state = "inserted" /\ new.mobile = m
    <2>1. tx[p].event \in EventId
      BY <1>1 DEF Shape
    <2>2. m \in Mobile \union {None}
      BY <2>1 DEF IInv, TypeOK, Event
    <2>. QED
      BY <2>2 DEF Lead
  <1>. PICK t \in Transaction : t = next
    BY <1>1 DEF Transaction
  <1>4. /\ t \in Transaction /\ t.at = "save" /\ t.lead = l
        /\ t.saved = tx[p].saved /\ t.siblings = tx[p].siblings
        /\ t.request = tx[p].request /\ t.event = tx[p].event
        /\ tx' = [tx EXCEPT ![p] = t]
    BY <1>1, <1>2 DEF Transaction
  <1>. HIDE DEF new, next
  <1>5. TypeOK'
    BY <1>2, <1>3, <1>4 DEF IInv, TypeOK
  <1>6. /\ lead'[l] = new /\ \A k \in LeadId \ {l} : lead'[k] = lead[k]
        /\ tx'[p] = t /\ \A q \in Staff \ {p} : tx'[q] = tx[q]
    BY <1>2, <1>4 DEF IInv, TypeOK
  <1>7. Shape(t)
    BY <1>1, <1>4, NoneAssumption DEF Shape
  <1>8. Grounded(t)'
    <2>1. t.request = "convert" /\ event[t.event].status = "open"
      BY <1>1, <1>4 DEF Shape, Grounded
    <2>2. \A e \in t.siblings : Stored(e)' /\ event'[e].mobile = event'[t.event].mobile
      BY <1>1, <1>2, <1>4 DEF Grounded, Stored
    <2>3. lead'[t.lead].state = "inserted" /\ lead'[t.lead].mobile = event'[t.event].mobile
      BY <1>2, <1>3, <1>4, <1>6
    <2>. QED
      BY <1>2, <1>4, <2>1, <2>2, <2>3 DEF Grounded
  <1>9. ASSUME NEW q \in Staff \ {p}
        PROVE  /\ Shape(tx'[q]) /\ Grounded(tx[q])'
               /\ tx[q].lead # l /\ (Creates(q)' => Creates(q))
               /\ HeldBy(t) \intersect HeldBy(tx[q]) = {}
    <2>1. tx'[q] = tx[q] /\ Shape(tx[q]) /\ Grounded(tx[q]) /\ tx[q] \in Transaction
      BY <1>6 DEF IInv, TypeOK
    <2>2. tx[q].lead \in LeadId \union {None} /\ tx[q].lead # l
      BY <1>2, <2>1, NoneAssumption DEF Grounded, Transaction
    <2>3. Grounded(tx[q])'
      <3>1. tx[q].at = "save" => tx[q].lead # None
        BY <2>1 DEF Shape
      <3>2. tx[q].lead # None => lead'[tx[q].lead] = lead[tx[q].lead]
        BY <1>6, <2>2
      <3>. QED
        BY <1>2, <2>1, <3>1, <3>2 DEF Grounded, Stored
    <2>4. HeldBy(t) = Held(p)
      BY <1>1, <1>4 DEF HeldBy, Held, At
    <2>. QED
      BY <1>6, <2>1, <2>2, <2>3, <2>4, OthersKeepOut DEF Creates
  <1>10. \A q \in Staff : (Shape(tx[q]) /\ Grounded(tx[q]))'
    <2>1. Shape(tx[p])' /\ Grounded(tx[p])'
      BY <1>6, <1>7, <1>8 DEF Shape, Grounded, Stored
    <2>2. \A q \in Staff \ {p} : Shape(tx[q])' /\ Grounded(tx[q])'
      BY <1>9 DEF Shape
    <2>. QED
      BY <2>1, <2>2
  <1>11. Exclusive'
    <2>. SUFFICES ASSUME NEW q \in Staff, NEW r \in Staff, q # r
                  PROVE  /\ HeldBy(tx'[q]) \intersect HeldBy(tx'[r]) = {}
                         /\ Creates(q)' => tx'[r].lead # tx'[q].lead
      BY DEF Exclusive, HeldBy
    <2>1. CASE q = p
      BY <1>4, <1>6, <1>9, <2>1
    <2>2. CASE r = p
      BY <1>4, <1>6, <1>9, <2>2
    <2>3. CASE q # p /\ r # p
      BY <1>6, <1>9, <2>3 DEF IInv, Exclusive
    <2>. QED
      BY <2>1, <2>2, <2>3
  <1>12. TablesAgree'
    <2>1. MatchesLive' /\ EnquiryKept' /\ HistoryKept'
      BY <1>2, <1>6 DEF IInv, TypeOK, Event, TablesAgree, MatchesLive, EnquiryKept, HistoryKept,
                        Stored, Live
    <2>2. NumbersUnique'
      BY <1>2, <1>3, <1>6 DEF IInv, TablesAgree, NumbersUnique, MobileTaken
    <2>3. ConvertedOnNumber'
      BY <1>2, <1>6, NoneAssumption
         DEF IInv, TypeOK, Event, TablesAgree, EnquiryKept, ConvertedOnNumber, Placed, Live
    <2>. QED
      BY <2>1, <2>2, <2>3 DEF TablesAgree
  <1>. QED
    BY <1>5, <1>10, <1>11, <1>12 DEF IInv

-----------------------------------------------------------------------------
(* Steps that no decision makes.                                           *)

LEMMA IntakeStep ==
  ASSUME IInv, TypeOK', TablesAgree', UNCHANGED tx,
         \A p \in Staff : Grounded(tx[p])',
         \A p \in Staff : Creates(p)' => Creates(p)
  PROVE  IInv'
  <1>1. \A p \in Staff : Shape(tx[p])'
    BY DEF IInv, Shape
  <1>2. Exclusive'
    BY DEF IInv, Exclusive, HeldBy
  <1>. QED
    BY <1>1, <1>2 DEF IInv

(* An enquiry that is not stored yet is no decision's.                     *)
LEMMA ArrivalKeeps ==
  ASSUME IInv, NEW e \in EventId,
         event[e].status \in {"absent", "arriving"},
         event' \in [EventId -> Event],
         \A d \in EventId \ {e} : event'[d] = event[d],
         event'[e].status \notin Decided,
         event'[e].status = "open" /\ event'[e].matched # None => Live(event'[e].matched),
         UNCHANGED <<lead, inquiry, history, notice, tx, renumbered>>
  PROVE  IInv'
  <1>1. TypeOK'
    BY DEF IInv, TypeOK
  <1>2. TablesAgree'
    <2>1. MatchesLive'
      BY DEF IInv, TypeOK, Event, TablesAgree, MatchesLive, Stored, Live, Decided
    <2>2. EnquiryKept' /\ HistoryKept' /\ ConvertedOnNumber'
      BY DEF IInv, TablesAgree, EnquiryKept, HistoryKept, ConvertedOnNumber, Placed, Live,
             Decided
    <2>3. NumbersUnique'
      BY DEF IInv, TablesAgree, NumbersUnique
    <2>. QED
      BY <2>1, <2>2, <2>3 DEF TablesAgree
  <1>3. ASSUME NEW p \in Staff
        PROVE  Grounded(tx[p])'
    <2>1. /\ tx[p] \in Transaction /\ Shape(tx[p]) /\ Grounded(tx[p])
      BY DEF IInv, TypeOK
    <2>2. tx[p].siblings \subseteq EventId \ {e}
      BY <2>1 DEF Transaction, Grounded, Stored
    <2>3. tx[p].at # "idle" => tx[p].event \in EventId \ {e}
      BY <2>1 DEF Shape, Grounded
    <2>4. tx[p].at = "idle" => tx[p].siblings = {}
      BY <2>1 DEF Shape, NoTransaction
    <2>. QED
      BY <2>1, <2>2, <2>3, <2>4 DEF Grounded, Stored
  <1>. QED
    BY <1>1, <1>2, <1>3, IntakeStep DEF Creates

(* A lead that is not committed and that no decision inserted.             *)
LEMMA CreationKeeps ==
  ASSUME IInv, NEW l \in LeadId,
         lead[l].state \in {"unused", "inserted"},
         \A p \in Staff : tx[p].lead # l,
         lead' \in [LeadId -> Lead],
         \A k \in LeadId \ {l} : lead'[k] = lead[k],
         NumbersUnique',
         UNCHANGED <<event, inquiry, history, notice, tx, renumbered>>
  PROVE  IInv'
  <1>1. TypeOK'
    BY DEF IInv, TypeOK
  <1>2. TablesAgree'
    <2>1. MatchesLive' /\ EnquiryKept' /\ HistoryKept'
      BY DEF IInv, TypeOK, Event, TablesAgree, MatchesLive, EnquiryKept, HistoryKept, Stored,
             Live
    <2>2. ConvertedOnNumber'
      BY NoneAssumption
         DEF IInv, TypeOK, Event, TablesAgree, EnquiryKept, ConvertedOnNumber, Placed, Live
    <2>. QED
      BY <2>1, <2>2 DEF TablesAgree
  <1>3. ASSUME NEW p \in Staff
        PROVE  Grounded(tx[p])' /\ (Creates(p)' => Creates(p))
    <2>1. tx[p] \in Transaction /\ Shape(tx[p]) /\ Grounded(tx[p])
      BY DEF IInv, TypeOK
    <2>2. tx[p].lead # None => lead'[tx[p].lead] = lead[tx[p].lead]
      BY <2>1 DEF Transaction
    <2>3. tx[p].at = "save" \/ (tx[p].at = "commit" /\ tx[p].siblings # {}) => tx[p].lead # None
      BY <2>1 DEF Shape
    <2>. QED
      BY <2>1, <2>2, <2>3 DEF Grounded, Stored, Creates
  <1>. QED
    BY <1>1, <1>2, <1>3, IntakeStep

LEMMA DeleteKeeps ==
  ASSUME IInv, NEW l \in LeadId, DeleteLead(l)
  PROVE  IInv'
  <1>1. /\ lead[l].state = "live" /\ ~Pinned(l)
        /\ inquiry' = {i \in inquiry : i[1] # l}
        /\ history' = {h \in history : h.lead # l}
        /\ UNCHANGED <<notice, tx, renumbered>>
    BY DEF DeleteLead, Live
  <1>2. /\ lead' \in [LeadId -> Lead]
        /\ lead'[l].state = "deleted"
        /\ \A k \in LeadId \ {l} : lead'[k] = lead[k]
        /\ \A k \in LeadId : lead'[k].mobile = lead[k].mobile
    BY DEF DeleteLead, IInv, TypeOK, Lead
  (* Nothing of an event changes but the links to this lead.               *)
  <1>3. ASSUME NEW e \in EventId
        PROVE  /\ event'[e] \in Event
               /\ event'[e].status = event[e].status
               /\ event'[e].mobile = event[e].mobile
               /\ event'[e].by = event[e].by
               /\ event'[e].matched # event[e].matched
                    => event[e].matched = l /\ event'[e].matched = None
               /\ event'[e].resolved # event[e].resolved
                    => event[e].resolved = l /\ event'[e].resolved = None
               /\ Stored(e) => event'[e].matched # l /\ event'[e].resolved # l
    <2>1. event'[e] = Unlinked(l, event[e]) /\ event[e] \in Event
      BY DEF DeleteLead, IInv, TypeOK
    <2>. QED
      BY <2>1, NoneAssumption DEF Unlinked, Event, Stored
  <1>4. TypeOK'
    <2>1. event' \in [EventId -> Event]
      BY <1>3 DEF DeleteLead
    <2>. QED
      BY <1>1, <1>2, <2>1 DEF IInv, TypeOK
  <1>5. TablesAgree'
    <2>1. MatchesLive'
      BY <1>2, <1>3 DEF IInv, TypeOK, Event, TablesAgree, MatchesLive, Stored, Live
    <2>2. NumbersUnique'
      BY <1>2 DEF IInv, TablesAgree, NumbersUnique
    <2>3. ConvertedOnNumber'
      BY <1>1, <1>2, <1>3, NoneAssumption
         DEF IInv, TypeOK, Event, TablesAgree, ConvertedOnNumber, Placed, Stored
    <2>4. EnquiryKept'
      <3>. SUFFICES ASSUME NEW e \in EventId,
                           event'[e].status \in {"attached", "converted"},
                           event'[e].resolved # None
                    PROVE  /\ <<event'[e].resolved, e>> \in inquiry'
                           /\ lead'[event'[e].resolved].state = "live"
        BY DEF EnquiryKept, Live
      <3>1. /\ event'[e].resolved = event[e].resolved /\ event[e].resolved # l
            /\ event[e].status \in {"attached", "converted"}
            /\ event[e].resolved \in LeadId
        BY <1>3 DEF Stored, Event
      <3>2. <<event[e].resolved, e>> \in inquiry /\ lead[event[e].resolved].state = "live"
        BY <3>1 DEF IInv, TablesAgree, EnquiryKept, Live
      <3>. QED
        BY <1>1, <1>2, <3>1, <3>2
    <2>5. HistoryKept'
      <3>. SUFFICES ASSUME NEW e \in EventId,
                           event'[e].status \in Decided, event'[e].resolved # None
                    PROVE  [type |-> event'[e].status, lead |-> event'[e].resolved,
                            by |-> event'[e].by] \in history'
        BY DEF HistoryKept
      <3>. DEFINE h == [type |-> event[e].status, lead |-> event[e].resolved,
                        by |-> event[e].by]
      <3>1. event'[e].resolved = event[e].resolved /\ event[e].resolved # l
        BY <1>3 DEF Stored, Decided
      <3>2. h \in history /\ h.lead # l
        BY <1>3, <3>1 DEF IInv, TablesAgree, HistoryKept
      <3>. QED
        BY <1>1, <1>3, <3>1, <3>2
    <2>. QED
      BY <2>1, <2>2, <2>3, <2>4, <2>5 DEF TablesAgree
  <1>6. ASSUME NEW p \in Staff
        PROVE  Grounded(tx[p])' /\ (Creates(p)' => Creates(p))
    <2>1. tx[p] \in Transaction /\ Shape(tx[p]) /\ Grounded(tx[p])
      BY DEF IInv, TypeOK
    <2>2. tx[p].siblings \subseteq EventId /\ tx[p].lead \in LeadId \union {None}
      BY <2>1 DEF Transaction
    <2>3. tx[p].at \in {"notify", "commit"} => tx[p].lead # l
      BY <1>1 DEF Pinned, Shared
    <2>4. tx[p].at # "idle" => tx[p].event \in EventId /\ event[tx[p].event].matched # l
      BY <1>1, <2>1 DEF Shape, Pinned, Locked, Held, At
    <2>5. tx[p].lead # None => \/ lead'[tx[p].lead] = lead[tx[p].lead]
                               \/ /\ tx[p].lead = l /\ lead[tx[p].lead].state = "live"
                                  /\ lead'[tx[p].lead].state = "deleted"
      BY <1>1, <1>2, <2>2
    <2>6. /\ tx[p].at = "save" \/ (tx[p].at = "commit" /\ tx[p].siblings # {}) => tx[p].lead # None
          /\ tx[p].at = "idle" => tx[p].siblings = {} /\ tx[p].lead = None
      BY <2>1 DEF Shape, NoTransaction
    <2>7. \A e \in tx[p].siblings : Stored(e)' /\ event'[e].mobile = event'[tx[p].event].mobile
      BY <1>3, <2>1, <2>2, <2>4, <2>6 DEF Grounded, Stored
    <2>8. tx[p].at # "idle" => /\ event'[tx[p].event].status = event[tx[p].event].status
                               /\ event'[tx[p].event].matched = event[tx[p].event].matched
                               /\ event'[tx[p].event].mobile = event[tx[p].event].mobile
      BY <1>3, <2>4
    <2>9. Grounded(tx[p])'
      BY <1>1, <2>1, <2>3, <2>5, <2>6, <2>7, <2>8 DEF Grounded
    <2>. QED
      BY <1>1, <2>5, <2>9 DEF Creates
  <1>. QED
    BY <1>1, <1>4, <1>5, <1>6, IntakeStep

(* A committed lead gets another number or another owner.                  *)
LEMMA LeadEditKeeps ==
  ASSUME IInv, NEW l \in LeadId, Live(l),
         lead' \in [LeadId -> Lead], lead'[l].state = "live",
         \A k \in LeadId \ {l} : lead'[k] = lead[k],
         lead'[l].mobile = lead[l].mobile \/ l \in renumbered',
         renumbered \subseteq renumbered', renumbered' \subseteq LeadId,
         NumbersUnique',
         UNCHANGED <<event, inquiry, history, notice, tx>>
  PROVE  IInv'
  <1>1. TypeOK'
    BY DEF IInv, TypeOK
  <1>2. TablesAgree'
    <2>1. MatchesLive' /\ EnquiryKept' /\ HistoryKept'
      BY DEF IInv, TypeOK, Event, TablesAgree, MatchesLive, EnquiryKept, HistoryKept, Stored,
             Live
    <2>2. ConvertedOnNumber'
      BY DEF IInv, TypeOK, Event, TablesAgree, ConvertedOnNumber, Placed
    <2>. QED
      BY <2>1, <2>2 DEF TablesAgree
  <1>3. ASSUME NEW p \in Staff
        PROVE  Grounded(tx[p])' /\ (Creates(p)' => Creates(p))
    <2>1. tx[p] \in Transaction /\ Shape(tx[p]) /\ Grounded(tx[p])
      BY DEF IInv, TypeOK
    <2>2. tx[p].lead # None => /\ tx[p].lead \in LeadId
                               /\ lead'[tx[p].lead].state = lead[tx[p].lead].state
                               /\ \/ lead'[tx[p].lead] = lead[tx[p].lead]
                                  \/ lead[tx[p].lead].state = "live"
      BY <2>1 DEF Transaction, Live
    <2>3. tx[p].at = "save" \/ (tx[p].at = "commit" /\ tx[p].siblings # {}) => tx[p].lead # None
      BY <2>1 DEF Shape
    <2>. QED
      BY <2>1, <2>2, <2>3 DEF Grounded, Stored, Creates
  <1>. QED
    BY <1>1, <1>2, <1>3, IntakeStep

LEMMA IntakeKeeps ==
  ASSUME IInv, Intake
  PROVE  IInv'
  <1>1. ASSUME NEW e \in EventId, NEW m \in Mobile, Arrive(e, m)
        PROVE  IInv'
    <2>1. PICK l \in Matches(m) :
            event' = [event EXCEPT ![e].status = "arriving", ![e].mobile = m, ![e].matched = l]
      BY <1>1 DEF Arrive
    <2>2. l \in LeadId \union {None}
      BY DEF Matches
    <2>3. event' = [event EXCEPT ![e] = [event[e] EXCEPT !.status = "arriving", !.mobile = m,
                                                         !.matched = l]]
      BY <2>1 DEF IInv, TypeOK
    <2>4. /\ event' \in [EventId -> Event]
          /\ event'[e].status = "arriving"
          /\ \A d \in EventId \ {e} : event'[d] = event[d]
      BY <2>2, <2>3 DEF IInv, TypeOK, Event
    <2>. QED
      BY <1>1, <2>4, ArrivalKeeps DEF Arrive, Decided
  <1>2. ASSUME NEW e \in EventId, ArrivalStored(e)
        PROVE  IInv'
    <2>1. /\ event' \in [EventId -> Event]
          /\ event'[e].status = "open" /\ event'[e].matched = event[e].matched
          /\ \A d \in EventId \ {e} : event'[d] = event[d]
      BY <1>2 DEF ArrivalStored, IInv, TypeOK, Event
    <2>. QED
      BY <1>2, <2>1, ArrivalKeeps DEF ArrivalStored, Decided
  <1>3. ASSUME NEW e \in EventId, ArrivalFails(e)
        PROVE  IInv'
    <2>1. event' = [event EXCEPT ![e] = [event[e] EXCEPT !.status = "absent", !.mobile = None,
                                                         !.matched = None]]
      BY <1>3 DEF ArrivalFails, IInv, TypeOK
    <2>2. /\ event' \in [EventId -> Event]
          /\ event'[e].status = "absent"
          /\ \A d \in EventId \ {e} : event'[d] = event[d]
      BY <2>1 DEF IInv, TypeOK, Event
    <2>. QED
      BY <1>3, <2>2, ArrivalKeeps DEF ArrivalFails, Decided
  <1>4. ASSUME NEW l \in LeadId, NEW m \in Mobile, NEW o \in Staff \union {None},
               CreateLead(l, m, o)
        PROVE  IInv'
    <2>1. /\ lead' \in [LeadId -> Lead]
          /\ lead'[l].state = "inserted" /\ lead'[l].mobile = m
          /\ \A k \in LeadId \ {l} : lead'[k] = lead[k]
      BY <1>4 DEF CreateLead, IInv, TypeOK, Lead
    <2>2. NumbersUnique'
      BY <1>4, <2>1 DEF CreateLead, MobileTaken, IInv, TablesAgree, NumbersUnique
    <2>3. lead[l].state = "unused" /\ \A p \in Staff : tx[p].lead # l
      BY <1>4, NoneAssumption DEF CreateLead, IInv, Grounded
    <2>. QED
      BY <1>4, <2>1, <2>2, <2>3, CreationKeeps DEF CreateLead
  <1>5. ASSUME NEW l \in LeadId, CreateCommits(l) \/ CreateFails(l)
        PROVE  IInv'
    <2>1. /\ lead[l].state = "inserted" /\ \A p \in Staff : tx[p].lead # l
          /\ UNCHANGED <<event, inquiry, history, notice, tx, renumbered>>
      BY <1>5 DEF CreateCommits, CreateFails, Unclaimed
    <2>2. /\ lead' \in [LeadId -> Lead]
          /\ \A k \in LeadId \ {l} : lead'[k] = lead[k]
          /\ \/ lead'[l].state = "deleted"
             \/ lead'[l].state = "live" /\ lead'[l].mobile = lead[l].mobile
      BY <1>5 DEF CreateCommits, CreateFails, Blank, IInv, TypeOK, Lead
    <2>3. NumbersUnique'
      BY <2>1, <2>2 DEF IInv, TablesAgree, NumbersUnique
    <2>. QED
      BY <2>1, <2>2, <2>3, CreationKeeps
  <1>6. ASSUME NEW l \in LeadId, DeleteLead(l)
        PROVE  IInv'
    BY <1>6, DeleteKeeps
  <1>7. ASSUME NEW l \in LeadId, NEW m \in Mobile, Renumber(l, m)
        PROVE  IInv'
    <2>1. /\ lead' \in [LeadId -> Lead]
          /\ lead'[l].state = "live" /\ lead'[l].mobile = m
          /\ \A k \in LeadId \ {l} : lead'[k] = lead[k]
      BY <1>7 DEF Renumber, Live, IInv, TypeOK, Lead
    <2>2. NumbersUnique'
      BY <1>7, <2>1 DEF Renumber, MobileTaken, IInv, TablesAgree, NumbersUnique
    <2>3. renumbered' = renumbered \union {l} /\ renumbered \subseteq LeadId
      BY <1>7 DEF Renumber, IInv, TypeOK
    <2>. QED
      BY <1>7, <2>1, <2>2, <2>3, LeadEditKeeps DEF Renumber
  <1>8. ASSUME NEW l \in LeadId, NEW o \in Staff \union {None}, HandOver(l, o)
        PROVE  IInv'
    <2>1. /\ lead' \in [LeadId -> Lead]
          /\ lead'[l].state = "live" /\ lead'[l].mobile = lead[l].mobile
          /\ \A k \in LeadId \ {l} : lead'[k] = lead[k]
      BY <1>8 DEF HandOver, Live, IInv, TypeOK, Lead
    <2>2. NumbersUnique'
      BY <1>8, <2>1 DEF HandOver, Live, IInv, TablesAgree, NumbersUnique
    <2>3. renumbered' = renumbered /\ renumbered \subseteq LeadId
      BY <1>8 DEF HandOver, IInv, TypeOK
    <2>. QED
      BY <1>8, <2>1, <2>2, <2>3, LeadEditKeeps DEF HandOver
  <1>. QED
    BY <1>1, <1>2, <1>3, <1>4, <1>5, <1>6, <1>7, <1>8 DEF Intake

-----------------------------------------------------------------------------
LEMMA InitIInv == Init => IInv
  <1>. SUFFICES ASSUME Init PROVE IInv
    OBVIOUS
  <1>1. /\ \A l \in LeadId : lead[l] = Blank("unused")
        /\ \A e \in EventId : event[e].status = "absent"
        /\ \A p \in Staff : tx[p] = NoTransaction
    BY DEF Init
  <1>2. TypeOK
    <2>1. Blank("unused") \in Lead
      BY DEF Blank, Lead
    <2>2. [status |-> "absent", mobile |-> None, matched |-> None,
           resolved |-> None, by |-> None] \in Event
      BY DEF Event
    <2>. QED
      BY <2>1, <2>2, NoTransactionType DEF Init, TypeOK
  <1>3. NoTransaction.at = "idle" /\ NoTransaction.lead = None
        /\ NoTransaction.siblings = {} /\ NoTransaction.saved = {}
    BY DEF NoTransaction
  <1>4. \A p \in Staff : Shape(tx[p]) /\ Grounded(tx[p])
    BY <1>1, <1>3 DEF Shape, Grounded
  <1>5. Exclusive
    BY <1>1, <1>3 DEF Exclusive, HeldBy, Creates
  <1>6. TablesAgree
    BY <1>1 DEF TablesAgree, MatchesLive, NumbersUnique, ConvertedOnNumber, Placed, EnquiryKept,
                HistoryKept, Stored, Blank, Decided
  <1>. QED
    BY <1>2, <1>4, <1>5, <1>6 DEF IInv

LEMMA NextIInv == IInv /\ [Next]_vars => IInv'
  <1>. SUFFICES ASSUME IInv, [Next]_vars PROVE IInv'
    OBVIOUS
  <1>1. CASE Intake
    BY <1>1, IntakeKeeps
  <1>2. CASE \E p \in Staff, e \in EventId, r \in {"convert", "accept", "acknowledge"} :
               LockOpenEvent(p, e, r)
    BY <1>2, LockKeeps
  <1>3. ASSUME NEW p \in Staff, Decide(p) \/ Rollback(p)
        PROVE  IInv'
    <2>1. CASE FindMeanwhile(p) \/ FindMatched(p)
      BY <2>1, FindMeanwhileKeeps, FindMatchedKeeps
    <2>2. CASE WriteAttached(p) \/ WriteAcknowledged(p)
      BY <2>2, WriteKeeps
    <2>3. CASE \E l \in LeadId : InsertLead(p, l)
      BY <2>3, InsertKeeps
    <2>4. CASE SaveSibling(p)
      BY <2>4, SaveSiblingKeeps
    <2>5. CASE SiblingsSaved(p) \/ NotifyLeadOwner(p)
      BY <2>5, ToCommitKeeps
    <2>6. CASE Commit(p)
      BY <2>6, CommitKeeps
    <2>7. CASE Refused(p) \/ DeadlockVictim(p) \/ Rollback(p)
      BY <2>7, RollbackKeeps DEF Refused, DeadlockVictim
    <2>. QED
      BY <1>3, <2>1, <2>2, <2>3, <2>4, <2>5, <2>6, <2>7 DEF Decide
  <1>4. CASE UNCHANGED vars
    <2>1. UNCHANGED <<lead, event, inquiry, history, notice, tx, renumbered>>
      BY <1>4 DEF vars, tables
    <2>2. TypeOK'
      BY <2>1 DEF IInv, TypeOK
    <2>3. TablesAgree'
      BY <2>1 DEF IInv, TablesAgree, MatchesLive, NumbersUnique, ConvertedOnNumber, Placed,
                  EnquiryKept,
                  HistoryKept, Stored, Live
    <2>4. \A p \in Staff : Grounded(tx[p])'
      BY <2>1 DEF IInv, Grounded, Stored
    <2>. QED
      BY <2>1, <2>2, <2>3, <2>4, IntakeStep DEF Creates
  <1>. QED
    BY <1>1, <1>2, <1>3, <1>4 DEF Next

(* IInv holds in every reachable state.                                    *)
THEOREM Invariant == Spec => []IInv
  BY InitIInv, NextIInv, PTL DEF Spec

(* Type correctness (lead-routing.service.ts, leads.service.ts).           *)
THEOREM TypesOK == Spec => []TypeOK
  <1>1. IInv => TypeOK
    BY DEF IInv
  <1>. QED
    BY <1>1, Invariant, PTL

(* For any staff, leads and enquiries: an enquiry that is attached or      *)
(* converted has its inquiry on the lead it names, that lead exists, and   *)
(* its history names the decision and who made it (inquiryFromEvent,       *)
(* writeEventHistory, deleteLead).                                         *)
THEOREM RecordsAreKept == Spec => []RecordsKept
  <1>1. IInv => RecordsKept
    BY DEF IInv, TablesAgree, RecordsKept
  <1>. QED
    BY <1>1, Invariant, PTL

(* Whatever was converted for a number is on one lead, and that lead has   *)
(* the number, also when leads are renumbered, handed over and deleted     *)
(* between the statements of the converts; only a lead whose own number    *)
(* was changed is exempt (convertEventRecord, updateLead).                 *)
THEOREM OneLeadEach == Spec => []OneLeadPerCustomer
  <1>1. IInv => OneLeadPerCustomer
    <2>. SUFFICES ASSUME IInv, NEW e \in EventId, Placed(e)
                  PROVE  /\ lead[event[e].resolved].mobile = event[e].mobile
                         /\ \A d \in EventId :
                              Placed(d) /\ event[d].mobile = event[e].mobile
                                => event[d].resolved = event[e].resolved
      BY DEF OneLeadPerCustomer
    <2>1. \A d \in EventId : Placed(d) => /\ event[d].resolved \in LeadId
                                          /\ lead[event[d].resolved].mobile = event[d].mobile
      BY DEF IInv, TablesAgree, ConvertedOnNumber, Placed
    <2>2. \A d \in EventId : Placed(d) => lead[event[d].resolved].state = "live"
      BY NoneAssumption DEF IInv, TablesAgree, EnquiryKept, Placed, Live
    <2>. QED
      BY <2>1, <2>2 DEF IInv, TablesAgree, NumbersUnique
  <1>. QED
    BY <1>1, Invariant, PTL

(* The row lock keeps the event of a request open until the request        *)
(* decides it (lockOpenEvent).                                             *)
THEOREM HeldStaysOpen == Spec => []HeldIsOpen
  <1>1. IInv => HeldIsOpen
    BY DEF IInv, Grounded, HeldIsOpen, At
  <1>. QED
    BY <1>1, Invariant, PTL

(* An accept finds its matched lead (acceptEventRecord, deleteLead).       *)
THEOREM MatchedLeadsStay == Spec => []MatchedLeadStays
  <1>1. IInv => MatchedLeadStays
    <2>. SUFFICES ASSUME IInv, NEW p \in Staff, ~At(p, "idle"), tx[p].request = "accept"
                  PROVE  Live(event[tx[p].event].matched)
      BY DEF MatchedLeadStays
    <2>1. /\ tx[p].event \in EventId
          /\ event[tx[p].event].status = "open" /\ event[tx[p].event].matched # None
      BY DEF IInv, Shape, Grounded, At
    <2>. QED
      BY <2>1 DEF IInv, TablesAgree, MatchesLive, Stored
  <1>. QED
    BY <1>1, Invariant, PTL

(* Whoever decides meanwhile: a decision is replaced only by a convert     *)
(* that creates a lead (convertEventRecord's saves of the siblings).       *)
THEOREM OnlyConvertsOverwrite == Spec => OnlyConvertOverwrites
  <1>. DEFINE Changed(e) ==
                /\ event[e].status \in Decided
                /\ <<event'[e].status, event'[e].by>> # <<event[e].status, event[e].by>>
  <1>1. ASSUME IInv, [Next]_vars, NEW e \in EventId, Changed(e)
        PROVE  event'[e].status = "converted" /\ lead[event'[e].resolved].state = "inserted"
    <2>1. CASE Intake
      <3>. DEFINE Same == event'[e].status = event[e].status /\ event'[e].by = event[e].by
      <3>1. ASSUME NEW d \in EventId,
                   (\E m \in Mobile : Arrive(d, m)) \/ ArrivalStored(d) \/ ArrivalFails(d)
            PROVE  Same
        <4>1. d # e
          BY <1>1, <3>1 DEF Arrive, ArrivalStored, ArrivalFails, Decided
        <4>2. event'[e] = event[e]
          BY <1>1, <3>1, <4>1 DEF Arrive, ArrivalStored, ArrivalFails, IInv, TypeOK
        <4>. QED
          BY <4>2
      <3>2. ASSUME NEW l \in LeadId, DeleteLead(l)
            PROVE  Same
        <4>1. event'[e] = Unlinked(l, event[e]) /\ event[e] \in Event
          BY <1>1, <3>2 DEF DeleteLead, IInv, TypeOK
        <4>. QED
          BY <4>1 DEF Unlinked, Event
      <3>3. ASSUME event' = event
            PROVE  Same
        BY <3>3
      <3>4. Same
        BY <2>1, <3>1, <3>2, <3>3 DEF Intake, CreateLead, CreateCommits, CreateFails, Renumber,
                                      HandOver
      <3>. QED
        BY <1>1, <3>4
    <2>2. ASSUME NEW p \in Staff, Commit(p)
          PROVE  event'[e].status = "converted" /\ lead[event'[e].resolved].state = "inserted"
      <3>1. /\ tx[p] \in Transaction /\ tx[p].at = "commit"
            /\ Shape(tx[p]) /\ Grounded(tx[p])
        BY <1>1, <2>2 DEF Commit, At, IInv, TypeOK
      <3>2. e \in tx[p].saved
        BY <1>1, <2>2 DEF Commit
      <3>3. e # tx[p].event
        BY <1>1, <3>1 DEF Grounded, Decided
      <3>4. tx[p].siblings # {} /\ tx[p].request = "convert" /\ tx[p].lead # None
        BY <3>1, <3>2, <3>3 DEF Shape
      <3>5. Creates(p)
        BY <3>1, <3>4 DEF Grounded, Creates
      <3>6. event'[e].status = Outcome(p) /\ event'[e].resolved = tx[p].lead
        BY <1>1, <2>2, <3>2 DEF Commit, IInv, TypeOK, Event
      <3>. QED
        BY <3>4, <3>5, <3>6 DEF Outcome, Creates
    <2>3. ASSUME event' = event
          PROVE  FALSE
      BY <1>1, <2>3
    <2>. QED
      BY <1>1, <2>1, <2>2, <2>3
         DEF Next, Decide, LockOpenEvent, ReadWithoutLock, FindMeanwhile, FindMatched,
             WriteAttached, WriteAcknowledged, InsertLead, SaveSibling,
             SiblingsSaved, NotifyLeadOwner, Refused, DeadlockVictim, Rollback, vars, tables
  <1>2. IInv /\ [Next]_vars
          => [\A e \in EventId :
                event[e].status \in Decided
                  /\ <<event'[e].status, event'[e].by>> # <<event[e].status, event[e].by>>
                => event'[e].status = "converted"
                   /\ lead[event'[e].resolved].state = "inserted"]_vars
    BY <1>1
  <1>. QED
    BY <1>2, Invariant, PTL DEF Spec, OnlyConvertOverwrites

-----------------------------------------------------------------------------
(* Whom a decision has told by the time it commits.                        *)

NoticeOf(p) == [event |-> tx[p].event, lead |-> tx[p].lead, by |-> p, to |-> tx[p].owner]

Told == \A p \in Staff : At(p, "commit") /\ Notifies(p) => NoticeOf(p) \in notice

(* A step of p that ends before its commit has told the owner it read, or  *)
(* has nobody to tell.                                                     *)
LEMMA TellsFirst ==
  ASSUME IInv, NEW p \in Staff,
         \/ WriteAttached(p) \/ WriteAcknowledged(p)
         \/ SiblingsSaved(p) \/ NotifyLeadOwner(p)
  PROVE  tx'[p].at = "commit" =>
           /\ tx'[p].request = tx[p].request /\ tx'[p].event = tx[p].event
           /\ tx'[p].lead = tx[p].lead /\ tx'[p].owner = tx[p].owner
           /\ ~Notifies(p) \/ NoticeOf(p) \in notice'
  <1>1. tx[p] \in Transaction /\ Shape(tx[p])
    BY DEF IInv, TypeOK
  <1>2. CASE WriteAttached(p) \/ WriteAcknowledged(p)
    BY <1>1, <1>2 DEF WriteAttached, WriteAcknowledged, AfterWrites, Transaction, IInv, TypeOK
  <1>3. CASE SiblingsSaved(p)
    <2>1. ~Notifies(p)
      BY <1>1, <1>3 DEF SiblingsSaved, At, Shape, Notifies
    <2>. QED
      BY <1>1, <1>3, <2>1 DEF SiblingsSaved, Goto, Transaction, IInv, TypeOK
  <1>4. CASE NotifyLeadOwner(p)
    <2>1. NoticeOf(p) \in notice'
      BY <1>4 DEF NotifyLeadOwner, NoticeOf
    <2>. QED
      BY <1>1, <1>4, <2>1 DEF NotifyLeadOwner, Goto, Transaction, IInv, TypeOK
  <1>. QED
    BY <1>2, <1>3, <1>4

LEMMA NextTold == IInv /\ Told /\ [Next]_vars => Told'
  <1>. SUFFICES ASSUME IInv, Told, [Next]_vars, NEW p \in Staff, At(p, "commit")', Notifies(p)'
                PROVE  NoticeOf(p)' \in notice'
    BY DEF Told
  <1>1. /\ tx'[p].at = "commit" /\ tx'[p].request # "convert" /\ tx'[p].lead # None
        /\ tx'[p].owner \notin {None, p}
    BY DEF At, Notifies
  <1>2. NoticeOf(p)' = [event |-> tx'[p].event, lead |-> tx'[p].lead, by |-> p,
                        to |-> tx'[p].owner]
    BY DEF NoticeOf
  <1>3. notice \subseteq notice'
    BY DEF Next, Intake, Arrive, ArrivalStored, ArrivalFails, CreateLead, CreateCommits,
           CreateFails, Renumber, HandOver,
           Renumber, HandOver, DeleteLead, LockOpenEvent, ReadWithoutLock, Decide,
           FindMeanwhile,
           FindMatched, WriteAttached, WriteAcknowledged, InsertLead, SaveSibling,
           SiblingsSaved, NotifyLeadOwner, Commit, Refused, DeadlockVictim, Rollback, vars,
           tables
  <1>4. CASE tx'[p] = tx[p]
    <2>1. At(p, "commit") /\ Notifies(p)
      BY <1>1, <1>4 DEF At, Notifies
    <2>. QED
      BY <1>2, <1>3, <1>4, <2>1 DEF Told, NoticeOf
  <1>5. CASE \/ WriteAttached(p) \/ WriteAcknowledged(p)
             \/ SiblingsSaved(p) \/ NotifyLeadOwner(p)
    <2>1. /\ tx'[p].request = tx[p].request /\ tx'[p].event = tx[p].event
          /\ tx'[p].lead = tx[p].lead /\ tx'[p].owner = tx[p].owner
          /\ ~Notifies(p) \/ NoticeOf(p) \in notice'
      BY <1>1, <1>5, TellsFirst
    <2>2. Notifies(p)
      BY <1>1, <2>1 DEF Notifies
    <2>. QED
      BY <1>2, <2>1, <2>2 DEF NoticeOf
  <1>6. CASE Intake \/ UNCHANGED vars
    <2>1. tx' = tx
      BY <1>6 DEF Intake, Arrive, ArrivalStored, ArrivalFails, CreateLead, CreateCommits,
                  CreateFails, Renumber, HandOver,
                  DeleteLead, vars
    <2>. QED
      BY <1>4, <2>1
  <1>7. ASSUME NEW q \in Staff, NEW e \in EventId, NEW r \in {"convert", "accept", "acknowledge"},
               LockOpenEvent(q, e, r)
        PROVE  tx'[p] = tx[p] \/ tx'[p].at # "commit"
    BY <1>7 DEF LockOpenEvent, ReadWithoutLock, NoTransaction, IInv, TypeOK
  <1>8. ASSUME NEW q \in Staff, Decide(q) \/ Rollback(q)
        PROVE  \/ tx'[p] = tx[p] \/ tx'[p].at # "commit"
               \/ WriteAttached(p) \/ WriteAcknowledged(p) \/ SiblingsSaved(p) \/ NotifyLeadOwner(p)
    <2>1. CASE q # p
      BY <1>8, <2>1
         DEF Decide, FindMeanwhile, FindMatched, WriteAttached, WriteAcknowledged, InsertLead,
             SaveSibling, SiblingsSaved, NotifyLeadOwner, Goto, Commit, Refused,
             DeadlockVictim, Rollback, IInv, TypeOK
    <2>2. CASE q = p
      <3>1. CASE FindMeanwhile(p) \/ FindMatched(p)
        BY <3>1 DEF FindMeanwhile, FindMatched, IInv, TypeOK, Transaction
      <3>2. CASE \E l \in LeadId : InsertLead(p, l)
        BY <3>2 DEF InsertLead, IInv, TypeOK, Transaction
      <3>3. CASE SaveSibling(p)
        <4>. DEFINE e == NextSibling(p)
                    t == [tx[p] EXCEPT !.saved = @ \union {e}]
        <4>1. /\ tx[p] \in Transaction /\ tx[p].at = "save"
              /\ tx' = [tx EXCEPT ![p].saved = @ \union {e}]
          BY <3>3 DEF SaveSibling, At, IInv, TypeOK
        <4>. HIDE DEF e
        <4>2. tx'[p] = t
          BY <4>1 DEF IInv, TypeOK
        <4>3. t.at = tx[p].at
          BY <4>1 DEF Transaction
        <4>. HIDE DEF t
        <4>. QED
          BY <4>1, <4>2, <4>3
      <3>4. CASE Commit(p) \/ Rollback(p)
        <4>1. tx' = [tx EXCEPT ![p] = NoTransaction]
          BY <3>4 DEF Commit, Rollback
        <4>. QED
          BY <4>1, NoTransactionType DEF IInv, TypeOK
      <3>. QED
        BY <1>8, <2>2, <3>1, <3>2, <3>3, <3>4 DEF Decide, Refused, DeadlockVictim
    <2>. QED
      BY <2>1, <2>2
  <1>. QED
    BY <1>1, <1>4, <1>5, <1>6, <1>7, <1>8 DEF Next

(* Whoever owns a lead when somebody else's accept or acknowledge on it    *)
(* takes effect has been told before, also when leads are handed over      *)
(* between its statements; only an owner who got the lead after the        *)
(* decision had read it is exempt (notifyLeadOwner, claimLead).            *)
THEOREM OwnersAreTold == Spec => OwnerIsTold
  <1>1. Init => Told
    BY DEF Init, Told, At, NoTransaction
  <1>2. ASSUME Told, NEW p \in Staff, Commit(p), tx[p].request # "convert", tx[p].lead # None
        PROVE  \/ lead[tx[p].lead].owner \in {None, p}
               \/ lead[tx[p].lead].owner # tx[p].owner
               \/ \E n \in notice : /\ n.event = tx[p].event /\ n.by = p /\ n.lead = tx[p].lead
                                    /\ n.to = lead[tx[p].lead].owner
    <2>. SUFFICES ASSUME lead[tx[p].lead].owner = tx[p].owner, tx[p].owner \notin {None, p}
                  PROVE  \E n \in notice : /\ n.event = tx[p].event /\ n.by = p
                                           /\ n.lead = tx[p].lead
                                           /\ n.to = lead[tx[p].lead].owner
      OBVIOUS
    <2>1. NoticeOf(p) \in notice
      BY <1>2 DEF Told, Notifies, Commit
    <2>. QED
      BY <2>1 DEF NoticeOf
  <1>3. Told /\ [Next]_vars
          => [\A p \in Staff :
                LET l == tx[p].lead
                IN  Commit(p) /\ tx[p].request # "convert" /\ l # None =>
                      \/ lead[l].owner \in {None, p}
                      \/ lead[l].owner # tx[p].owner
                      \/ \E n \in notice : /\ n.event = tx[p].event /\ n.by = p
                                            /\ n.lead = l /\ n.to = lead[l].owner]_vars
    BY <1>2
  <1>. QED
    BY <1>1, <1>3, NextTold, Invariant, PTL DEF Spec, OwnerIsTold

-----------------------------------------------------------------------------
(* EnquiryPromise, step by step.  What the mapping reads of inquiry: every *)
(* inquiry is on a committed lead and of an enquiry that was decided so,   *)
(* so that an open enquiry is on no lead and a new lead has no enquiry.    *)

InquiriesOfDecided ==
  \A i \in inquiry : Live(i[1]) /\ event[i[2]].status \in {"attached", "converted"}

LEMMA InquiriesStay ==
  ASSUME IInv, InquiriesOfDecided, inquiry' \subseteq inquiry,
         \A i \in inquiry' : Live(i[1]) => lead'[i[1]].state = "live",
         \A e \in EventId : event[e].status \in {"attached", "converted"}
                              => event'[e].status \in {"attached", "converted"}
  PROVE  InquiriesOfDecided'
  <1>1. \A i \in inquiry' : i \in inquiry /\ i[1] \in LeadId /\ i[2] \in EventId
    BY DEF IInv, TypeOK
  <1>2. \A i \in inquiry' : Live(i[1]) /\ event[i[2]].status \in {"attached", "converted"}
    BY <1>1 DEF InquiriesOfDecided
  <1>3. \A i \in inquiry' : lead'[i[1]].state = "live" /\ event'[i[2]].status \in {"attached", "converted"}
    BY <1>1, <1>2
  <1>. QED
    BY <1>3 DEF InquiriesOfDecided, Live

(* What a commit does to the tables, in the words of its transaction.      *)
LEMMA CommitDoes ==
  ASSUME IInv, NEW p \in Staff, Commit(p)
  PROVE  /\ tx[p].event \in tx[p].saved /\ tx[p].saved \subseteq EventId
         /\ event[tx[p].event].status = "open"
         /\ \A e \in tx[p].saved : Stored(e)
         /\ \A e \in EventId : event'[e].status = IF e \in tx[p].saved THEN Outcome(p)
                                                  ELSE event[e].status
         /\ inquiry' = inquiry \union InquiriesOf(p)
         /\ Outcome(p) \in Decided
         /\ Outcome(p) # "converted" => tx[p].saved = {tx[p].event}
         /\ Outcome(p) = "converted" => lead[tx[p].lead].state = "inserted"
         /\ Outcome(p) # "acknowledged" => tx[p].lead \in LeadId /\ lead'[tx[p].lead].state = "live"
         /\ \A k \in LeadId : Live(k) => lead'[k].state = "live"
  <1>1. /\ tx[p] \in Transaction /\ tx[p].at = "commit"
        /\ Shape(tx[p]) /\ Grounded(tx[p])
    BY DEF Commit, At, IInv, TypeOK
  <1>2. /\ tx[p].event \in tx[p].saved /\ tx[p].saved \subseteq EventId
        /\ tx[p].request \in {"convert", "accept", "acknowledge"}
        /\ tx[p].lead \in LeadId \union {None}
    BY <1>1 DEF Shape, Transaction
  <1>3. event[tx[p].event].status = "open"
    BY <1>1 DEF Grounded
  <1>4. \A e \in tx[p].saved : Stored(e)
    BY <1>1, <1>3 DEF Shape, Grounded, Stored
  <1>5. \A e \in EventId : event'[e].status = IF e \in tx[p].saved THEN Outcome(p)
                                              ELSE event[e].status
    BY DEF Commit, IInv, TypeOK, Event
  <1>6. inquiry' = inquiry \union InquiriesOf(p)
    BY DEF Commit
  <1>7. /\ Outcome(p) \in Decided
        /\ Outcome(p) = "converted" => Creates(p)
        /\ Outcome(p) = "acknowledged" <=> tx[p].request = "acknowledge"
        /\ tx[p].request = "convert" /\ Creates(p) => Outcome(p) = "converted"
    BY <1>2 DEF Outcome, Decided
  (* Only a convert that creates a lead has siblings.                      *)
  <1>8. Outcome(p) # "converted" => tx[p].saved = {tx[p].event}
    <2>1. tx[p].siblings # {} => tx[p].request = "convert" /\ tx[p].lead # None
      BY <1>1 DEF Shape
    <2>2. tx[p].siblings # {} => Creates(p)
      BY <1>1, <2>1 DEF Grounded, Creates
    <2>3. tx[p].siblings = {} => tx[p].saved = {tx[p].event}
      BY <1>1, <1>2 DEF Shape
    <2>. QED
      BY <1>7, <2>1, <2>2, <2>3
  <1>9. Outcome(p) = "converted" => lead[tx[p].lead].state = "inserted"
    BY <1>7 DEF Creates
  <1>10. \A k \in LeadId : Live(k) => lead'[k].state = "live"
    BY <1>2 DEF Commit, Creates, Live, IInv, TypeOK, Lead
  <1>11. Outcome(p) # "acknowledged" => tx[p].lead \in LeadId /\ lead'[tx[p].lead].state = "live"
    <2>1. Outcome(p) # "acknowledged" => tx[p].lead # None
      BY <1>1, <1>7 DEF Shape
    <2>2. tx[p].lead # None => lead[tx[p].lead].state \in {"inserted", "live"}
      BY <1>1 DEF Grounded
    <2>3. tx[p].lead # None /\ lead[tx[p].lead].state = "inserted"
            => lead'[tx[p].lead].state = "live"
      BY <1>2 DEF Commit, Creates, IInv, TypeOK, Lead
    <2>. QED
      BY <1>2, <1>10, <2>1, <2>2, <2>3 DEF Live
  <1>. QED
    BY <1>2, <1>3, <1>4, <1>5, <1>6, <1>7, <1>8, <1>9, <1>10, <1>11

LEMMA NextInquiries == IInv /\ InquiriesOfDecided /\ [Next]_vars => InquiriesOfDecided'
  <1>. SUFFICES ASSUME IInv, InquiriesOfDecided, [Next]_vars
                PROVE  InquiriesOfDecided'
    OBVIOUS
  <1>. DEFINE LiveStay == \A k \in LeadId : Live(k) => lead'[k].state = "live"
              DecidedStay == \A e \in EventId : event[e].status \in {"attached", "converted"}
                               => event'[e].status \in {"attached", "converted"}
  <1>0. \A i \in inquiry : i[1] \in LeadId
    BY DEF IInv, TypeOK
  <1>1. ASSUME NEW e \in EventId,
               (\E m \in Mobile : Arrive(e, m)) \/ ArrivalStored(e) \/ ArrivalFails(e)
        PROVE  inquiry' = inquiry /\ LiveStay /\ DecidedStay
    BY <1>1 DEF Arrive, ArrivalStored, ArrivalFails, Live, IInv, TypeOK
  <1>2. ASSUME NEW l \in LeadId,
               \/ \E m \in Mobile, o \in Staff \union {None} : CreateLead(l, m, o)
               \/ CreateCommits(l) \/ CreateFails(l)
               \/ \E m \in Mobile : Renumber(l, m)
               \/ \E o \in Staff \union {None} : HandOver(l, o)
        PROVE  inquiry' = inquiry /\ LiveStay /\ DecidedStay
    BY <1>2 DEF CreateLead, CreateCommits, CreateFails, Renumber, HandOver, Unclaimed, Live,
                IInv, TypeOK, Lead
  <1>3. ASSUME NEW l \in LeadId, DeleteLead(l)
        PROVE  InquiriesOfDecided'
    <2>1. \A k \in LeadId \ {l} : lead'[k] = lead[k]
      BY <1>3 DEF DeleteLead, IInv, TypeOK
    <2>2. \A e \in EventId : event'[e].status = event[e].status
      <3>1. \A e \in EventId : event'[e] = Unlinked(l, event[e]) /\ event[e] \in Event
        BY <1>3 DEF DeleteLead, IInv, TypeOK
      <3>. QED
        BY <3>1 DEF Unlinked, Event
    <2>3. inquiry' = {i \in inquiry : i[1] # l}
      BY <1>3 DEF DeleteLead
    <2>4. \A i \in inquiry' : Live(i[1]) => lead'[i[1]].state = "live"
      BY <1>0, <2>1, <2>3 DEF Live
    <2>. QED
      BY <2>2, <2>3, <2>4, InquiriesStay
  <1>4. ASSUME NEW p \in Staff, NEW l \in LeadId, InsertLead(p, l)
        PROVE  inquiry' = inquiry /\ LiveStay /\ DecidedStay
    BY <1>4 DEF InsertLead, Live, IInv, TypeOK
  <1>5. ASSUME NEW p \in Staff, Rollback(p)
        PROVE  inquiry' = inquiry /\ LiveStay /\ DecidedStay
    BY <1>5 DEF Rollback, Creates, Live, IInv, TypeOK
  <1>6. ASSUME NEW p \in Staff, Commit(p)
        PROVE  InquiriesOfDecided'
    <2>. SUFFICES ASSUME NEW i \in inquiry'
                  PROVE  lead'[i[1]].state = "live"
                         /\ event'[i[2]].status \in {"attached", "converted"}
      BY DEF InquiriesOfDecided, Live
    <2>1. CASE i \in InquiriesOf(p)
      <3>1. /\ Outcome(p) # "acknowledged" /\ i[1] = tx[p].lead
            /\ i[2] \in tx[p].saved
        BY <2>1 DEF InquiriesOf
      <3>. QED
        BY <1>6, <3>1, CommitDoes DEF Decided
    <2>2. CASE i \in inquiry
      <3>1. /\ i[1] \in LeadId /\ i[2] \in EventId
            /\ Live(i[1]) /\ event[i[2]].status \in {"attached", "converted"}
        BY <2>2 DEF InquiriesOfDecided, IInv, TypeOK
      <3>2. Outcome(p) = "acknowledged" => i[2] \notin tx[p].saved
        BY <1>6, <3>1, CommitDoes
      <3>. QED
        BY <1>6, <3>1, <3>2, CommitDoes DEF Decided
    <2>. QED
      BY <1>6, <2>1, <2>2, CommitDoes
  <1>7. ASSUME UNCHANGED <<lead, event, inquiry>>
        PROVE  inquiry' = inquiry /\ LiveStay /\ DecidedStay
    BY <1>7 DEF Live
  <1>8. inquiry' = inquiry /\ LiveStay /\ DecidedStay => InquiriesOfDecided'
    BY <1>0, InquiriesStay
  <1>. HIDE DEF LiveStay, DecidedStay
  <1>9. CASE Intake
    BY <1>1, <1>2, <1>3, <1>8, <1>9 DEF Intake
  <1>10. ASSUME NEW p \in Staff, Decide(p) \/ Rollback(p)
         PROVE  InquiriesOfDecided'
    BY <1>4, <1>5, <1>6, <1>7, <1>8, <1>10
       DEF Decide, FindMeanwhile, FindMatched, WriteAttached, WriteAcknowledged, SaveSibling,
           SiblingsSaved, NotifyLeadOwner, Refused, DeadlockVictim, tables
  <1>11. CASE \/ UNCHANGED vars
              \/ \E q \in Staff, e \in EventId, r \in {"convert", "accept", "acknowledge"} :
                   LockOpenEvent(q, e, r)
    BY <1>7, <1>8, <1>11 DEF LockOpenEvent, ReadWithoutLock, vars, tables
  <1>. QED
    BY <1>9, <1>10, <1>11 DEF Next

StageMap == [e \in EventId |-> StageOf(e)]
PlaceMap == [e \in EventId |-> {l \in LeadId : <<l, e>> \in inquiry}]

(* A step that leaves the inquiries alone and no stage changed.            *)
LEMMA MapsToStutter ==
  ASSUME inquiry' = inquiry,
         \A e \in EventId : StageOf(e)' = StageOf(e)
  PROVE  UNCHANGED Promise!vars
  <1>1. StageMap' = StageMap /\ PlaceMap' = PlaceMap
    BY DEF StageMap, PlaceMap
  <1>. QED
    BY <1>1 DEF StageMap, PlaceMap, Promise!vars

LEMMA StoredMapsToAsk ==
  ASSUME IInv, NEW e \in EventId, ArrivalStored(e)
  PROVE  Promise!Ask(e)
  <1>1. /\ event[e].status = "arriving" /\ event'[e].status = "open"
        /\ \A d \in EventId \ {e} : event'[d] = event[d]
        /\ inquiry' = inquiry
    BY DEF ArrivalStored, IInv, TypeOK, Event
  <1>2. StageOf(e) = "absent" /\ StageOf(e)' = "open"
        /\ \A d \in EventId \ {e} : StageOf(d)' = StageOf(d)
    BY <1>1 DEF StageOf
  <1>3. StageMap[e] = "absent" /\ StageMap' = [StageMap EXCEPT ![e] = "open"]
    BY <1>2 DEF StageMap
  <1>4. PlaceMap' = PlaceMap
    BY <1>1 DEF PlaceMap
  <1>. QED
    BY <1>3, <1>4 DEF StageMap, PlaceMap, Promise!Ask

LEMMA DeleteMapsToForget ==
  ASSUME IInv, NEW l \in LeadId, DeleteLead(l)
  PROVE  Promise!Forget(l)
  <1>1. \A e \in EventId : event'[e].status = event[e].status
    <2>1. \A e \in EventId : event'[e] = Unlinked(l, event[e]) /\ event[e] \in Event
      BY DEF DeleteLead, IInv, TypeOK
    <2>. QED
      BY <2>1 DEF Unlinked, Event
  <1>2. StageMap' = StageMap
    BY <1>1 DEF StageMap, StageOf
  <1>3. \A e \in EventId, k \in LeadId : <<k, e>> \in inquiry' <=> <<k, e>> \in inquiry /\ k # l
    BY DEF DeleteLead
  <1>4. PlaceMap' = [e \in EventId |-> PlaceMap[e] \ {l}]
    BY <1>3 DEF PlaceMap
  <1>. QED
    BY <1>2, <1>4 DEF StageMap, PlaceMap, Promise!Forget

(* The inquiries of a commit put exactly its events on its lead.           *)
LEMMA CommitMapsToDecision ==
  ASSUME IInv, InquiriesOfDecided, NEW p \in Staff, Commit(p),
         NEW S \in SUBSET EventId, NEW d \in EventId, NEW c,
         S = tx[p].saved, d = tx[p].event, c = tx[p].lead
  PROVE  Promise!Next
  <1>. DEFINE result == Outcome(p)
  <1>1. /\ d \in S /\ S \subseteq EventId /\ event[d].status = "open"
        /\ \A e \in S : Stored(e)
        /\ \A e \in EventId : event'[e].status = IF e \in S THEN result ELSE event[e].status
        /\ inquiry' = inquiry \union InquiriesOf(p)
        /\ result \in Decided
        /\ result # "converted" => S = {d}
        /\ result = "converted" => lead[c].state = "inserted"
        /\ result # "acknowledged" => c \in LeadId
    BY CommitDoes
  <1>2. InquiriesOf(p) = IF result = "acknowledged" THEN {} ELSE {<<c, e>> : e \in S}
    BY DEF InquiriesOf
  <1>. HIDE DEF result
  <1>3. StageMap' = [e \in EventId |-> IF e \in S THEN result ELSE StageMap[e]]
    BY <1>1 DEF StageMap, StageOf, Decided
  <1>4. StageMap[d] = "open" /\ \A e \in S : StageMap[e] # "absent"
    BY <1>1 DEF StageMap, StageOf, Stored
  <1>5. PlaceMap[d] = {}
    BY <1>1 DEF PlaceMap, InquiriesOfDecided
  <1>6. CASE result = "converted"
    <2>1. \A e \in EventId : c \notin PlaceMap[e]
      BY <1>1, <1>6 DEF PlaceMap, InquiriesOfDecided, Live
    <2>2. PlaceMap' = [e \in EventId |-> IF e \in S THEN PlaceMap[e] \union {c} ELSE PlaceMap[e]]
      BY <1>1, <1>2, <1>6 DEF PlaceMap
    <2>3. StageMap' = [e \in EventId |-> IF e \in S THEN "converted" ELSE StageMap[e]]
      BY <1>3, <1>6
    <2>4. Promise!Convert(S, c)
      BY <1>1, <1>4, <2>1, <2>2, <2>3 DEF StageMap, PlaceMap, Promise!Convert
    <2>5. c \in LeadId
      BY <1>1, <1>6
    <2>. QED
      BY <2>4, <2>5 DEF Promise!Next
  <1>7. CASE result = "attached"
    <2>1. S = {d} /\ c \in LeadId
      BY <1>1, <1>7
    <2>2. StageMap' = [StageMap EXCEPT ![d] = "attached"]
      BY <1>3, <1>7, <2>1 DEF StageMap
    <2>3. \A e \in EventId, k \in LeadId :
            <<k, e>> \in inquiry' <=> <<k, e>> \in inquiry \/ (k = c /\ e = d)
      BY <1>1, <1>2, <1>7, <2>1
    <2>4. PlaceMap' = [PlaceMap EXCEPT ![d] = {c}]
      <3>1. {k \in LeadId : <<k, d>> \in inquiry'} = {c}
        BY <1>5, <2>1, <2>3 DEF PlaceMap
      <3>2. \A e \in EventId \ {d} :
              {k \in LeadId : <<k, e>> \in inquiry'} = {k \in LeadId : <<k, e>> \in inquiry}
        BY <2>3
      <3>. QED
        BY <3>1, <3>2 DEF PlaceMap
    <2>5. Promise!Attach(d, c)
      BY <1>4, <2>2, <2>4 DEF StageMap, PlaceMap, Promise!Attach
    <2>6. \E e \in EventId : \E k \in LeadId : Promise!Attach(e, k)
      BY <2>1, <2>5
    <2>. QED
      BY <2>6 DEF Promise!Next
  <1>8. CASE result = "acknowledged"
    <2>1. StageMap' = [StageMap EXCEPT ![d] = "acknowledged"]
      BY <1>1, <1>3, <1>8 DEF StageMap
    <2>2. PlaceMap' = PlaceMap
      BY <1>1, <1>2, <1>8 DEF PlaceMap
    <2>3. Promise!Dismiss(d)
      BY <1>4, <2>1, <2>2 DEF StageMap, PlaceMap, Promise!Dismiss
    <2>. QED
      BY <2>3 DEF Promise!Next
  <1>. QED
    BY <1>1, <1>6, <1>7, <1>8 DEF Decided

LEMMA StepMaps == IInv /\ InquiriesOfDecided /\ [Next]_vars => [Promise!Next]_(Promise!vars)
  <1>. SUFFICES ASSUME IInv, InquiriesOfDecided, [Next]_vars
                PROVE  Promise!Next \/ UNCHANGED Promise!vars
    OBVIOUS
  <1>1. ASSUME NEW e \in EventId, ArrivalStored(e)
        PROVE  Promise!Next
    BY <1>1, StoredMapsToAsk DEF Promise!Next
  <1>2. ASSUME NEW l \in LeadId, DeleteLead(l)
        PROVE  Promise!Next
    BY <1>2, DeleteMapsToForget DEF Promise!Next
  <1>3. ASSUME NEW p \in Staff, Commit(p)
        PROVE  Promise!Next
    <2>1. tx[p].saved \in SUBSET EventId /\ tx[p].event \in EventId
      BY <1>3, CommitDoes
    <2>2. PICK S \in SUBSET EventId, d \in EventId : S = tx[p].saved /\ d = tx[p].event
      BY <2>1
    <2>3. PICK c : c = tx[p].lead
      OBVIOUS
    <2>. QED
      BY <1>3, <2>2, <2>3, CommitMapsToDecision
  <1>4. ASSUME NEW e \in EventId, (\E m \in Mobile : Arrive(e, m)) \/ ArrivalFails(e)
        PROVE  UNCHANGED Promise!vars
    <2>1. /\ event[e].status \in {"absent", "arriving"} /\ event'[e].status \in {"absent", "arriving"}
          /\ \A d \in EventId \ {e} : event'[d] = event[d]
          /\ inquiry' = inquiry
      <3>1. CASE \E m \in Mobile : Arrive(e, m)
        <4>1. PICK m \in Mobile : Arrive(e, m)
          BY <3>1
        <4>2. PICK l \in Matches(m) :
                event' = [event EXCEPT ![e].status = "arriving", ![e].mobile = m, ![e].matched = l]
          BY <4>1 DEF Arrive
        <4>. QED
          BY <4>1, <4>2 DEF Arrive, IInv, TypeOK, Event
      <3>2. CASE ArrivalFails(e)
        BY <3>2 DEF ArrivalFails, IInv, TypeOK, Event
      <3>. QED
        BY <1>4, <3>1, <3>2
    <2>. QED
      BY <2>1, MapsToStutter DEF StageOf
  <1>5. ASSUME UNCHANGED <<event, inquiry>>
        PROVE  UNCHANGED Promise!vars
    BY <1>5, MapsToStutter DEF StageOf
  <1>6. CASE Intake
    BY <1>1, <1>2, <1>4, <1>5, <1>6 DEF Intake, CreateLead, CreateCommits, CreateFails,
                                        Renumber, HandOver
  <1>7. ASSUME NEW p \in Staff, Decide(p) \/ Rollback(p)
        PROVE  Promise!Next \/ UNCHANGED Promise!vars
    BY <1>3, <1>5, <1>7
       DEF Decide, FindMeanwhile, FindMatched, WriteAttached, WriteAcknowledged, InsertLead,
           SaveSibling, SiblingsSaved, NotifyLeadOwner, Refused, DeadlockVictim,
           Rollback, tables
  <1>8. CASE \/ UNCHANGED vars
             \/ \E q \in Staff, e \in EventId, r \in {"convert", "accept", "acknowledge"} :
                  LockOpenEvent(q, e, r)
    BY <1>5, <1>8 DEF LockOpenEvent, ReadWithoutLock, vars, tables
  <1>. QED
    BY <1>6, <1>7, <1>8 DEF Next

(* For any staff, leads, numbers and enquiries, locks and deadlocks        *)
(* included: every behaviour of the queue is one of EnquiryPromise         *)
(* (convertEventRecord, acceptEventRecord, acknowledgeEvent, deleteLead).  *)
THEOREM PromiseIsKept == Spec => KeepsPromise
  <1>1. Init => InquiriesOfDecided
    BY DEF Init, InquiriesOfDecided
  <1>2. Init => Promise!Init
    <2>. SUFFICES ASSUME Init PROVE Promise!Init
      OBVIOUS
    <2>1. StageMap = [e \in EventId |-> "absent"] /\ PlaceMap = [e \in EventId |-> {}]
      BY DEF Init, StageMap, PlaceMap, StageOf
    <2>. QED
      BY <2>1 DEF StageMap, PlaceMap, Promise!Init
  <1>. QED
    BY <1>1, <1>2, Invariant, NextInquiries, StepMaps, PTL DEF Spec, KeepsPromise, Promise!Spec

-----------------------------------------------------------------------------
(* When a decision does stand.  A convert that creates a lead saves what   *)
(* its snapshot holds of the other open events of the number, without a    *)
(* lock on them until then.  As long as nobody decides one of those        *)
(* meanwhile, they are open, and no two converts have one in common.       *)

SiblingsLeftAlone ==
  \A p, q \in Staff : p # q /\ ~At(q, "idle") => tx[q].event \notin tx[p].siblings

SiblingsOpen == \A p \in Staff : \A e \in tx[p].siblings : event[e].status = "open"

SiblingsApart ==
  \A p, q \in Staff : p # q => tx[p].siblings \intersect tx[q].siblings = {}

(* Only FindMeanwhile reads siblings.                                      *)
LEMMA SiblingsStep ==
  ASSUME IInv, [Next]_vars
  PROVE  \/ \A p \in Staff : tx'[p].siblings \subseteq tx[p].siblings
         \/ \E q \in Staff :
              /\ event' = event /\ \A p \in Staff \ {q} : tx'[p] = tx[p]
              /\ tx'[q].siblings = OpenSiblings(event[tx[q].event].mobile)
  <1>1. CASE Intake \/ UNCHANGED vars
    BY <1>1 DEF Intake, Arrive, ArrivalStored, ArrivalFails, CreateLead, CreateCommits,
                CreateFails, Renumber, HandOver,
                DeleteLead, vars
  <1>2. ASSUME NEW q \in Staff, NEW e \in EventId, NEW r \in {"convert", "accept", "acknowledge"},
               LockOpenEvent(q, e, r)
        PROVE  \A p \in Staff : tx'[p].siblings \subseteq tx[p].siblings
    BY <1>2 DEF LockOpenEvent, ReadWithoutLock, NoTransaction, IInv, TypeOK
  <1>3. ASSUME NEW q \in Staff, FindMeanwhile(q)
        PROVE  \/ \A p \in Staff : tx'[p].siblings \subseteq tx[p].siblings
               \/ /\ event' = event /\ \A p \in Staff \ {q} : tx'[p] = tx[p]
                  /\ tx'[q].siblings = OpenSiblings(event[tx[q].event].mobile)
    BY <1>3 DEF FindMeanwhile, tables, IInv, TypeOK, Transaction
  <1>4. ASSUME NEW q \in Staff, tx' = [tx EXCEPT ![q] = NoTransaction]
        PROVE  \A p \in Staff : tx'[p].siblings \subseteq tx[p].siblings
    BY <1>4 DEF NoTransaction, IInv, TypeOK
  <1>5. ASSUME NEW q \in Staff,
               \/ FindMatched(q) \/ WriteAttached(q) \/ WriteAcknowledged(q)
               \/ \E l \in LeadId : InsertLead(q, l)
               \/ SaveSibling(q) \/ SiblingsSaved(q) \/ NotifyLeadOwner(q)
        PROVE  \A p \in Staff : tx'[p].siblings \subseteq tx[p].siblings
    BY <1>5 DEF FindMatched, WriteAttached, WriteAcknowledged, InsertLead,
                SaveSibling, SiblingsSaved, NotifyLeadOwner, Goto, IInv, TypeOK, Transaction
  <1>6. ASSUME NEW q \in Staff, Decide(q) \/ Rollback(q)
        PROVE  \/ FindMeanwhile(q) \/ tx' = [tx EXCEPT ![q] = NoTransaction]
               \/ FindMatched(q) \/ WriteAttached(q) \/ WriteAcknowledged(q)
               \/ \E l \in LeadId : InsertLead(q, l)
               \/ SaveSibling(q) \/ SiblingsSaved(q) \/ NotifyLeadOwner(q)
    BY <1>6 DEF Decide, Commit, Refused, DeadlockVictim, Rollback
  <1>. QED
    BY <1>1, <1>2, <1>3, <1>4, <1>5, <1>6 DEF Next

(* An event that is open stays so until a decision that saved it commits;  *)
(* nothing else says who decided a decided one.                            *)
LEMMA DecidedByCommit ==
  ASSUME IInv, [Next]_vars, NEW e \in EventId,
         \/ event[e].status = "open" /\ event'[e].status # "open"
         \/ event[e].status \in Decided /\ event'[e].by # event[e].by
  PROVE  \E p \in Staff : Commit(p) /\ e \in tx[p].saved
  <1>. DEFINE Same == /\ event[e].status \in Decided \union {"open"}
                           => event'[e].status = event[e].status /\ event'[e].by = event[e].by
  <1>1. ASSUME NEW d \in EventId,
               (\E m \in Mobile : Arrive(d, m)) \/ ArrivalStored(d) \/ ArrivalFails(d)
        PROVE  Same
    <2>1. CASE d # e
      <3>1. event'[e] = event[e]
        BY <1>1, <2>1 DEF Arrive, ArrivalStored, ArrivalFails, IInv, TypeOK
      <3>. QED
        BY <3>1
    <2>2. CASE d = e
      BY <1>1, <2>2 DEF Arrive, ArrivalStored, ArrivalFails, Decided
    <2>. QED
      BY <2>1, <2>2
  <1>2. ASSUME NEW l \in LeadId, DeleteLead(l)
        PROVE  Same
    <2>1. event'[e] = Unlinked(l, event[e]) /\ event[e] \in Event
      BY <1>2 DEF DeleteLead, IInv, TypeOK
    <2>. QED
      BY <2>1 DEF Unlinked, Event
  <1>3. ASSUME event' = event
        PROVE  Same
    BY <1>3
  <1>4. ASSUME NEW p \in Staff, Commit(p), e \notin tx[p].saved
        PROVE  Same
    BY <1>4 DEF Commit
  <1>5. ~Same
    BY DEF Decided
  <1>. HIDE DEF Same
  <1>. QED
    BY <1>1, <1>2, <1>3, <1>4, <1>5
       DEF Next, Intake, CreateLead, CreateCommits, CreateFails, Renumber, HandOver,
           Decide, LockOpenEvent, ReadWithoutLock, FindMeanwhile, FindMatched,
           WriteAttached, WriteAcknowledged, InsertLead, SaveSibling,
           SiblingsSaved, NotifyLeadOwner, Refused, DeadlockVictim, Rollback, vars, tables

LEMMA SiblingsUndisturbed ==
  ASSUME IInv, [Next]_vars, SiblingsLeftAlone, SiblingsLeftAlone', SiblingsOpen, SiblingsApart
  PROVE  /\ SiblingsOpen' /\ SiblingsApart'
         /\ \A e \in EventId : event[e].status \in Decided => event'[e].by = event[e].by
  <1>t. \A p \in Staff : tx[p] \in Transaction /\ Shape(tx[p]) /\ Grounded(tx[p])
    BY DEF IInv, TypeOK
  <1>1. \A p \in Staff : tx[p].siblings \subseteq EventId
    BY <1>t DEF Transaction
  <1>2. SiblingsApart'
    <2>1. CASE \A p \in Staff : tx'[p].siblings \subseteq tx[p].siblings
      BY <2>1 DEF SiblingsApart
    <2>2. ASSUME NEW q \in Staff, \A p \in Staff \ {q} : tx'[p] = tx[p], event' = event,
                 tx'[q].siblings = OpenSiblings(event[tx[q].event].mobile)
          PROVE  SiblingsApart'
      <3>1. ASSUME NEW p \in Staff \ {q}, NEW e \in tx[p].siblings \intersect tx'[q].siblings
            PROVE  FALSE
        <4>1. tx[p].at # "idle" /\ tx[p].event \in EventId /\ event[tx[p].event].status = "open"
          BY <1>t, <3>1 DEF Shape, NoTransaction, Grounded
        <4>2. event[tx[p].event].mobile = event[tx[q].event].mobile
          BY <1>t, <2>2, <3>1 DEF Grounded, OpenSiblings
        <4>3. tx[p].event \in tx'[q].siblings
          BY <2>2, <4>1, <4>2 DEF OpenSiblings
        <4>. QED
          BY <2>2, <3>1, <4>1, <4>3 DEF SiblingsLeftAlone, At
      <3>. QED
        BY <2>2, <3>1 DEF SiblingsApart
    <2>. QED
      BY <2>1, <2>2, SiblingsStep
  <1>3. SiblingsOpen'
    <2>1. ASSUME NEW p \in Staff, NEW e \in tx'[p].siblings, tx'[p].siblings \subseteq tx[p].siblings,
                 event'[e].status # "open"
          PROVE  FALSE
      <3>1. e \in EventId /\ event[e].status = "open"
        BY <1>1, <2>1 DEF SiblingsOpen
      <3>. PICK q \in Staff : Commit(q) /\ e \in tx[q].saved
        BY <2>1, <3>1, DecidedByCommit
      <3>2. p # q
        BY <2>1 DEF Commit, NoTransaction, IInv, TypeOK
      <3>3. tx[q].at = "commit" /\ e \in tx[q].siblings \union {tx[q].event}
        BY <1>t DEF Commit, At, Shape
      <3>. QED
        BY <2>1, <3>2, <3>3 DEF SiblingsLeftAlone, SiblingsApart, At
    <2>2. ASSUME NEW q \in Staff, \A p \in Staff \ {q} : tx'[p] = tx[p], event' = event,
                 tx'[q].siblings = OpenSiblings(event[tx[q].event].mobile)
          PROVE  SiblingsOpen'
      BY <2>2 DEF SiblingsOpen, OpenSiblings
    <2>. QED
      BY <2>1, <2>2, SiblingsStep DEF SiblingsOpen
  <1>4. ASSUME NEW e \in EventId, event[e].status \in Decided, event'[e].by # event[e].by
        PROVE  FALSE
    <2>. PICK p \in Staff : Commit(p) /\ e \in tx[p].saved
      BY <1>4, DecidedByCommit
    <2>1. tx[p].at # "idle" /\ e \in tx[p].siblings \union {tx[p].event}
      BY <1>t DEF Commit, At, Shape
    <2>2. event[e].status = "open"
      BY <1>t, <2>1 DEF Grounded, SiblingsOpen
    <2>. QED
      BY <1>4, <2>2 DEF Decided
  <1>. QED
    BY <1>2, <1>3, <1>4

(* What enquiry_stands refutes has one cause: as long as nobody decides an *)
(* event that another convert in progress has read as an open sibling, a   *)
(* decision stands, whatever else is decided, rolled back or deleted at    *)
(* the same time (convertEventRecord, lockOpenEvent).                      *)
THEOREM UndisturbedDecisionsStand == Spec /\ []SiblingsLeftAlone => DecisionStands
  <1>1. Init => SiblingsOpen /\ SiblingsApart
    BY DEF Init, NoTransaction, SiblingsOpen, SiblingsApart
  <1>2. IInv /\ SiblingsLeftAlone /\ SiblingsLeftAlone' /\ SiblingsOpen /\ SiblingsApart
          /\ [Next]_vars
          => /\ SiblingsOpen' /\ SiblingsApart'
             /\ [\A e \in EventId : event[e].status \in Decided => event'[e].by = event[e].by]_vars
    BY SiblingsUndisturbed
  <1>. QED
    BY <1>1, <1>2, Invariant, PTL DEF Spec, DecisionStands

-----------------------------------------------------------------------------
(* Deadlocks are of two.                                                   *)

(* A transaction that waits for one which waits itself is one of two that  *)
(* wait for each other, or the latter is: no circle is longer than two.    *)
CirclesArePairs ==
  \A p, q, r, s \in Staff :
    Waits(p, q) /\ Waits(q, r) /\ Waits(r, s) => Waits(q, p) \/ Waits(r, q)

(* All that a decision has locked is of the number of its event.           *)
LEMMA HeldAreOfOneNumber ==
  ASSUME IInv, NEW p \in Staff, NEW e \in Held(p)
  PROVE  e \in EventId /\ event[e].mobile = event[tx[p].event].mobile
  <1>1. /\ tx[p].at # "idle" /\ e \in {tx[p].event} \union tx[p].saved
        /\ Shape(tx[p]) /\ Grounded(tx[p]) /\ tx[p] \in Transaction
    BY DEF IInv, TypeOK, Held, At
  <1>2. e = tx[p].event \/ e \in tx[p].siblings
    BY <1>1 DEF Shape
  <1>3. tx[p].event \in EventId /\ tx[p].siblings \subseteq EventId
    BY <1>1 DEF Shape, Transaction
  <1>. QED
    BY <1>1, <1>2, <1>3 DEF Grounded

(* A convert that saves siblings has inserted the one lead of its number.  *)
LEMMA SaverCreates ==
  ASSUME IInv, NEW p \in Staff, At(p, "save")
  PROVE  /\ tx[p].lead \in LeadId /\ Creates(p)
         /\ lead[tx[p].lead].mobile = event[tx[p].event].mobile
  <1>1. Shape(tx[p]) /\ Grounded(tx[p]) /\ tx[p] \in Transaction /\ tx[p].at = "save"
    BY DEF IInv, TypeOK, At
  <1>2. tx[p].lead # None /\ lead[tx[p].lead].state = "inserted"
    BY <1>1 DEF Shape, Grounded
  <1>. QED
    BY <1>1, <1>2 DEF Grounded, Transaction, Creates

LEMMA OneCreatorPerNumber ==
  ASSUME IInv, NEW p \in Staff, NEW q \in Staff, Creates(p), Creates(q),
         lead[tx[p].lead].mobile = lead[tx[q].lead].mobile
  PROVE  p = q
  <1>1. tx[p].lead \in LeadId /\ tx[q].lead \in LeadId
    BY DEF IInv, TypeOK, Transaction, Creates
  <1>2. tx[p].lead = tx[q].lead
    BY <1>1 DEF IInv, TablesAgree, NumbersUnique, Creates
  <1>. QED
    BY <1>2 DEF IInv, Exclusive

(* A convert at its INSERT waits only for the one that has inserted the    *)
(* number, one that saves siblings only for one that holds that number.    *)
LEMMA SaverMeetsInserter ==
  ASSUME IInv, NEW p \in Staff, NEW q \in Staff, NEW r \in Staff,
         At(p, "save"), Waits(p, q), Waits(q, r)
  PROVE  Waits(q, p)
  <1>1. NextSibling(p) \in Held(q) /\ Unsaved(p) # {} /\ p # q
    BY DEF Waits, At
  <1>2. NextSibling(p) \in tx[p].siblings
    <2>1. NextSibling(p) \in Unsaved(p)
      BY <1>1 DEF NextSibling
    <2>. QED
      BY <2>1 DEF Unsaved
  <1>3. event[NextSibling(p)].mobile = event[tx[p].event].mobile
    BY <1>2 DEF IInv, Grounded
  <1>4. event[tx[q].event].mobile = event[tx[p].event].mobile
    BY <1>1, <1>3, HeldAreOfOneNumber
  <1>5. ~At(q, "save")
    BY <1>1, <1>4, SaverCreates, OneCreatorPerNumber
  <1>6. At(q, "insert")
    BY <1>5 DEF Waits
  <1>. QED
    BY <1>1, <1>4, <1>6, SaverCreates DEF Waits

(* DeadlockVictim looks at pairs, and that is enough for any number of     *)
(* staff: a convert waits for a lead's number or for a sibling's lock, and *)
(* both are of one number, whose lead one convert alone has inserted.      *)
THEOREM DeadlocksArePairs == Spec => []CirclesArePairs
  <1>1. IInv => CirclesArePairs
    <2>. SUFFICES ASSUME IInv, NEW p \in Staff, NEW q \in Staff, NEW r \in Staff, NEW s \in Staff,
                         Waits(p, q), Waits(q, r), Waits(r, s)
                  PROVE  Waits(q, p) \/ Waits(r, q)
      BY DEF CirclesArePairs
    <2>1. CASE At(p, "save")
      BY <2>1, SaverMeetsInserter
    <2>2. CASE At(q, "save")
      BY <2>2, SaverMeetsInserter
    <2>3. CASE At(p, "insert") /\ At(q, "insert")
      <3>1. Creates(q) /\ tx[q].at = "insert"
        BY <2>3 DEF Waits, At
      <3>. QED
        BY <3>1 DEF IInv, Shape, Grounded, Creates
    <2>. QED
      BY <2>1, <2>2, <2>3 DEF Waits
  <1>. QED
    BY <1>1, Invariant, PTL

=============================================================================
