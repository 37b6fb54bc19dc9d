------------------------ MODULE LeadRouting_proofs ------------------------
(***************************************************************************)
(* Theorems about LeadRouting, for any number of staff and of requests.    *)
(***************************************************************************)
EXTENDS LeadRouting, TLAPS

(* What a claim relies on between its UPDATE and its commit: the row lock  *)
(* is its own, and the row it locked is there and still unowned.           *)
ClaimLocks ==
  /\ \A q \in Request : At(q, "claimed") => locked = q
  /\ locked # None => exists /\ row.owner = None

IInv == TypeOK /\ ClaimLocks

-----------------------------------------------------------------------------
(* Requests that read the lead touch neither the row nor the lock.         *)

LEMMA IdleType == IdleRequest \in RequestState /\ NewLead \in Row
  BY RnrAssumption DEF IdleRequest, RequestState, NewLead, Row, HistoryEvent

LEMMA ReadPreserves ==
  ASSUME IInv, NEW q \in Request, NEW event \in HistoryEvent \union {"none"},
         NEW entity \in Row, Read(q, event, entity)
  PROVE  IInv'
  <1>. DEFINE state == [IdleRequest EXCEPT !.at = "save", !.event = event, !.entity = entity]
  <1>1. state \in RequestState /\ state.at = "save"
    BY IdleType DEF RequestState
  <1>2. /\ UNCHANGED <<exists, row, trail, locked>> /\ req' = [req EXCEPT ![q] = state]
        /\ orderly' \in BOOLEAN
    BY DEF Read, Begins, Becomes
  <1>. HIDE DEF state
  <1>3. TypeOK'
    BY <1>1, <1>2 DEF IInv, TypeOK
  <1>4. ClaimLocks'
    BY <1>1, <1>2 DEF IInv, TypeOK, ClaimLocks, At
  <1>. QED
    BY <1>3, <1>4 DEF IInv

(* Each of them changes its copy to another row.                           *)
LEMMA AskPreserves ==
  ASSUME IInv, NEW q \in Request, Ask(q)
  PROVE  IInv'
  <1>. USE DEF IInv, TypeOK
  <1>row. row \in Row
    OBVIOUS
  <1>1. ASSUME NEW s \in Staff, Claim(q, s) PROVE IInv'
    <2>. DEFINE state == [IdleRequest EXCEPT !.at = "claimed", !.by = s]
    <2>1. state \in RequestState
      BY IdleType DEF RequestState
    <2>2. /\ locked = None /\ exists /\ row.owner = None /\ locked' = q
          /\ req' = [req EXCEPT ![q] = state]
          /\ UNCHANGED <<exists, row, trail>> /\ orderly' \in BOOLEAN
      BY <1>1 DEF Claim, ClaimsUnlocked, Begins, Becomes
    <2>. HIDE DEF state
    <2>3. TypeOK'
      BY <2>1, <2>2
    <2>4. \A p \in Request : At(p, "claimed") => p \notin Request
      BY <2>2, NoneAssumption DEF ClaimLocks
    <2>5. ClaimLocks'
      BY <2>2, <2>4 DEF ClaimLocks, At
    <2>. QED
      BY <2>3, <2>5
  <1>2. ASSUME NEW s \in Staff, AssignLead(q, s) PROVE IInv'
    <2>1. [row EXCEPT !.owner = s] \in Row
      BY <1>row DEF Row
    <2>. QED
      BY <1>2, <2>1, ReadPreserves DEF AssignLead, HistoryEvent
  <1>3. ASSUME ReturnToQueue(q) PROVE IInv'
    <2>1. [row EXCEPT !.owner = None] \in Row
      BY <1>row DEF Row
    <2>. QED
      BY <1>3, <2>1, ReadPreserves DEF ReturnToQueue, HistoryEvent
  <1>4. ASSUME Rnr5Release(q) PROVE IInv'
    <2>0. 0 \in 0..RnrLimit
      BY RnrAssumption
    <2>1. [row EXCEPT !.owner = None, !.rnr = 0] \in Row
      BY <1>row, <2>0 DEF Row
    <2>. QED
      BY <1>4, <2>1, ReadPreserves DEF Rnr5Release, HistoryEvent
  <1>5. ASSUME ConvertLead(q) PROVE IInv'
    <2>1. [row EXCEPT !.owner = None, !.status = "Converted"] \in Row
      BY <1>row DEF Row
    <2>. QED
      BY <1>5, <2>1, ReadPreserves DEF ConvertLead, HistoryEvent
  <1>6. ASSUME SiteVisitComplete(q) PROVE IInv'
    <2>1. [row EXCEPT !.department = "sales"] \in Row
      BY <1>row DEF Row
    <2>. QED
      BY <1>6, <2>1, ReadPreserves DEF SiteVisitComplete, HistoryEvent
  <1>7. ASSUME NEW status \in {"open", "visited"}, UpdateLeadStatus(q, status) PROVE IInv'
    <2>1. /\ [row EXCEPT !.status = status] \in Row
          /\ [row EXCEPT !.status = status, !.department = "sales"] \in Row
      BY <1>row DEF Row
    <2>. QED
      BY <1>7, <2>1, ReadPreserves DEF UpdateLeadStatus, SetsStatus, HistoryEvent
  <1>8. ASSUME NEW count \in 0..RnrLimit, AddFollowUp(q, count) PROVE IInv'
    <2>1. [row EXCEPT !.rnr = count] \in Row
      BY <1>row DEF Row
    <2>. QED
      BY <1>8, <2>1, ReadPreserves DEF AddFollowUp
  <1>. QED
    BY <1>1, <1>2, <1>3, <1>4, <1>5, <1>6, <1>7, <1>8 DEF Ask

-----------------------------------------------------------------------------
(* Saves: an UPDATE that changes a column waits for the lock.              *)

(* A request that ends, or goes on to its history row, claims nothing.     *)
LEMMA OtherRequestsKept ==
  ASSUME TypeOK, NEW q \in Request, NEW state \in RequestState, Becomes(q, state),
         state.at # "claimed"
  PROVE  /\ req' \in [Request -> RequestState]
         /\ \A p \in Request : At(p, "claimed")' => At(p, "claimed")
  BY DEF TypeOK, Becomes, At

LEMMA AfterSaveKeeps ==
  ASSUME TypeOK, NEW q \in Request, AfterSave(q)
  PROVE  /\ trail' \in Staff \union {None}
         /\ req' \in [Request -> RequestState]
         /\ \A p \in Request : At(p, "claimed")' => At(p, "claimed")
  <1>. DEFINE history == [IdleRequest EXCEPT !.at = "history", !.event = req[q].event,
               !.entity = [NewLead EXCEPT !.owner = req[q].entity.owner]]
  <1>1. req[q] \in RequestState /\ req[q].entity \in Row
    BY DEF TypeOK, RequestState
  <1>2. history \in RequestState /\ history.at = "history"
    <2>1. [NewLead EXCEPT !.owner = req[q].entity.owner] \in Row
      BY <1>1, IdleType DEF Row
    <2>. QED
      BY <1>1, <2>1, IdleType DEF RequestState
  <1>3. Becomes(q, IdleRequest) \/ Becomes(q, history)
    BY DEF AfterSave, Done, ToHistory
  <1>4. trail' \in Staff \union {None}
    BY <1>1 DEF AfterSave, TypeOK, Row
  <1>5. IdleRequest \in RequestState /\ IdleRequest.at # "claimed"
    BY IdleType DEF IdleRequest
  <1>. HIDE DEF history
  <1>. QED
    BY <1>2, <1>3, <1>4, <1>5, OtherRequestsKept

LEMMA ProceedPreserves ==
  ASSUME IInv, NEW q \in Request, Proceed(q)
  PROVE  IInv'
  <1>. USE DEF IInv
  <1>idle. IdleRequest \in RequestState /\ IdleRequest.at = "idle"
    BY IdleType DEF IdleRequest
  <1>q. req[q] \in RequestState
    BY DEF TypeOK
  <1>1. ASSUME ClaimCommits(q) PROVE IInv'
    <2>1. /\ req[q].at = "claimed" /\ locked = q /\ locked' = None
          /\ req' = [req EXCEPT ![q] = IdleRequest]
          /\ row' = [row EXCEPT !.owner = req[q].by]
          /\ trail' = req[q].by /\ UNCHANGED <<exists, orderly>>
      BY <1>1 DEF ClaimCommits, ClaimLocks, At, Done, Becomes
    <2>2. TypeOK'
      BY <1>idle, <1>q, <2>1 DEF TypeOK, RequestState, Row
    <2>3. ClaimLocks'
      BY <1>idle, <2>1 DEF TypeOK, ClaimLocks, At
    <2>. QED
      BY <2>2, <2>3
  <1>2. ASSUME ClaimFails(q) PROVE IInv'
    <2>1. /\ req[q].at = "claimed" /\ locked = q /\ locked' = None
          /\ req' = [req EXCEPT ![q] = IdleRequest]
          /\ UNCHANGED <<exists, row, trail, orderly>>
      BY <1>2 DEF ClaimFails, ClaimLocks, At, Done, Becomes
    <2>2. TypeOK'
      BY <1>idle, <2>1 DEF TypeOK
    <2>3. ClaimLocks'
      BY <1>idle, <2>1 DEF TypeOK, ClaimLocks, At
    <2>. QED
      BY <2>2, <2>3
  <1>3. ASSUME SaveReads(q) PROVE IInv'
    <2>. DEFINE update == [req[q] EXCEPT !.at = "update", !.dirty = Differing(q)]
                insert == [req[q] EXCEPT !.at = "insert"]
    <2>1. update \in RequestState /\ update.at # "claimed"
      BY <1>q DEF RequestState, Differing
    <2>2. insert \in RequestState /\ insert.at # "claimed"
      BY <1>q DEF RequestState
    <2>3. Becomes(q, update) \/ Becomes(q, insert)
      BY <1>3 DEF SaveReads, Goto, Becomes
    <2>. HIDE DEF update, insert
    <2>4. /\ req' \in [Request -> RequestState]
          /\ \A p \in Request : At(p, "claimed")' => At(p, "claimed")
      BY <2>1, <2>2, <2>3, OtherRequestsKept
    <2>. QED
      BY <1>3, <2>4 DEF SaveReads, TypeOK, ClaimLocks
  <1>4. ASSUME SaveUpdates(q) PROVE IInv'
    <2>1. row' \in Row /\ UNCHANGED <<exists, locked, orderly>>
      BY <1>4, <1>q DEF SaveUpdates, TypeOK, RequestState, Row, Column
    <2>2. locked # None => row' = row
      <3>1. locked # None => req[q].dirty = {}
        BY <1>4 DEF SaveUpdates
      <3>2. row = [c \in Column |-> row[c]]
        BY DEF TypeOK, Row, Column
      <3>. QED
        BY <1>4, <3>1, <3>2 DEF SaveUpdates
    <2>3. AfterSave(q)
      BY <1>4 DEF SaveUpdates
    <2>. QED
      BY <2>1, <2>2, <2>3, AfterSaveKeeps DEF TypeOK, ClaimLocks
  <1>5. ASSUME SaveInserts(q) PROVE IInv'
    <2>1. row' \in Row /\ exists' = TRUE /\ UNCHANGED <<locked, orderly>> /\ locked = None
      BY <1>5, <1>q DEF SaveInserts, ClaimLocks, RequestState
    <2>2. AfterSave(q)
      BY <1>5 DEF SaveInserts
    <2>. QED
      BY <2>1, <2>2, AfterSaveKeeps DEF TypeOK, ClaimLocks
  <1>6. ASSUME SaveFails(q) PROVE IInv'
    BY <1>6, <1>idle, OtherRequestsKept DEF SaveFails, Done, TypeOK, ClaimLocks
  <1>7. ASSUME WriteHistory(q) PROVE IInv'
    <2>1. trail' \in Staff \union {None}
      BY <1>7, <1>q DEF WriteHistory, RequestState, Row
    <2>. QED
      BY <1>7, <2>1, <1>idle, OtherRequestsKept DEF WriteHistory, Done, TypeOK, ClaimLocks
  <1>. QED
    BY <1>1, <1>2, <1>3, <1>4, <1>5, <1>6, <1>7 DEF Proceed

LEMMA InitIInv == Init => IInv
  BY IdleType, NoneAssumption
  DEF Init, IInv, TypeOK, ClaimLocks, At, IdleRequest, NewLead, Row

LEMMA NextIInv == IInv /\ [Next]_vars => IInv'
  <1>. SUFFICES ASSUME IInv, [Next]_vars PROVE IInv'
    OBVIOUS
  <1>1. ASSUME NEW q \in Request, Crash(q) PROVE IInv'
    <2>1. IdleRequest \in RequestState /\ IdleRequest.at = "idle"
      BY IdleType DEF IdleRequest
    <2>. QED
      BY <1>1, <2>1, OtherRequestsKept DEF Crash, Done, IInv, TypeOK, ClaimLocks
  <1>2. ASSUME DeleteLead PROVE IInv'
    BY <1>2 DEF DeleteLead, IInv, TypeOK, ClaimLocks, At
  <1>3. ASSUME UNCHANGED vars PROVE IInv'
    BY <1>3 DEF vars, IInv, TypeOK, ClaimLocks, At
  <1>. QED
    BY <1>1, <1>2, <1>3, AskPreserves, ProceedPreserves DEF Next

(* The lead, its history, its lock and every request keep their types.     *)
THEOREM TypesOK == Spec => []TypeOK
  <1>1. IInv => TypeOK
    BY DEF IInv
  <1>. QED
    BY InitIInv, NextIInv, <1>1, PTL DEF Spec

(* No claim takes a lead somebody owns, for any number of staff and of     *)
(* requests that assign, release, convert, save or delete it meanwhile     *)
(* (claimLead's conditional UPDATE).                                       *)
THEOREM ClaimsTakeUnowned == Spec => ClaimTakesUnowned
  <1>1. IInv => \A q \in Request : ClaimCommits(q) => row.owner = None
    BY NoneAssumption DEF IInv, ClaimLocks, ClaimCommits
  <1>2. IInv /\ [Next]_vars => [\A q \in Request : ClaimCommits(q) => row.owner = None]_vars
    BY <1>1
  <1>. QED
    BY InitIInv, NextIInv, <1>2, PTL DEF Spec, ClaimTakesUnowned

-----------------------------------------------------------------------------
(* One request after the other, each of them completed.                    *)

(* What an only request q carries from step to step: its copy's owner is  *)
(* the row's unless it has a history row to write, and its save leaves the *)
(* row with the copy's owner.                                              *)
InStep(q) ==
  /\ exists
  /\ req[q].at # "insert"
  /\ req[q].at \in {"idle", "claimed", "save", "update"} => trail = row.owner
  /\ req[q].at \in {"save", "update"} /\ req[q].event \in {"none", "Auto-transferred"}
       => req[q].entity.owner = row.owner
  /\ req[q].at = "update" => ("owner" \in req[q].dirty <=> req[q].entity.owner # row.owner)
  /\ req[q].at = "history" => req[q].entity.owner = row.owner

LEMMA ReadInStep ==
  ASSUME TypeOK, NEW q \in Request, InStep(q), NEW event, NEW entity,
         Read(q, event, entity),
         event \in {"none", "Auto-transferred"} => entity.owner = row.owner
  PROVE  InStep(q)'
  <1>. DEFINE state == [IdleRequest EXCEPT !.at = "save", !.event = event, !.entity = entity]
  <1>1. state.at = "save" /\ state.event = event /\ state.entity = entity
    BY DEF IdleRequest
  <1>2. /\ UNCHANGED <<exists, row, trail, locked>> /\ req[q].at = "idle"
        /\ req' = [req EXCEPT ![q] = state]
    BY DEF Read, Begins, Becomes, At
  <1>. HIDE DEF state
  <1>3. req'[q] = state
    BY <1>2 DEF TypeOK
  <1>. QED
    BY <1>1, <1>2, <1>3 DEF InStep

LEMMA AskInStep ==
  ASSUME TypeOK, NEW q \in Request, InStep(q), Ask(q)
  PROVE  InStep(q)'
  <1>row. row \in Row
    BY DEF TypeOK
  <1>1. ASSUME NEW s \in Staff, Claim(q, s) PROVE InStep(q)'
    <2>. DEFINE state == [IdleRequest EXCEPT !.at = "claimed", !.by = s]
    <2>1. state.at = "claimed"
      BY DEF IdleRequest
    <2>2. /\ UNCHANGED <<exists, row, trail>> /\ req[q].at = "idle"
          /\ req' = [req EXCEPT ![q] = state]
      BY <1>1 DEF Claim, ClaimsUnlocked, Begins, Becomes, At
    <2>. HIDE DEF state
    <2>3. req'[q] = state
      BY <2>2 DEF TypeOK
    <2>. QED
      BY <2>1, <2>2, <2>3 DEF InStep
  <1>2. ASSUME NEW s \in Staff, AssignLead(q, s) PROVE InStep(q)'
    BY <1>2, ReadInStep DEF AssignLead
  <1>3. ASSUME ReturnToQueue(q) PROVE InStep(q)'
    BY <1>3, ReadInStep DEF ReturnToQueue
  <1>4. ASSUME Rnr5Release(q) PROVE InStep(q)'
    BY <1>4, ReadInStep DEF Rnr5Release
  <1>5. ASSUME ConvertLead(q) PROVE InStep(q)'
    BY <1>5, ReadInStep DEF ConvertLead
  <1>6. ASSUME SiteVisitComplete(q) PROVE InStep(q)'
    <2>1. [row EXCEPT !.department = "sales"].owner = row.owner
      BY <1>row DEF Row
    <2>. QED
      BY <1>6, <2>1, ReadInStep DEF SiteVisitComplete
  <1>7. ASSUME NEW status \in {"open", "visited"}, UpdateLeadStatus(q, status)
        PROVE  InStep(q)'
    <2>1. /\ [row EXCEPT !.status = status].owner = row.owner
          /\ [row EXCEPT !.status = status, !.department = "sales"].owner = row.owner
      BY <1>row DEF Row
    <2>. QED
      BY <1>7, <2>1, ReadInStep DEF UpdateLeadStatus, SetsStatus
  <1>8. ASSUME NEW count \in 0..RnrLimit, AddFollowUp(q, count) PROVE InStep(q)'
    <2>1. [row EXCEPT !.rnr = count].owner = row.owner
      BY <1>row DEF Row
    <2>. QED
      BY <1>8, <2>1, ReadInStep DEF AddFollowUp
  <1>. QED
    BY <1>1, <1>2, <1>3, <1>4, <1>5, <1>6, <1>7, <1>8 DEF Ask

LEMMA ProceedInStep ==
  ASSUME IInv, NEW q \in Request, InStep(q), Proceed(q)
  PROVE  InStep(q)'
  <1>q. q \in DOMAIN req /\ req[q] \in RequestState
    BY DEF IInv, TypeOK
  <1>idle. IdleRequest.at = "idle"
    BY DEF IdleRequest
  <1>1. ASSUME ClaimCommits(q) PROVE InStep(q)'
    <2>1. row'.owner = trail' /\ exists' = exists /\ req'[q] = IdleRequest
      BY <1>1, <1>q DEF ClaimCommits, Done, Becomes, IInv, TypeOK, Row
    <2>. QED
      BY <1>idle, <2>1 DEF InStep
  <1>2. ASSUME ClaimFails(q) PROVE InStep(q)'
    <2>1. /\ UNCHANGED <<exists, row, trail>> /\ req'[q] = IdleRequest
          /\ req[q].at = "claimed"
      BY <1>2, <1>q DEF ClaimFails, Done, Becomes, At
    <2>. QED
      BY <1>idle, <2>1 DEF InStep
  <1>3. ASSUME SaveReads(q) PROVE InStep(q)'
    <2>. DEFINE update == [req[q] EXCEPT !.at = "update", !.dirty = Differing(q)]
    <2>1. /\ update.at = "update" /\ update.dirty = Differing(q)
          /\ update.event = req[q].event /\ update.entity = req[q].entity
      BY <1>q DEF RequestState
    <2>2. /\ req[q].at = "save" /\ UNCHANGED <<exists, row, trail>>
          /\ req' = [req EXCEPT ![q] = update]
      BY <1>3 DEF SaveReads, Becomes, At, InStep
    <2>. HIDE DEF update
    <2>3. req'[q] = update
      BY <1>q, <2>2
    <2>4. "owner" \in Differing(q) <=> req[q].entity.owner # row.owner
      BY DEF Differing, Column
    <2>. QED
      BY <2>1, <2>2, <2>3, <2>4 DEF InStep
  <1>4. ASSUME SaveUpdates(q) PROVE InStep(q)'
    <2>1. /\ req[q].at = "update" /\ exists' /\ AfterSave(q)
          /\ row'.owner = req[q].entity.owner
      BY <1>4 DEF SaveUpdates, At, Column, InStep
    <2>2. CASE req[q].event = "Auto-transferred"
      <3>1. trail' = req[q].entity.owner /\ req'[q] = IdleRequest
        BY <1>q, <2>1, <2>2 DEF AfterSave, Done, Becomes
      <3>. QED
        BY <1>idle, <2>1, <3>1 DEF InStep
    <2>3. CASE req[q].event = "none"
      <3>1. trail' = trail /\ req'[q] = IdleRequest
        BY <1>q, <2>1, <2>3 DEF AfterSave, Done, Becomes
      <3>. QED
        BY <1>idle, <2>1, <2>3, <3>1 DEF InStep
    <2>4. CASE req[q].event \notin {"none", "Auto-transferred"}
      <3>. DEFINE history == [IdleRequest EXCEPT !.at = "history", !.event = req[q].event,
                     !.entity = [NewLead EXCEPT !.owner = req[q].entity.owner]]
      <3>1. history.at = "history" /\ history.entity.owner = req[q].entity.owner
        BY DEF IdleRequest, NewLead
      <3>2. req' = [req EXCEPT ![q] = history]
        BY <2>1, <2>4 DEF AfterSave, ToHistory, Becomes
      <3>. HIDE DEF history
      <3>3. req'[q] = history
        BY <1>q, <3>2
      <3>. QED
        BY <2>1, <3>1, <3>3 DEF InStep
    <2>. QED
      BY <2>2, <2>3, <2>4
  <1>5. ~SaveInserts(q) /\ ~SaveFails(q)
    BY DEF SaveInserts, SaveFails, At, InStep
  <1>6. ASSUME WriteHistory(q) PROVE InStep(q)'
    <2>1. /\ trail' = req[q].entity.owner /\ req'[q] = IdleRequest
          /\ UNCHANGED <<exists, row>> /\ req[q].at = "history"
      BY <1>6, <1>q DEF WriteHistory, Done, Becomes, At
    <2>. QED
      BY <1>idle, <2>1 DEF InStep
  <1>. QED
    BY <1>1, <1>2, <1>3, <1>4, <1>5, <1>6 DEF Proceed

(* While requests are orderly, one at most is running, and in step.        *)
InOrder ==
  orderly =>
    /\ exists
    /\ AtRest => trail = row.owner
    /\ \A q \in Request : ~At(q, "idle") =>
         InStep(q) /\ \A p \in Request \ {q} : At(p, "idle")

(* Whatever is asked, the request begins and has a record of its own.      *)
LEMMA AskBegins ==
  ASSUME IInv, NEW q \in Request, Ask(q)
  PROVE  \E state : /\ state.at \in {"save", "claimed"}
                    /\ Begins(q) /\ Becomes(q, state)
  <1>1. ASSUME NEW s \in Staff, Claim(q, s)
        PROVE  \E state : state.at = "claimed" /\ Begins(q) /\ Becomes(q, state)
    <2>1. [IdleRequest EXCEPT !.at = "claimed", !.by = s].at = "claimed"
      BY DEF IdleRequest
    <2>. QED
      BY <1>1, <2>1 DEF Claim, ClaimsUnlocked
  <1>2. ASSUME NEW event, NEW entity, Read(q, event, entity)
        PROVE  \E state : state.at = "save" /\ Begins(q) /\ Becomes(q, state)
    <2>1. [IdleRequest EXCEPT !.at = "save", !.event = event, !.entity = entity].at = "save"
      BY DEF IdleRequest
    <2>. QED
      BY <1>2, <2>1 DEF Read
  <1>3. (\E s \in Staff : Claim(q, s)) \/ (\E event, entity : Read(q, event, entity))
    BY DEF Ask, AssignLead, ReturnToQueue, Rnr5Release, ConvertLead,
           SiteVisitComplete, UpdateLeadStatus, SetsStatus, AddFollowUp
  <1>. QED
    BY <1>1, <1>2, <1>3

LEMMA AskInOrder ==
  ASSUME IInv, InOrder, NEW q \in Request, Ask(q)
  PROVE  InOrder'
  <1>1. PICK state : state.at \in {"save", "claimed"} /\ Begins(q) /\ Becomes(q, state)
    BY AskBegins
  <1>2. \A p \in Request \ {q} : req'[p] = req[p]
    BY <1>1 DEF Becomes, IInv, TypeOK
  <1>3. ~At(q, "idle")'
    BY <1>1 DEF Becomes, At, IInv, TypeOK
  <1>. SUFFICES ASSUME orderly' PROVE InOrder'
    BY DEF InOrder
  <1>4. orderly /\ AtRest
    BY <1>1 DEF Begins, AtRest
  <1>5. InStep(q)
    BY <1>4 DEF InOrder, InStep, AtRest, At
  <1>6. InStep(q)'
    BY <1>5, AskInStep DEF IInv
  <1>7. \A p \in Request \ {q} : At(p, "idle")'
    BY <1>2, <1>4 DEF AtRest, At
  <1>8. exists'
    BY <1>6 DEF InStep
  <1>. QED
    BY <1>3, <1>6, <1>7, <1>8 DEF InOrder, AtRest

LEMMA ProceedInOrder ==
  ASSUME IInv, InOrder, NEW q \in Request, Proceed(q)
  PROVE  InOrder'
  <1>1. orderly' = orderly
    BY DEF Proceed, ClaimCommits, ClaimFails, SaveReads, SaveUpdates, SaveInserts, SaveFails,
           WriteHistory
  <1>2. \A p \in Request \ {q} : req'[p] = req[p]
    <2>1. \E state : Becomes(q, state)
      <3>1. AfterSave(q) => \E state : Becomes(q, state)
        BY DEF AfterSave, ToHistory, Done
      <3>2. SaveReads(q) => \E state : Becomes(q, state)
        <4>1. Goto(q, "insert") => Becomes(q, [req[q] EXCEPT !.at = "insert"])
          BY DEF Goto, Becomes, IInv, TypeOK
        <4>. QED
          BY <4>1 DEF SaveReads
      <3>. QED
        BY <3>1, <3>2 DEF Proceed, ClaimCommits, ClaimFails, SaveUpdates, SaveInserts, SaveFails,
           WriteHistory, Done
    <2>. QED
      BY <2>1 DEF Becomes, IInv, TypeOK
  <1>3. ~At(q, "idle")
    BY DEF Proceed, ClaimCommits, ClaimFails, SaveReads, SaveUpdates, SaveInserts, SaveFails,
           WriteHistory, At
  <1>. SUFFICES ASSUME orderly' PROVE InOrder'
    BY DEF InOrder
  <1>4. InStep(q) /\ \A p \in Request \ {q} : At(p, "idle")
    BY <1>1, <1>3 DEF InOrder
  <1>5. InStep(q)'
    BY <1>4, ProceedInStep
  <1>6. \A p \in Request \ {q} : At(p, "idle")'
    BY <1>2, <1>4 DEF At
  <1>7. exists' /\ (At(q, "idle")' => trail' = row'.owner)
    BY <1>5 DEF InStep, At
  <1>. QED
    BY <1>5, <1>6, <1>7 DEF InOrder, AtRest

(* As long as requests come one after the other and are not cut off, the   *)
(* history names the owner: no handler forgets its history row or writes   *)
(* another owner than it saves, whatever the lead went through before.     *)
THEOREM OrderlyTrailNamesOwner == Spec => []TrailNamesOwner
  <1>1. Init => InOrder
    BY DEF Init, InOrder, At, IdleRequest
  <1>2. IInv /\ InOrder /\ [Next]_vars => InOrder'
    <2>1. (\E q \in Request : Crash(q)) \/ DeleteLead => InOrder'
      BY DEF Crash, DeleteLead, InOrder
    <2>2. UNCHANGED vars /\ InOrder => InOrder'
      BY DEF vars, InOrder, InStep, AtRest, At
    <2>. QED
      BY <2>1, <2>2, AskInOrder, ProceedInOrder DEF Next
  <1>3. InOrder => TrailNamesOwner
    BY DEF InOrder, TrailNamesOwner
  <1>. QED
    BY InitIInv, NextIInv, <1>1, <1>2, <1>3, PTL DEF Spec

-----------------------------------------------------------------------------
(* When a transfer does keep the owner.  Its save writes the owner only if *)
(* that was changed between its findOne and the read inside the save.      *)

Transfers(q, step) == At(q, step) /\ req[q].event = "Auto-transferred"

OwnerLeftAlone == (\E q \in Request : Transfers(q, "save")) => row'.owner = row.owner

CopiesUpToDate ==
  \A q \in Request : /\ Transfers(q, "save") => req[q].entity.owner = row.owner
                     /\ Transfers(q, "update") => "owner" \notin req[q].dirty

(* What a request can come to, as far as a transfer is concerned.          *)
LEMMA RequestStep ==
  ASSUME IInv, [Next]_vars, NEW p \in Request
  PROVE  \/ req'[p] = req[p]
         \/ req'[p].at \notin {"save", "update"}
         \/ req'[p].event # "Auto-transferred"
         \/ UNCHANGED row /\ req'[p].at = "save" /\ req'[p].entity.owner = row.owner
         \/ SaveReads(p) /\ exists
  <1>. USE DEF IInv, TypeOK
  <1>1. ASSUME NEW q \in Request, q # p, Ask(q) \/ Proceed(q) \/ Crash(q)
        PROVE  req'[p] = req[p]
    BY <1>1
    DEF Ask, Claim, ClaimsUnlocked, AssignLead, ReturnToQueue, Rnr5Release, ConvertLead,
        SiteVisitComplete, UpdateLeadStatus, SetsStatus, AddFollowUp, Read, Becomes, Proceed,
        ClaimCommits, ClaimFails, SaveReads, SaveUpdates, SaveInserts, SaveFails, WriteHistory,
        AfterSave, ToHistory, Goto, Done, Crash
  <1>2. ASSUME NEW event, NEW entity, Read(p, event, entity),
               event = "Auto-transferred" => entity.owner = row.owner
        PROVE  \/ req'[p].event # "Auto-transferred"
               \/ UNCHANGED row /\ req'[p].at = "save" /\ req'[p].entity.owner = row.owner
    BY <1>2 DEF Read, Becomes, IdleRequest
  <1>3. ASSUME Ask(p)
        PROVE  \/ req'[p].event # "Auto-transferred"
               \/ UNCHANGED row /\ req'[p].at = "save" /\ req'[p].entity.owner = row.owner
    <2>1. CASE \E s \in Staff : Claim(p, s)
      BY <2>1 DEF Claim, ClaimsUnlocked, Becomes, IdleRequest
    <2>2. \A status, department : /\ [row EXCEPT !.department = department].owner = row.owner
                                  /\ [row EXCEPT !.status = status,
                                                 !.department = department].owner = row.owner
      BY DEF Row
    <2>. QED
      BY <1>2, <1>3, <2>1, <2>2
      DEF Ask, AssignLead, ReturnToQueue, Rnr5Release, ConvertLead, SiteVisitComplete,
          UpdateLeadStatus, SetsStatus, AddFollowUp
  <1>4. ASSUME Proceed(p), ~(SaveReads(p) /\ exists)
        PROVE  req'[p].at \notin {"save", "update"}
    <2>1. IdleRequest.at = "idle"
      BY DEF IdleRequest
    <2>2. CASE ToHistory(p)
      BY <2>2 DEF ToHistory, Becomes, IdleRequest
    <2>3. CASE Done(p)
      BY <2>1, <2>3 DEF Done, Becomes
    <2>4. CASE SaveReads(p)
      BY <1>4, <2>4 DEF SaveReads, Goto, RequestState
    <2>. QED
      BY <1>4, <2>2, <2>3, <2>4
      DEF Proceed, ClaimCommits, ClaimFails, SaveUpdates, SaveInserts, SaveFails, WriteHistory,
          AfterSave
  <1>5. ASSUME Crash(p)
        PROVE  req'[p].at \notin {"save", "update"}
    BY <1>5 DEF Crash, Done, Becomes, IdleRequest
  <1>6. CASE DeleteLead \/ UNCHANGED vars
    BY <1>6 DEF DeleteLead, vars
  <1>. QED
    BY <1>1, <1>3, <1>4, <1>5, <1>6 DEF Next

LEMMA CopiesStayUpToDate ==
  ASSUME IInv, [Next]_vars, CopiesUpToDate, OwnerLeftAlone
  PROVE  CopiesUpToDate'
  <1>. SUFFICES ASSUME NEW p \in Request, req'[p].event = "Auto-transferred"
                PROVE  /\ req'[p].at = "save" => req'[p].entity.owner = row'.owner
                       /\ req'[p].at = "update" => "owner" \notin req'[p].dirty
    BY DEF CopiesUpToDate, Transfers, At
  <1>1. CASE req'[p] = req[p]
    BY <1>1 DEF CopiesUpToDate, OwnerLeftAlone, Transfers, At
  <1>2. CASE SaveReads(p) /\ exists
    <2>1. /\ req'[p].at = "update" /\ req'[p].dirty = Differing(p)
          /\ req'[p].event = req[p].event /\ req[p].at = "save"
      BY <1>2 DEF SaveReads, Becomes, At, IInv, TypeOK, RequestState
    <2>2. req[p].entity.owner = row.owner
      BY <2>1 DEF CopiesUpToDate, Transfers, At
    <2>3. "owner" \notin Differing(p)
      BY <2>2 DEF Differing, IInv, TypeOK, RequestState, Row
    <2>. QED
      BY <2>1, <2>3
  <1>. QED
    BY <1>1, <1>2, RequestStep

(* What lead_transfer refutes has one cause: as long as the owner does not *)
(* change between a transfer's findOne and the read inside its save, every *)
(* transfer keeps the owner, also one who comes between that read and the  *)
(* UPDATE (transferLeadToSales, claimLead, assignLead).                    *)
THEOREM UndisturbedTransfersKeepOwner == Spec /\ [][OwnerLeftAlone]_vars => TransferKeepsOwner
  <1>1. Init => CopiesUpToDate
    BY DEF Init, IdleRequest, CopiesUpToDate, Transfers, At
  <1>2. OwnerLeftAlone \/ UNCHANGED vars => OwnerLeftAlone
    BY DEF OwnerLeftAlone, vars
  <1>3. IInv /\ [Next]_vars /\ CopiesUpToDate /\ [OwnerLeftAlone]_vars => CopiesUpToDate'
    BY <1>2, CopiesStayUpToDate
  <1>4. CopiesUpToDate /\ IInv
          => [\A q \in Request : Saves(q, "Auto-transferred") => row'.owner = row.owner]_vars
    <2>. SUFFICES ASSUME CopiesUpToDate, IInv, NEW q \in Request, Saves(q, "Auto-transferred")
                  PROVE  row'.owner = row.owner
      OBVIOUS
    <2>1. "owner" \notin req[q].dirty
      BY DEF Saves, SaveUpdates, CopiesUpToDate, Transfers
    <2>. QED
      BY <2>1 DEF Saves, SaveUpdates, Column
  <1>5. Spec => []IInv
    BY InitIInv, NextIInv, PTL DEF Spec
  <1>. QED
    BY <1>1, <1>3, <1>4, <1>5, PTL DEF Spec, TransferKeepsOwner

=============================================================================
