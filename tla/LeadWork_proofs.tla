--------------------------- MODULE LeadWork_proofs ---------------------------
(***************************************************************************)
(* Theorems about what staff keep of a lead, for any number of requests:   *)
(* the visits its enquiries hold and the emails that confirm them          *)
(* (LeadVisits), for any number of days and of enquiries that an email     *)
(* looks at, and the documents uploaded to it (LeadDocuments); and the     *)
(* connections its requests hold (ConnectionPool).                         *)
(***************************************************************************)
EXTENDS LeadVisits, LeadDocuments, ConnectionPool, FiniteSetTheorems,
        SequenceTheorems, WellFoundedInduction, TLAPS

Row == [date : Day \union {Nil}, slot : Slot \union {Nil}]

Copy == [at : {"visit", "edit", "copy", "save"}, row : Nat, entity : Row,
         columns : SUBSET {"date", "slot"}]

VisitsTypeOK ==
  /\ patron \in {"none", "stored", "deleted"}
  /\ enquiries \in Seq(Row) /\ Len(enquiries) <= MaxEnquiries
  /\ patron # "stored" => enquiries = <<>>
  /\ call \in [Booker -> Copy \union [at : {"idle", "announce"}]]
  /\ booked \in Row
  /\ inTurn \in BOOLEAN /\ lost \in BOOLEAN

(* What a request holds of the enquiries, as long as there is a lead.      *)
HoldsRow(q) ==
  /\ call[q].at = "visit" => call[q].entity \in Visit /\ call[q].row <= Len(enquiries)
  /\ call[q].at = "edit" => call[q].row = 0 /\ call[q].entity = NoVisit
  /\ call[q].at \in {"copy", "save"} => call[q].row \in DOMAIN enquiries

(* In turn, it holds them as they are.                                     *)
HoldsTheLatest(q) ==
  /\ call[q].at = "visit" => call[q].row = Len(enquiries)
  /\ call[q].at \in {"copy", "save"} => call[q].entity = enquiries[call[q].row]
  /\ call[q].at \in {"visit", "save"} =>
       call[q].columns = Differing(RowAt(call[q].row), call[q].entity)

Alone(q) == \A r \in Booker \ {q} : call[r] = Resting

CallsOK ==
  /\ patron = "none" => \A q \in Booker : call[q].at \in {"idle", "announce"}
  /\ HasLead => \A q \in Booker : HoldsRow(q) /\ (inTurn => HoldsTheLatest(q))

TurnsOK == inTurn => \A q \in Booker : call[q] # Resting => Alone(q)

Announced == \E q \in Booker : call[q].at = "announce"

(* The visits that are drafted, or that a handler has composed a draft of. *)
Composed == {mailing[q].visit : q \in {r \in Booker : mailing[r] # Resting}}
Suggested == drafted \union Composed \union {NoVisit}

ShownOK ==
  /\ inTurn => Shown = booked /\ Shown \in followUps \union {NoVisit}
  /\ Announced \/ lost \/ Shown \in Suggested

VisitsInv == VisitsTypeOK /\ CallsOK /\ TurnsOK /\ ShownOK

Handling == [at : {"composed", "withdraw", "insert"}, visit : Row]

MailTypeOK ==
  /\ mailing \in [Booker -> Handling \union {Resting}]
  /\ overtaken \in BOOLEAN
  /\ open \subseteq drafted

Mailing(q) == mailing[q] # Resting

(* As long as handlers run one at a time.                                  *)
OneByOne ==
  /\ \A q, r \in Booker : Mailing(q) /\ Mailing(r) => q = r
  /\ \A q \in Booker :
       /\ mailing[q].at \in {"withdraw", "insert"} => mailing[q].visit \notin drafted
       /\ mailing[q].at = "insert" => open = {}
       /\ Mailing(q) /\ Shown \in drafted => Shown \in again \union {mailing[q].visit}
  /\ Shown \in drafted => Shown \in open \union again
  /\ \A v, w \in open : v = w

MailInv == MailTypeOK /\ (overtaken \/ OneByOne)

-----------------------------------------------------------------------------

LessThan == {pair \in Nat \X Nat : pair[1] < pair[2]}

LEMMA LessThanWellFounded == IsWellFoundedOn(LessThan, Nat)
  BY NatLessThanWellFounded DEF OpToRel, LessThan

LEMMA HasLatest ==
  ASSUME NEW n \in Nat, NEW S \in SUBSET (1 .. n), S # {}
  PROVE  Latest(S) \in S /\ \A j \in S : j <= Latest(S)
  <1>. DEFINE T == {n - i : i \in S}
  <1>1. T \subseteq Nat /\ T # {}
    <2>1. \A i \in S : n - i \in Nat
      OBVIOUS
    <2>2. PICK i \in S : TRUE
      OBVIOUS
    <2>3. n - i \in T
      OBVIOUS
    <2>. QED
      BY <2>1, <2>3
  <1>2. PICK x \in T : \A y \in T : <<y, x>> \notin LessThan
    <2>. HIDE DEF T
    <2>. QED
      BY <1>1, LessThanWellFounded, WFMin
  <1>3. PICK i \in S : x = n - i
    OBVIOUS
  <1>4. ASSUME NEW j \in S
        PROVE  j <= i
    <2>1. n - j \in T
      OBVIOUS
    <2>2. i \in 1 .. n /\ j \in 1 .. n
      OBVIOUS
    <2>3. n - j \in Nat /\ n - i \in Nat
      BY <2>2
    <2>. HIDE DEF T
    <2>4. ~(n - j < n - i)
      BY <1>2, <1>3, <2>1, <2>3 DEF LessThan
    <2>. QED
      BY <2>2, <2>4
  <1>. QED
    BY <1>4 DEF Latest

VisitedIn(s) == {i \in DOMAIN s : i > Len(s) - Window /\ s[i].date # Nil}

ShownIn(s) == IF VisitedIn(s) = {} THEN NoVisit ELSE s[Latest(VisitedIn(s))]

LEMMA ShownIsShownIn == Shown = ShownIn(enquiries)
  BY DEF Shown, ShownIn, Visited, VisitedIn

(* The visit of the latest enquiry that has one.                           *)
LEMMA ShowsTheLatest ==
  ASSUME NEW s \in Seq(Row), Len(s) <= Window, NEW k \in DOMAIN s, s[k].date # Nil,
         \A i \in (k + 1) .. Len(s) : s[i].date = Nil
  PROVE  ShownIn(s) = s[k]
  <1>. DEFINE S == VisitedIn(s)
  <1>1. S \in SUBSET (1 .. Len(s)) /\ k \in S /\ \A i \in S : i <= k
    BY WindowAssumption DEF VisitedIn
  <1>2. Latest(S) \in S /\ k <= Latest(S) /\ Latest(S) <= k
    <2>1. Len(s) \in Nat
      OBVIOUS
    <2>. HIDE DEF S
    <2>2. Latest(S) \in S /\ \A j \in S : j <= Latest(S)
      BY <1>1, <2>1, HasLatest
    <2>. QED
      BY <1>1, <2>2
  <1>3. Latest(S) = k
    BY <1>1, <1>2
  <1>. QED
    BY <1>1, <1>3 DEF ShownIn

(* Enquiries without a visit do not change it.                             *)
LEMMA ShowsNoLess ==
  ASSUME NEW s \in Seq(Row), NEW t \in Seq(Row), Len(s) <= Len(t), Len(t) <= Window,
         \A i \in 1 .. Len(s) : t[i] = s[i],
         \A i \in (Len(s) + 1) .. Len(t) : t[i].date = Nil
  PROVE  ShownIn(t) = ShownIn(s)
  <1>1. VisitedIn(t) = VisitedIn(s)
    <2>1. Len(s) \in Nat /\ Len(t) \in Nat /\ DOMAIN s = 1 .. Len(s) /\ DOMAIN t = 1 .. Len(t)
      OBVIOUS
    <2>2. VisitedIn(t) \subseteq VisitedIn(s)
      BY <2>1, WindowAssumption DEF VisitedIn
    <2>3. VisitedIn(s) \subseteq VisitedIn(t)
      BY <2>1, WindowAssumption DEF VisitedIn
    <2>. QED
      BY <2>2, <2>3
  <1>2. VisitedIn(s) # {} => Latest(VisitedIn(s)) \in 1 .. Len(s)
    <2>1. VisitedIn(s) \in SUBSET (1 .. Len(s)) /\ Len(s) \in Nat
      BY DEF VisitedIn
    <2>. QED
      BY <2>1, HasLatest
  <1>. QED
    BY <1>1, <1>2 DEF ShownIn

-----------------------------------------------------------------------------

LEMMA AlteredRow ==
  ASSUME NEW row \in Row, NEW new \in Row, NEW columns \in SUBSET {"date", "slot"}
  PROVE  /\ Altered(row, new, columns) \in Row
         /\ columns = {} => Altered(row, new, columns) = row
         /\ columns = Differing(row, new) => Altered(row, new, columns) = new
  <1>. DEFINE a == Altered(row, new, columns)
  <1>1. DOMAIN row = {"date", "slot"} /\ DOMAIN new = {"date", "slot"}
    BY DEF Row
  <1>2. a = [date |-> IF "date" \in columns THEN new.date ELSE row.date,
             slot |-> IF "slot" \in columns THEN new.slot ELSE row.slot]
    BY <1>1 DEF Altered
  <1>3. a \in Row
    BY <1>2 DEF Row
  <1>4. ASSUME columns = {}
        PROVE  a = row
    BY <1>2, <1>4 DEF Row
  <1>5. ASSUME columns = Differing(row, new)
        PROVE  a = new
    <2>1. ("date" \in columns <=> row.date # new.date) /\ ("slot" \in columns <=> row.slot # new.slot)
      BY <1>1, <1>5 DEF Differing
    <2>. QED
      BY <1>2, <2>1 DEF Row
  <1>. QED
    BY <1>3, <1>4, <1>5

LEMMA InsertedShows ==
  ASSUME VisitsTypeOK, NEW rows \in Seq(Visit \union {NoVisit}), Inserts(rows)
  PROVE  /\ enquiries' \in Seq(Row) /\ Len(enquiries') <= MaxEnquiries
         /\ Len(enquiries) <= Len(enquiries')
         /\ patron' = "stored"
         /\ (\A i \in DOMAIN rows : rows[i] = NoVisit) =>
              Shown' = Shown /\ (inTurn' => booked' = booked)
         /\ (\E i \in DOMAIN rows : rows[i] # NoVisit) =>
              /\ \E i \in DOMAIN rows : rows[i] # NoVisit /\ Shown' = rows[i]
              /\ inTurn' => booked' = Shown'
         /\ booked' \in Row
  <1>. DEFINE dated == {i \in DOMAIN rows : rows[i] # NoVisit}
              s == enquiries
              t == enquiries \o rows
  <1>1. s \in Seq(Row) /\ Len(s) \in Nat /\ Len(rows) \in Nat /\ DOMAIN rows = 1 .. Len(rows)
    BY DEF VisitsTypeOK
  <1>2. Visit \union {NoVisit} \subseteq Row
    BY DEF Visit, NoVisit, Row
  <1>3. rows \in Seq(Row)
    BY <1>2
  <1>4. t \in Seq(Row) /\ Len(t) = Len(s) + Len(rows) /\ Len(t) <= MaxEnquiries
    BY <1>1, <1>3 DEF Inserts
  <1>5. MaxEnquiries \in Nat /\ MaxEnquiries <= Window
    BY WindowAssumption
  <1>6. /\ \A i \in 1 .. Len(s) : t[i] = s[i]
        /\ \A i \in 1 .. Len(rows) : t[Len(s) + i] = rows[i]
    BY <1>1, <1>3
  <1>7. enquiries' = t /\ patron' = "stored" /\ Shown = ShownIn(s) /\ Shown' = ShownIn(t)
    BY ShownIsShownIn DEF Inserts, Shown, ShownIn, Visited, VisitedIn
  <1>8. booked' = IF ~inTurn' THEN NoVisit
                  ELSE IF dated = {} THEN booked ELSE rows[Latest(dated)]
    BY DEF Inserts, Booked
  <1>9. Len(s) <= Len(t) /\ Len(t) <= Window
    <2>1. Len(t) = Len(s) + Len(rows) /\ Len(t) <= MaxEnquiries
      BY <1>4
    <2>2. Len(s) \in Nat /\ Len(rows) \in Nat
      BY <1>1
    <2>. HIDE DEF s, t
    <2>. QED
      BY <1>5, <2>1, <2>2, WindowAssumption
  <1>10. CASE dated = {}
    <2>1. \A i \in (Len(s) + 1) .. Len(t) : t[i] = NoVisit
      <3>. SUFFICES ASSUME NEW i \in (Len(s) + 1) .. Len(t)
                    PROVE  t[i] = NoVisit
        OBVIOUS
      <3>1. i - Len(s) \in 1 .. Len(rows) /\ i = Len(s) + (i - Len(s))
        BY <1>1, <1>4
      <3>2. t[i] = rows[i - Len(s)]
        BY <1>6, <3>1
      <3>. QED
        BY <1>1, <1>10, <3>1, <3>2
    <2>2. ShownIn(t) = ShownIn(s)
      <3>1. \A i \in (Len(s) + 1) .. Len(t) : t[i].date = Nil
        BY <2>1 DEF NoVisit
      <3>. HIDE DEF t, s
      <3>. QED
        BY <1>1, <1>4, <1>6, <1>9, <3>1, ShowsNoLess
    <2>3. booked' \in Row /\ (inTurn' => booked' = booked)
      BY <1>2, <1>8, <1>10 DEF VisitsTypeOK
    <2>. QED
      BY <1>1, <1>4, <1>7, <1>10, <2>2, <2>3
  <1>11. CASE dated # {}
    <2>. DEFINE m == Latest(dated)
    <2>1. m \in dated /\ \A j \in dated : j <= m
      <3>1. dated \in SUBSET (1 .. Len(rows))
        BY <1>1
      <3>. HIDE DEF dated
      <3>. QED
        BY <1>1, <1>11, <3>1, HasLatest
    <2>2. m \in 1 .. Len(rows) /\ rows[m] # NoVisit /\ rows[m] \in Visit
      <3>1. m \in 1 .. Len(rows) /\ rows[m] # NoVisit
        BY <1>1, <2>1
      <3>2. rows[m] \in Visit \union {NoVisit}
        BY <3>1
      <3>. QED
        BY <3>1, <3>2
    <2>3. rows[m].date # Nil
      BY <2>2, NilAssumption DEF Visit
    <2>4. \A i \in (Len(s) + m + 1) .. Len(t) : t[i].date = Nil
      <3>. SUFFICES ASSUME NEW i \in (Len(s) + m + 1) .. Len(t)
                    PROVE  t[i].date = Nil
        OBVIOUS
      <3>. HIDE DEF m
      <3>1. i - Len(s) \in 1 .. Len(rows) /\ i = Len(s) + (i - Len(s)) /\ ~(i - Len(s) <= m)
        BY <1>1, <1>4, <2>2
      <3>2. i - Len(s) \notin dated
        BY <2>1, <3>1
      <3>3. t[i] = rows[i - Len(s)] /\ rows[i - Len(s)] = NoVisit
        BY <1>1, <1>6, <3>1, <3>2
      <3>. QED
        BY <3>3 DEF NoVisit
    <2>5. ShownIn(t) = rows[m]
      <3>. DEFINE k == Len(s) + m
      <3>1. k \in DOMAIN t /\ t[k] = rows[m]
        <4>. HIDE DEF m
        <4>. QED
          BY <1>1, <1>4, <1>6, <2>2
      <3>. HIDE DEF t, m
      <3>3. \A i \in (k + 1) .. Len(t) : t[i].date = Nil
        BY <2>4
      <3>4. t[k].date # Nil
        BY <2>3, <3>1
      <3>. HIDE DEF k
      <3>5. ShownIn(t) = t[k]
        BY <1>4, <1>9, <3>1, <3>3, <3>4, ShowsTheLatest
      <3>. QED
        BY <3>1, <3>5
    <2>6. booked' \in Row /\ (inTurn' => booked' = rows[m])
      BY <1>2, <1>8, <1>11, <2>2
    <2>7. \E i \in DOMAIN rows : rows[i] # NoVisit
      BY <1>1, <2>2
    <2>. HIDE DEF m
    <2>. QED
      BY <1>1, <1>4, <1>7, <2>2, <2>5, <2>6, <2>7
  <1>. QED
    BY <1>10, <1>11

(* What the other requests hold outlasts a request that ends.              *)
LEMMA OthersHold ==
  ASSUME VisitsTypeOK, CallsOK, NEW q \in Booker, NEW next \in [at : {"idle", "announce"}],
         Continues(q, next), patron # "deleted", patron' = "stored",
         enquiries' \in Seq(Row), Len(enquiries) <= Len(enquiries'),
         inTurn' => Alone(q)
  PROVE  /\ call' \in [Booker -> Copy \union [at : {"idle", "announce"}]]
         /\ call'[q] = next /\ \A r \in Booker \ {q} : call'[r] = call[r]
         /\ CallsOK' /\ TurnsOK'
  <1>1. /\ call' \in [Booker -> Copy \union [at : {"idle", "announce"}]]
        /\ call'[q] = next
        /\ \A r \in Booker \ {q} : call'[r] = call[r]
    BY DEF Continues, VisitsTypeOK
  <1>2. ASSUME NEW r \in Booker
        PROVE  HoldsRow(r)'
    <2>1. CASE call'[r].at \in {"idle", "announce"}
      BY <2>1 DEF HoldsRow
    <2>2. CASE call'[r].at \notin {"idle", "announce"}
      <3>1. r # q /\ call'[r] = call[r]
        BY <1>1, <2>2
      <3>2. patron # "none"
        BY <2>2, <3>1 DEF CallsOK
      <3>3. HoldsRow(r)
        BY <3>2 DEF CallsOK, HasLead, VisitsTypeOK
      <3>4. call[r].row \in Nat
        BY <2>2, <3>1 DEF VisitsTypeOK, Copy
      <3>5. Len(enquiries) \in Nat /\ DOMAIN enquiries = 1 .. Len(enquiries)
        BY DEF VisitsTypeOK
      <3>6. Len(enquiries') \in Nat /\ DOMAIN enquiries' = 1 .. Len(enquiries')
        OBVIOUS
      <3>. QED
        BY <3>1, <3>3, <3>4, <3>5, <3>6 DEF HoldsRow
    <2>. QED
      BY <2>1, <2>2
  <1>3. ASSUME NEW r \in Booker, inTurn'
        PROVE  HoldsTheLatest(r)'
    <2>1. call'[r].at \in {"idle", "announce"}
      BY <1>1, <1>3 DEF Alone, Resting
    <2>. QED
      BY <2>1 DEF HoldsTheLatest
  <1>4. CallsOK'
    BY <1>2, <1>3 DEF CallsOK
  <1>5. TurnsOK'
    BY <1>1 DEF TurnsOK, Alone
  <1>. QED
    BY <1>1, <1>4, <1>5

(* A transaction that inserts, and its event.                              *)
LEMMA InsertsPreserve ==
  ASSUME VisitsInv, NEW q \in Booker, NEW rows \in Seq(Visit \union {NoVisit}),
         NEW next \in [at : {"idle", "announce"}],
         Starts(q), Inserts(rows), Continues(q, next),
         (\E i \in DOMAIN rows : rows[i] # NoVisit) => next.at = "announce",
         \A i \in DOMAIN rows : rows[i] \in followUps' \union {NoVisit},
         followUps \subseteq followUps', UNCHANGED <<mailVars, lost>>
  PROVE  VisitsInv'
  <1>. USE DEF VisitsInv
  <1>. DEFINE dated == \E i \in DOMAIN rows : rows[i] # NoVisit
  <1>1. /\ enquiries' \in Seq(Row) /\ Len(enquiries') <= MaxEnquiries
        /\ Len(enquiries) <= Len(enquiries')
        /\ patron' = "stored"
        /\ ~dated => Shown' = Shown /\ (inTurn' => booked' = booked)
        /\ dated => /\ \E i \in DOMAIN rows : Shown' = rows[i]
                    /\ inTurn' => booked' = Shown'
        /\ booked' \in Row
    BY InsertedShows
  <1>2. call[q] = Resting /\ inTurn' \in BOOLEAN /\ (inTurn' => inTurn /\ Alone(q))
    BY DEF Starts, Rests, Alone
  <1>3. /\ call' \in [Booker -> Copy \union [at : {"idle", "announce"}]]
        /\ call'[q] = next /\ \A r \in Booker \ {q} : call'[r] = call[r]
        /\ CallsOK' /\ TurnsOK'
    <2>1. patron # "deleted"
      BY DEF Inserts
    <2>. QED
      BY <1>1, <1>2, <2>1, OthersHold
  <1>4. VisitsTypeOK'
    BY <1>1, <1>2, <1>3 DEF VisitsTypeOK
  <1>5. ShownOK'
    <2>1. CASE dated
      <3>1. Announced'
        BY <1>3, <2>1 DEF Announced
      <3>. QED
        BY <1>1, <2>1, <3>1 DEF ShownOK, mailVars, Suggested, Composed
    <2>2. CASE ~dated
      <3>1. Announced => Announced'
        BY <1>2, <1>3 DEF Announced, Resting
      <3>. QED
        BY <1>1, <1>2, <2>2, <3>1 DEF ShownOK, mailVars, Suggested, Composed
    <2>. QED
      BY <2>1, <2>2
  <1>. QED
    BY <1>3, <1>4, <1>5

LEMMA CreateLeadPreserves ==
  ASSUME VisitsInv, NEW q \in Booker, NEW asks \in BOOLEAN,
         NEW intent \in {"enquiry", "site_visit"}, NEW visit \in Dated,
         CreateLead(q, asks, intent, visit)
  PROVE  VisitsInv'
  <1>. DEFINE rows == RowsOf(asks, intent, visit)
              next == [at |-> IF intent = "site_visit" /\ visit # NoVisit THEN "announce" ELSE "idle"]
  <1>1. rows \in Seq(Visit \union {NoVisit})
    <2>1. /\ <<>> \in Seq(Dated) /\ <<NoVisit>> \in Seq(Dated)
          /\ <<NoVisit, visit>> \in Seq(Dated)
      BY DEF Dated
    <2>. QED
      BY <2>1 DEF RowsOf, Dated
  <1>2. \A i \in DOMAIN rows : rows[i] = NoVisit \/ (rows[i] = visit /\ intent = "site_visit")
    BY DEF RowsOf
  <1>3. next \in [at : {"idle", "announce"}] /\ Continues(q, next)
    BY DEF CreateLead, Announces, Continues, Resting
  <1>4. (\E i \in DOMAIN rows : rows[i] # NoVisit) => next.at = "announce"
    BY <1>2
  <1>5. \A i \in DOMAIN rows : rows[i] \in followUps' \union {NoVisit}
    BY <1>2 DEF CreateLead
  <1>6. /\ Starts(q) /\ Inserts(rows) /\ followUps \subseteq followUps'
        /\ UNCHANGED <<mailVars, lost>>
    BY DEF CreateLead
  <1>. HIDE DEF rows, next
  <1>. QED
    BY <1>1, <1>3, <1>4, <1>5, <1>6, InsertsPreserve

LEMMA DecideEventsPreserves ==
  ASSUME VisitsInv, NEW q \in Booker, NEW n \in 1 .. 2, NEW visits \in [1 .. n -> Dated],
         DecideEvents(q, visits)
  PROVE  VisitsInv'
  <1>. DEFINE dated == {visits[i] : i \in DOMAIN visits} \ {NoVisit}
              next == [at |-> IF dated # {} THEN "announce" ELSE "idle"]
  <1>1. visits \in Seq(Visit \union {NoVisit})
    BY DEF Dated
  <1>2. next \in [at : {"idle", "announce"}] /\ Continues(q, next)
    BY DEF DecideEvents, Announces, Continues, Resting
  <1>3. (\E i \in DOMAIN visits : visits[i] # NoVisit) => next.at = "announce"
    OBVIOUS
  <1>4. /\ Starts(q) /\ Inserts(visits) /\ followUps' = followUps \union dated
        /\ UNCHANGED <<mailVars, lost>>
    BY DEF DecideEvents
  <1>5. \A i \in DOMAIN visits : visits[i] \in followUps' \union {NoVisit}
    BY <1>4
  <1>. HIDE DEF dated, next
  <1>. QED
    BY <1>1, <1>2, <1>3, <1>4, <1>5, InsertsPreserve

LEMMA BulkCreateLeadsPreserves ==
  ASSUME VisitsInv, NEW q \in Booker, NEW asking \in 0 .. 2, BulkCreateLeads(q, asking)
  PROVE  VisitsInv'
  <1>. DEFINE rows == [i \in 1 .. asking |-> NoVisit]
  <1>1. rows \in Seq(Visit \union {NoVisit}) /\ \A i \in DOMAIN rows : rows[i] = NoVisit
    OBVIOUS
  <1>2. /\ Starts(q) /\ Inserts(rows) /\ UNCHANGED <<followUps, call, mailVars, lost>>
    BY DEF BulkCreateLeads
  <1>3. Continues(q, Resting) /\ Resting \in [at : {"idle", "announce"}]
    BY <1>2 DEF Starts, Rests, Continues, Resting, VisitsInv, VisitsTypeOK
  <1>. HIDE DEF rows
  <1>. QED
    BY <1>1, <1>2, <1>3, InsertsPreserve

-----------------------------------------------------------------------------

LEMMA IsInRange ==
  ASSUME NEW n \in Nat, NEW i \in Nat, i <= n, i # 0
  PROVE  i \in 1 .. n
  OBVIOUS

LEMMA RowAtType ==
  ASSUME VisitsTypeOK, NEW i \in Nat, i <= Len(enquiries)
  PROVE  RowAt(i) \in Row
  <1>1. NoVisit \in Row
    BY DEF NoVisit, Row
  <1>2. i # 0 => enquiries[i] \in Row
    BY DEF VisitsTypeOK
  <1>. QED
    BY <1>1, <1>2 DEF RowAt

(* A request reads the copy it will save.                                  *)
LEMMA CopiesPreserve ==
  ASSUME VisitsInv, NEW q \in Booker, NEW at \in {"visit", "edit", "copy", "save"},
         NEW i \in Nat, NEW entity \in Row, Copies(q, at, i, entity), HasLead,
         i <= Len(enquiries), call[q].at # "announce",
         inTurn' \in BOOLEAN, inTurn' => inTurn /\ Alone(q),
         at = "visit" => entity \in Visit /\ i = Len(enquiries),
         at = "edit" => i = 0 /\ entity = NoVisit,
         at \in {"copy", "save"} => i # 0 /\ (inTurn' => entity = enquiries[i]),
         UNCHANGED <<patron, enquiries, followUps, mailVars, booked, lost>>
  PROVE  VisitsInv'
  <1>. USE DEF VisitsInv
  <1>. DEFINE c == [at      |-> at,
                    row     |-> i,
                    entity  |-> entity,
                    columns |-> Differing(RowAt(i), entity)]
  <1>1. Len(enquiries) \in Nat /\ DOMAIN enquiries = 1 .. Len(enquiries)
    BY DEF VisitsTypeOK
  <1>2. c \in Copy
    <2>1. RowAt(i) \in Row
      BY RowAtType
    <2>2. Differing(RowAt(i), entity) \in SUBSET {"date", "slot"}
      BY <2>1 DEF Differing, Row
    <2>. QED
      BY <2>2 DEF Copy
  <1>3. call' \in [Booker -> Copy \union [at : {"idle", "announce"}]]
    BY <1>2 DEF Copies, Continues, VisitsTypeOK
  <1>4. call'[q] = c /\ \A r \in Booker \ {q} : call'[r] = call[r]
    BY DEF Copies, Continues, VisitsTypeOK
  <1>5. VisitsTypeOK'
    BY <1>3 DEF VisitsTypeOK
  <1>6. CallsOK'
    <2>1. ASSUME NEW r \in Booker
          PROVE  HoldsRow(r)'
      <3>1. CASE r = q
        <4>1. call'[r] = c /\ enquiries' = enquiries
          BY <1>4, <3>1
        <4>2. i # 0 => i \in DOMAIN enquiries
          BY <1>1, IsInRange
        <4>. QED
          BY <4>1, <4>2 DEF HoldsRow
      <3>2. CASE r # q
        BY <1>4, <3>2 DEF CallsOK, HoldsRow
      <3>. QED
        BY <3>1, <3>2
    <2>2. ASSUME NEW r \in Booker, inTurn'
          PROVE  HoldsTheLatest(r)'
      <3>1. CASE r = q
        BY <1>4, <2>2, <3>1 DEF HoldsTheLatest, RowAt
      <3>2. CASE r # q
        BY <1>4, <2>2, <3>2 DEF Alone, Resting, HoldsTheLatest
      <3>. QED
        BY <3>1, <3>2
    <2>. QED
      BY <2>1, <2>2 DEF CallsOK, HasLead
  <1>7. TurnsOK'
    BY <1>4 DEF TurnsOK, Alone
  <1>8. ShownOK'
    <2>1. Shown' = Shown
      BY DEF Shown, Visited
    <2>2. Announced => Announced'
      BY <1>4 DEF Announced
    <2>. QED
      BY <2>1, <2>2 DEF ShownOK, mailVars, Suggested, Composed
  <1>. QED
    BY <1>5, <1>6, <1>7, <1>8

LEMMA ScheduleVisitPreserves ==
  ASSUME VisitsInv, NEW q \in Booker, NEW visit \in Visit, ScheduleVisit(q, visit)
  PROVE  VisitsInv'
  <1>1. visit \in Row /\ Len(enquiries) \in Nat
    BY DEF Visit, Row, VisitsInv, VisitsTypeOK
  <1>2. call[q] = Resting /\ inTurn' \in BOOLEAN /\ (inTurn' => inTurn /\ Alone(q))
    BY DEF ScheduleVisit, Starts, Rests, Alone, VisitsInv, VisitsTypeOK
  <1>. QED
    BY <1>1, <1>2, CopiesPreserve DEF ScheduleVisit, LatestEnquiry, Resting

LEMMA UpdateLeadPreserves ==
  ASSUME VisitsInv, NEW q \in Booker, UpdateLead(q)
  PROVE  VisitsInv'
  <1>1. NoVisit \in Row /\ Len(enquiries) \in Nat
    BY DEF NoVisit, Row, VisitsInv, VisitsTypeOK
  <1>2. call[q] = Resting /\ inTurn' \in BOOLEAN /\ (inTurn' => inTurn /\ Alone(q))
    BY DEF UpdateLead, Starts, Rests, Alone, VisitsInv, VisitsTypeOK
  <1>. QED
    BY <1>1, <1>2, CopiesPreserve DEF UpdateLead, Resting

LEMMA UpdateInquiryPreserves ==
  ASSUME VisitsInv, NEW q \in Booker, NEW i \in DOMAIN enquiries, UpdateInquiry(q, i)
  PROVE  VisitsInv'
  <1>1. enquiries[i] \in Row /\ i \in Nat /\ i # 0 /\ i <= Len(enquiries)
    BY DEF VisitsInv, VisitsTypeOK
  <1>2. call[q] = Resting /\ inTurn' \in BOOLEAN /\ (inTurn' => inTurn /\ Alone(q))
    BY DEF UpdateInquiry, Starts, Rests, Alone, VisitsInv, VisitsTypeOK
  <1>. QED
    BY <1>1, <1>2, CopiesPreserve DEF UpdateInquiry, Resting

LEMMA SaveReadsPreserves ==
  ASSUME VisitsInv, NEW q \in Booker, SaveReads(q)
  PROVE  VisitsInv'
  <1>1. call[q] \in Copy
    BY DEF SaveReads, VisitsInv, VisitsTypeOK
  <1>2. HoldsRow(q) /\ (inTurn => HoldsTheLatest(q))
    BY DEF SaveReads, VisitsInv, CallsOK
  <1>3. /\ call[q].entity \in Row /\ call[q].row \in Nat
        /\ call[q].row # 0 /\ call[q].row <= Len(enquiries)
    BY <1>1, <1>2 DEF Copy, HoldsRow, SaveReads, VisitsInv, VisitsTypeOK
  <1>4. inTurn' = inTurn /\ (inTurn => Alone(q) /\ call[q].entity = enquiries[call[q].row])
    BY <1>2 DEF SaveReads, HoldsTheLatest, Resting, VisitsInv, TurnsOK
  <1>5. inTurn' \in BOOLEAN
    BY <1>4 DEF VisitsInv, VisitsTypeOK
  <1>. QED
    BY <1>3, <1>4, <1>5, CopiesPreserve DEF SaveReads

-----------------------------------------------------------------------------

(* The enquiries as a save leaves them.                                    *)
LEMMA SavesRows ==
  ASSUME VisitsInv, NEW q \in Booker, call[q].at \in {"visit", "edit", "save"}, Saves(q)
  PROVE  /\ enquiries' \in Seq(Row) /\ Len(enquiries') <= MaxEnquiries
         /\ Len(enquiries) <= Len(enquiries')
         /\ call[q].row = 0 => enquiries' = Append(enquiries, call[q].entity)
         /\ call[q].row # 0 =>
              /\ call[q].row \in DOMAIN enquiries
              /\ enquiries' = [enquiries EXCEPT ![call[q].row] =
                                 Altered(enquiries[call[q].row], call[q].entity, call[q].columns)]
              /\ Len(enquiries') = Len(enquiries)
         /\ call[q] \in Copy
  <1>. DEFINE c == call[q]
  <1>1. c \in Copy /\ c.row \in Nat /\ c.entity \in Row /\ c.columns \in SUBSET {"date", "slot"}
    BY DEF VisitsInv, VisitsTypeOK, Copy
  <1>2. HoldsRow(q)
    BY DEF Saves, VisitsInv, CallsOK
  <1>3. /\ enquiries \in Seq(Row) /\ Len(enquiries) \in Nat /\ Len(enquiries) <= MaxEnquiries
        /\ DOMAIN enquiries = 1 .. Len(enquiries)
    BY DEF VisitsInv, VisitsTypeOK
  <1>4. MaxEnquiries \in Nat
    BY WindowAssumption
  <1>5. CASE c.row = 0
    <2>1. enquiries' = Append(enquiries, c.entity) /\ Len(enquiries) < MaxEnquiries
      BY <1>5 DEF Saves
    <2>. QED
      BY <1>1, <1>3, <1>4, <1>5, <2>1
  <1>6. CASE c.row # 0
    <2>1. c.row \in DOMAIN enquiries
      BY <1>1, <1>2, <1>3, <1>6 DEF HoldsRow
    <2>2. enquiries' = [enquiries EXCEPT ![c.row] = Altered(enquiries[c.row], c.entity, c.columns)]
      BY <1>6 DEF Saves
    <2>3. enquiries[c.row] \in Row
      BY <1>3, <2>1
    <2>4. Altered(enquiries[c.row], c.entity, c.columns) \in Row
      BY <1>1, <2>3, AlteredRow
    <2>5. enquiries' \in Seq(Row) /\ Len(enquiries') = Len(enquiries)
      BY <1>3, <2>1, <2>2, <2>4
    <2>6. Len(enquiries') <= MaxEnquiries /\ Len(enquiries) <= Len(enquiries')
      BY <1>3, <2>5
    <2>. QED
      BY <1>1, <1>6, <2>1, <2>2, <2>5, <2>6
  <1>. QED
    BY <1>5, <1>6

(* A request that saves in turn finds no other.                            *)
LEMMA SavesAlone ==
  ASSUME VisitsInv, NEW q \in Booker, call[q].at \in {"visit", "edit", "save"}, HasLead, inTurn
  PROVE  Alone(q) /\ HoldsTheLatest(q)
  BY DEF VisitsInv, TurnsOK, CallsOK, Resting

LEMMA VisitCommitsPreserves ==
  ASSUME VisitsInv, NEW q \in Booker, VisitCommits(q)
  PROVE  VisitsInv'
  <1>. DEFINE c == call[q]
              next == [at |-> "announce"]
  <1>1. /\ enquiries' \in Seq(Row) /\ Len(enquiries') <= MaxEnquiries
        /\ Len(enquiries) <= Len(enquiries') /\ c \in Copy
    BY SavesRows DEF VisitCommits
  <1>2. HasLead /\ patron # "deleted" /\ patron' = "stored" /\ inTurn' = inTurn
    BY DEF VisitCommits, Saves, HasLead
  <1>3. inTurn => Alone(q) /\ HoldsTheLatest(q)
    BY <1>2, SavesAlone DEF VisitCommits
  <1>4. Continues(q, next)
    BY DEF VisitCommits, Announces
  <1>5. /\ call' \in [Booker -> Copy \union [at : {"idle", "announce"}]]
        /\ call'[q] = next
        /\ CallsOK' /\ TurnsOK'
    BY <1>1, <1>2, <1>3, <1>4, OthersHold DEF VisitsInv
  <1>6. c.entity \in Visit /\ c.entity \in Row /\ NoVisit \in Row
    BY <1>2 DEF VisitCommits, VisitsInv, CallsOK, HoldsRow, Visit, Row, NoVisit
  <1>7. booked' = IF inTurn THEN c.entity ELSE NoVisit
    BY <1>2 DEF VisitCommits, Booked
  <1>8. VisitsTypeOK'
    BY <1>1, <1>2, <1>5, <1>6, <1>7 DEF VisitsInv, VisitsTypeOK, VisitCommits
  <1>9. ASSUME inTurn
        PROVE  Shown' = c.entity
    <2>1. /\ enquiries \in Seq(Row) /\ Len(enquiries) \in Nat
          /\ DOMAIN enquiries = 1 .. Len(enquiries)
      BY DEF VisitsInv, VisitsTypeOK
    <2>2. c.row = Len(enquiries) /\ c.columns = Differing(RowAt(c.row), c.entity)
      BY <1>3, <1>9 DEF HoldsTheLatest, VisitCommits
    <2>3. Len(enquiries') \in DOMAIN enquiries' /\ enquiries'[Len(enquiries')] = c.entity
      <3>1. CASE c.row = 0
        <4>1. enquiries' = Append(enquiries, c.entity)
          BY <3>1, SavesRows DEF VisitCommits
        <4>. QED
          BY <1>6, <2>1, <4>1
      <3>2. CASE c.row # 0
        <4>1. /\ c.row \in DOMAIN enquiries /\ Len(enquiries') = Len(enquiries)
              /\ enquiries' = [enquiries EXCEPT ![c.row] =
                                 Altered(enquiries[c.row], c.entity, c.columns)]
          BY <3>2, SavesRows DEF VisitCommits
        <4>2. enquiries[c.row] \in Row /\ RowAt(c.row) = enquiries[c.row]
          BY <2>1, <3>2, <4>1 DEF RowAt
        <4>3. c.columns \in SUBSET {"date", "slot"}
          BY <1>1 DEF Copy
        <4>4. Altered(enquiries[c.row], c.entity, c.columns) = c.entity
          BY <1>6, <2>2, <4>2, <4>3, AlteredRow
        <4>. QED
          BY <2>1, <2>2, <4>1, <4>4
      <3>. QED
        BY <3>1, <3>2
    <2>4. c.entity.date # Nil
      BY <1>6, NilAssumption DEF Visit
    <2>5. Len(enquiries') <= Window
      <3>1. Len(enquiries') \in Nat
        BY <1>1
      <3>. QED
        BY <1>1, <3>1, WindowAssumption
    <2>6. \A i \in (Len(enquiries') + 1) .. Len(enquiries') : enquiries'[i].date = Nil
      <3>1. Len(enquiries') \in Nat
        BY <1>1
      <3>. QED
        BY <3>1
    <2>7. ShownIn(enquiries') = enquiries'[Len(enquiries')]
      BY <1>1, <2>3, <2>4, <2>5, <2>6, ShowsTheLatest
    <2>8. Shown' = ShownIn(enquiries')
      BY DEF Shown, ShownIn, Visited, VisitedIn
    <2>. QED
      BY <2>3, <2>7, <2>8
  <1>10. ShownOK'
    <2>1. Announced'
      BY <1>5 DEF Announced
    <2>. QED
      BY <1>2, <1>7, <1>9, <2>1 DEF ShownOK, mailVars, Suggested, Composed, VisitCommits
  <1>. QED
    BY <1>5, <1>8, <1>10 DEF VisitsInv

LEMMA EditCommitsPreserves ==
  ASSUME VisitsInv, NEW q \in Booker, EditCommits(q)
  PROVE  VisitsInv'
  <1>1. HasLead /\ patron # "deleted" /\ patron' = "stored" /\ inTurn' = inTurn
    BY DEF EditCommits, Saves, HasLead
  <1>2. call[q].row = 0 /\ call[q].entity = NoVisit
    BY <1>1 DEF EditCommits, VisitsInv, CallsOK, HoldsRow
  <1>3. /\ enquiries' \in Seq(Row) /\ Len(enquiries') <= MaxEnquiries
        /\ Len(enquiries) <= Len(enquiries') /\ enquiries' = Append(enquiries, NoVisit)
    BY <1>2, SavesRows DEF EditCommits
  <1>4. inTurn => Alone(q)
    BY <1>1, SavesAlone DEF EditCommits
  <1>5. Continues(q, Resting) /\ Resting \in [at : {"idle", "announce"}]
    BY DEF EditCommits, Resting
  <1>6. /\ call' \in [Booker -> Copy \union [at : {"idle", "announce"}]]
        /\ \A r \in Booker \ {q} : call'[r] = call[r]
        /\ CallsOK' /\ TurnsOK'
    BY <1>1, <1>3, <1>4, <1>5, OthersHold DEF VisitsInv
  <1>7. VisitsTypeOK'
    BY <1>1, <1>3, <1>6 DEF VisitsInv, VisitsTypeOK, EditCommits
  <1>8. Shown' = Shown
    <2>1. /\ enquiries \in Seq(Row) /\ Len(enquiries) \in Nat
          /\ DOMAIN enquiries = 1 .. Len(enquiries)
      BY DEF VisitsInv, VisitsTypeOK
    <2>2. NoVisit \in Row
      BY DEF NoVisit, Row
    <2>3. Len(enquiries') = Len(enquiries) + 1 /\ enquiries'[Len(enquiries) + 1] = NoVisit
      BY <1>3, <2>1, <2>2
    <2>4. \A i \in 1 .. Len(enquiries) : enquiries'[i] = enquiries[i]
      BY <1>3, <2>1, <2>2
    <2>5. \A i \in (Len(enquiries) + 1) .. Len(enquiries') : enquiries'[i].date = Nil
      BY <2>1, <2>3 DEF NoVisit
    <2>6. Len(enquiries') <= Window
      BY <1>3, <2>1, <2>3, WindowAssumption
    <2>7. ShownIn(enquiries') = ShownIn(enquiries)
      BY <1>3, <2>1, <2>4, <2>5, <2>6, ShowsNoLess
    <2>. QED
      BY <2>7, ShownIsShownIn DEF Shown, ShownIn, Visited, VisitedIn
  <1>9. Announced => Announced'
    BY <1>6 DEF Announced, EditCommits
  <1>10. ShownOK'
    BY <1>1, <1>8, <1>9 DEF VisitsInv, ShownOK, mailVars, Suggested, Composed, EditCommits
  <1>. QED
    BY <1>6, <1>7, <1>10 DEF VisitsInv

LEMMA SaveCommitsPreserves ==
  ASSUME VisitsInv, NEW q \in Booker, SaveCommits(q)
  PROVE  VisitsInv'
  <1>. DEFINE c == call[q]
  <1>1. HasLead /\ patron # "deleted" /\ patron' = "stored" /\ inTurn' = inTurn
    BY DEF SaveCommits, Saves, HasLead
  <1>2. /\ enquiries' \in Seq(Row) /\ Len(enquiries') <= MaxEnquiries
        /\ Len(enquiries) <= Len(enquiries') /\ c \in Copy
    BY SavesRows DEF SaveCommits
  <1>3. c.row \in DOMAIN enquiries
    BY <1>1 DEF SaveCommits, VisitsInv, CallsOK, HoldsRow
  <1>4. c.row # 0 /\ enquiries[c.row] \in Row
    BY <1>3 DEF VisitsInv, VisitsTypeOK
  <1>5. enquiries' = [enquiries EXCEPT ![c.row] = Altered(enquiries[c.row], c.entity, c.columns)]
    BY <1>4, SavesRows DEF SaveCommits
  <1>6. inTurn => Alone(q) /\ HoldsTheLatest(q)
    BY <1>1, SavesAlone DEF SaveCommits
  <1>7. Continues(q, Resting) /\ Resting \in [at : {"idle", "announce"}]
    BY DEF SaveCommits, Resting
  <1>8. /\ call' \in [Booker -> Copy \union [at : {"idle", "announce"}]]
        /\ \A r \in Booker \ {q} : call'[r] = call[r]
        /\ CallsOK' /\ TurnsOK'
    BY <1>1, <1>2, <1>6, <1>7, OthersHold DEF VisitsInv
  <1>9. VisitsTypeOK'
    BY <1>1, <1>2, <1>8 DEF VisitsInv, VisitsTypeOK, SaveCommits
  <1>10. ASSUME c.columns = {}
         PROVE  Shown' = Shown
    <2>1. Altered(enquiries[c.row], c.entity, c.columns) = enquiries[c.row]
      BY <1>2, <1>4, <1>10, AlteredRow DEF Copy
    <2>2. enquiries' = enquiries
      BY <1>3, <1>5, <2>1 DEF VisitsInv, VisitsTypeOK
    <2>. QED
      BY <2>2 DEF Shown, Visited
  <1>11. inTurn => c.columns = {}
    BY <1>4, <1>6 DEF HoldsTheLatest, SaveCommits, Differing, RowAt
  <1>12. Announced => Announced'
    BY <1>8 DEF Announced, SaveCommits
  <1>13. ShownOK'
    <2>1. CASE c.columns = {}
      <3>1. lost' = lost
        BY <2>1 DEF SaveCommits, VisitsInv, VisitsTypeOK
      <3>. QED
        BY <1>1, <1>10, <1>12, <2>1, <3>1 DEF VisitsInv, ShownOK, mailVars, Suggested,
                                              Composed, SaveCommits
    <2>2. CASE c.columns # {}
      <3>1. lost' /\ ~inTurn
        BY <1>11, <2>2 DEF SaveCommits
      <3>2. ~inTurn'
        BY <1>1, <3>1
      <3>. QED
        BY <3>1, <3>2 DEF ShownOK, mailVars, Suggested, Composed
    <2>. QED
      BY <2>1, <2>2
  <1>. QED
    BY <1>8, <1>9, <1>13 DEF VisitsInv

-----------------------------------------------------------------------------

LEMMA ShownIsRow ==
  ASSUME VisitsInv
  PROVE  Shown \in Row
  <1>1. NoVisit \in Row
    BY DEF NoVisit, Row
  <1>2. ASSUME Visited # {}
        PROVE  Latest(Visited) \in DOMAIN enquiries
    <2>1. Visited \in SUBSET (1 .. Len(enquiries)) /\ Len(enquiries) \in Nat
      BY DEF Visited, VisitsInv, VisitsTypeOK
    <2>2. Latest(Visited) \in Visited
      BY <1>2, <2>1, HasLatest
    <2>. QED
      BY <2>2 DEF Visited
  <1>. QED
    BY <1>1, <1>2 DEF Shown, VisitsInv, VisitsTypeOK

(* A request that ends, and leaves the enquiries as they are.              *)
LEMMA EndsPreserve ==
  ASSUME VisitsInv, NEW q \in Booker, call[q] # Resting, Continues(q, Resting),
         UNCHANGED <<patron, enquiries, followUps, booked, inTurn>>,
         lost' \in BOOLEAN, ShownOK'
  PROVE  VisitsInv'
  <1>1. /\ call' \in [Booker -> Copy \union [at : {"idle", "announce"}]]
        /\ call'[q] = Resting
        /\ \A r \in Booker \ {q} : call'[r] = call[r]
    BY DEF Continues, Resting, VisitsInv, VisitsTypeOK
  <1>2. VisitsTypeOK'
    BY <1>1 DEF VisitsInv, VisitsTypeOK
  <1>3. CallsOK'
    <2>1. ASSUME NEW r \in Booker
          PROVE  /\ patron = "none" => call'[r].at \in {"idle", "announce"}
                 /\ HasLead => HoldsRow(r)' /\ (inTurn => HoldsTheLatest(r)')
      <3>1. CASE r = q
        BY <1>1, <3>1 DEF Resting, HoldsRow, HoldsTheLatest
      <3>2. CASE r # q
        BY <1>1, <3>2 DEF VisitsInv, CallsOK, HoldsRow, HoldsTheLatest, RowAt
      <3>. QED
        BY <3>1, <3>2
    <2>. QED
      BY <2>1 DEF CallsOK, HasLead
  <1>4. TurnsOK'
    BY <1>1 DEF VisitsInv, TurnsOK, Alone
  <1>. QED
    BY <1>2, <1>3, <1>4 DEF VisitsInv

LEMMA DraftPreserves ==
  ASSUME VisitsInv, MailInv, NEW q \in Booker, Draft(q)
  PROVE  VisitsInv'
  <1>1. Shown' = Shown /\ lost' = lost /\ lost' \in BOOLEAN /\ call[q] # Resting
    BY DEF Draft, Shown, Visited, Resting, VisitsInv, VisitsTypeOK
  <1>2. ~HasLead => Shown = NoVisit
    BY DEF HasLead, Shown, Visited, VisitsInv, VisitsTypeOK
  <1>3. HasLead => mailing'[q] = [at |-> "composed", visit |-> Shown]
    BY DEF Draft, MailInv, MailTypeOK
  <1>4. Shown \in Suggested'
    <2>1. CASE HasLead
      <3>1. mailing'[q] # Resting /\ mailing'[q].visit = Shown
        BY <1>3, <2>1 DEF Resting
      <3>. QED
        BY <3>1 DEF Suggested, Composed
    <2>2. CASE ~HasLead
      BY <1>2, <2>2 DEF Suggested
    <2>. QED
      BY <2>1, <2>2
  <1>5. ShownOK'
    BY <1>1, <1>4 DEF ShownOK, VisitsInv, Draft
  <1>. QED
    BY <1>1, <1>5, EndsPreserve DEF Draft

(* A handler's statement leaves all but the mails as it is.                *)
LEMMA MailsPreserve ==
  ASSUME VisitsInv, UNCHANGED <<patron, enquiries, followUps, call, booked, inTurn>>,
         lost' \in BOOLEAN, lost \/ Shown \in Suggested => lost' \/ Shown \in Suggested'
  PROVE  VisitsInv'
  <1>1. Shown' = Shown
    BY DEF Shown, Visited
  <1>2. VisitsTypeOK' /\ CallsOK' /\ TurnsOK'
    BY DEF VisitsInv, VisitsTypeOK, CallsOK, TurnsOK, HoldsRow, HoldsTheLatest, RowAt,
      Alone, HasLead
  <1>3. Announced' = Announced
    BY DEF Announced
  <1>4. ShownOK'
    BY <1>1, <1>3 DEF VisitsInv, ShownOK
  <1>. QED
    BY <1>2, <1>4 DEF VisitsInv

LEMMA CreateFromTriggerPreserves ==
  ASSUME VisitsInv, MailInv, NEW q \in Booker, CreateFromTrigger(q)
  PROVE  VisitsInv'
  <1>. DEFINE m == mailing[q]
  <1>1. lost' = lost /\ lost' \in BOOLEAN
    BY DEF CreateFromTrigger, VisitsInv, VisitsTypeOK
  <1>2. m \in Handling
    BY DEF CreateFromTrigger, ChecksKey, WithdrawsOlder, InsertsDraft, Resting, MailInv,
      MailTypeOK, Handling
  <1>3. \A r \in Booker \ {q} : mailing'[r] = mailing[r]
    BY DEF CreateFromTrigger, ChecksKey, WithdrawsOlder, InsertsDraft, Mails, MailsNoMore,
      MailInv, MailTypeOK
  <1>4. \/ m.visit \in drafted'
        \/ mailing'[q] # Resting /\ mailing'[q].visit = m.visit
    <2>1. CASE ChecksKey(q)
      BY <1>2, <2>1 DEF ChecksKey, Mails, MailInv, MailTypeOK, Resting, Handling
    <2>2. CASE WithdrawsOlder(q)
      BY <1>2, <2>2 DEF WithdrawsOlder, Mails, MailInv, MailTypeOK, Resting, Handling
    <2>3. CASE InsertsDraft(q)
      BY <2>3 DEF InsertsDraft
    <2>. QED
      BY <2>1, <2>2, <2>3 DEF CreateFromTrigger
  <1>5. drafted \subseteq drafted'
    BY DEF CreateFromTrigger, ChecksKey, WithdrawsOlder, InsertsDraft
  <1>6. Suggested \subseteq Suggested'
    <2>1. ASSUME NEW r \in Booker, mailing[r] # Resting
          PROVE  mailing[r].visit \in Suggested'
      <3>1. CASE r = q
        BY <1>4, <3>1 DEF Suggested, Composed
      <3>2. CASE r # q
        BY <1>3, <2>1, <3>2 DEF Suggested, Composed
      <3>. QED
        BY <3>1, <3>2
    <2>2. Composed \subseteq Suggested'
      BY <2>1 DEF Composed
    <2>3. drafted \union {NoVisit} \subseteq Suggested'
      BY <1>5 DEF Suggested
    <2>. QED
      BY <2>2, <2>3 DEF Suggested
  <1>. QED
    BY <1>1, <1>6, MailsPreserve DEF CreateFromTrigger

LEMMA MailFailsPreserves ==
  ASSUME VisitsInv, NEW q \in Booker, MailFails(q)
  PROVE  VisitsInv'
  BY MailsPreserve DEF MailFails

LEMMA StopsPreserves ==
  ASSUME VisitsInv, NEW q \in Booker, Stops(q)
  PROVE  VisitsInv'
  <1>1. Shown' = Shown /\ lost' \in BOOLEAN
    BY DEF Stops, Shown, Visited, VisitsInv, VisitsTypeOK
  <1>2. Announced => Announced' \/ lost'
    BY DEF Announced, Stops, Continues, VisitsInv, VisitsTypeOK
  <1>3. ShownOK'
    BY <1>1, <1>2 DEF ShownOK, mailVars, Suggested, Composed, VisitsInv, Stops
  <1>. QED
    BY <1>1, <1>3, EndsPreserve DEF Stops

LEMMA DeleteLeadPreserves ==
  ASSUME VisitsInv, DeleteLead
  PROVE  VisitsInv'
  <1>1. VisitsTypeOK'
    <2>1. <<>> \in Seq(Row) /\ Len(<<>>) = 0 /\ NoVisit \in Row
      BY DEF NoVisit, Row
    <2>. QED
      BY <2>1, WindowAssumption DEF DeleteLead, VisitsInv, VisitsTypeOK
  <1>2. CallsOK'
    BY DEF DeleteLead, CallsOK, HasLead
  <1>3. TurnsOK'
    BY DEF DeleteLead, VisitsInv, TurnsOK, Alone
  <1>4. Shown' = NoVisit
    BY DEF DeleteLead, Shown, Visited
  <1>5. ShownOK'
    BY <1>4 DEF ShownOK, mailVars, Suggested, Composed, DeleteLead
  <1>. QED
    BY <1>1, <1>2, <1>3, <1>5 DEF VisitsInv

LEMMA VisitsInit_Inv == VisitsInit => VisitsInv /\ MailInv
  <1>. SUFFICES ASSUME VisitsInit
                PROVE  VisitsInv /\ MailInv
    OBVIOUS
  <1>1. VisitsTypeOK
    <2>1. <<>> \in Seq(Row) /\ Len(<<>>) = 0 /\ NoVisit \in Row
      BY DEF NoVisit, Row
    <2>2. Len(enquiries) <= MaxEnquiries /\ enquiries \in Seq(Row)
      BY <2>1, WindowAssumption DEF VisitsInit
    <2>3. call \in [Booker -> Copy \union [at : {"idle", "announce"}]]
      BY DEF VisitsInit, Resting
    <2>. QED
      BY <2>1, <2>2, <2>3 DEF VisitsInit, VisitsTypeOK
  <1>2. CallsOK /\ TurnsOK
    BY DEF VisitsInit, CallsOK, TurnsOK, HasLead, Resting
  <1>3. Shown = NoVisit
    BY DEF VisitsInit, Shown, Visited
  <1>4. MailInv
    BY DEF VisitsInit, MailInv, MailTypeOK, OneByOne, Mailing, Resting
  <1>. QED
    BY <1>1, <1>2, <1>3, <1>4 DEF VisitsInv, ShownOK, Suggested, VisitsInit

LEMMA VisitsNext_Inv ==
  VisitsInv /\ MailInv /\ [VisitsNext]_visitVars => VisitsInv'
  <1>. SUFFICES ASSUME VisitsInv, MailInv, [VisitsNext]_visitVars
                PROVE  VisitsInv'
    OBVIOUS
  <1>1. ASSUME NEW q \in Booker, NEW asks \in BOOLEAN, NEW intent \in {"enquiry", "site_visit"},
               NEW visit \in Dated, CreateLead(q, asks, intent, visit)
        PROVE  VisitsInv'
    BY <1>1, CreateLeadPreserves
  <1>2. ASSUME NEW q \in Booker, NEW n \in 1 .. 2, NEW visits \in [1 .. n -> Dated],
               DecideEvents(q, visits)
        PROVE  VisitsInv'
    BY <1>2, DecideEventsPreserves
  <1>3. ASSUME NEW q \in Booker, NEW asking \in 0 .. 2, BulkCreateLeads(q, asking)
        PROVE  VisitsInv'
    BY <1>3, BulkCreateLeadsPreserves
  <1>4. ASSUME NEW q \in Booker, NEW visit \in Visit, ScheduleVisit(q, visit)
        PROVE  VisitsInv'
    BY <1>4, ScheduleVisitPreserves
  <1>5. ASSUME NEW q \in Booker, UpdateLead(q)
        PROVE  VisitsInv'
    BY <1>5, UpdateLeadPreserves
  <1>6. ASSUME NEW q \in Booker, NEW i \in DOMAIN enquiries, UpdateInquiry(q, i)
        PROVE  VisitsInv'
    BY <1>6, UpdateInquiryPreserves
  <1>7. ASSUME NEW q \in Booker, VisitCommits(q) \/ EditCommits(q) \/ SaveReads(q) \/ SaveCommits(q)
        PROVE  VisitsInv'
    BY <1>7, VisitCommitsPreserves, EditCommitsPreserves, SaveReadsPreserves, SaveCommitsPreserves
  <1>8. ASSUME NEW q \in Booker, Draft(q) \/ CreateFromTrigger(q) \/ Stops(q) \/ MailFails(q)
        PROVE  VisitsInv'
    BY <1>8, DraftPreserves, CreateFromTriggerPreserves, StopsPreserves, MailFailsPreserves
  <1>9. CASE DeleteLead
    BY <1>9, DeleteLeadPreserves
  <1>10. CASE UNCHANGED visitVars
    BY <1>10 DEF visitVars, VisitsInv, VisitsTypeOK, CallsOK, TurnsOK, ShownOK, mailVars,
                 Suggested, Composed, HoldsRow,
      HoldsTheLatest, RowAt, Alone, Announced, HasLead, Shown, Visited
  <1>. QED
    BY <1>1, <1>2, <1>3, <1>4, <1>5, <1>6, <1>7, <1>8, <1>9, <1>10 DEF VisitsNext, VisitsStep

(* What the mails' tables hold, while other requests write other columns.  *)
LEMMA OthersKeepMails ==
  ASSUME MailInv, UNCHANGED mailVars, ComesBack
  PROVE  MailInv'
  <1>1. MailTypeOK'
    BY DEF MailInv, MailTypeOK, mailVars
  <1>2. ASSUME OneByOne
        PROVE  OneByOne'
    <2>1. Shown' # Shown /\ Shown' \in drafted => Shown' \in again'
      BY DEF ComesBack
    <2>2. Shown' = Shown => again' = again
      BY DEF ComesBack
    <2>. QED
      BY <1>2, <2>1, <2>2 DEF OneByOne, Mailing, mailVars
  <1>. QED
    BY <1>1, <1>2 DEF MailInv, mailVars

(* A handler's own steps.                                                  *)
LEMMA DraftKeepsMails ==
  ASSUME MailInv, VisitsInv, NEW q \in Booker, Draft(q), ComesBack
  PROVE  MailInv'
  <1>1. Shown' = Shown /\ again' = again
    BY DEF Draft, Shown, Visited, ComesBack
  <1>2. Shown \in Row
    BY ShownIsRow
  <1>3. CASE ~HasLead
    BY <1>1, <1>3 DEF Draft, MailInv, MailTypeOK, OneByOne, Mailing
  <1>4. CASE HasLead
    <2>1. /\ mailing' = [mailing EXCEPT ![q] = [at |-> "composed", visit |-> Shown]]
          /\ overtaken' = (overtaken \/ \E r \in Booker : Mailing(r))
      BY <1>4 DEF Draft, Mailing
    <2>2. MailTypeOK'
      BY <1>2, <2>1 DEF Draft, MailInv, MailTypeOK, Handling
    <2>3. ASSUME ~overtaken'
          PROVE  OneByOne'
      <3>1. OneByOne /\ \A r \in Booker : ~Mailing(r)
        BY <2>1, <2>3 DEF MailInv
      <3>2. /\ mailing'[q].at = "composed" /\ mailing'[q].visit = Shown
            /\ \A r \in Booker \ {q} : mailing'[r] = Resting
        BY <2>1, <3>1 DEF MailInv, MailTypeOK, Mailing
      <3>. QED
        BY <1>1, <3>1, <3>2 DEF OneByOne, Mailing, Draft, Resting
    <2>. QED
      BY <2>2, <2>3 DEF MailInv, MailTypeOK
  <1>. QED
    BY <1>3, <1>4

LEMMA CreateFromTriggerKeepsMails ==
  ASSUME MailInv, NEW q \in Booker, CreateFromTrigger(q), ComesBack
  PROVE  MailInv'
  <1>. DEFINE m == mailing[q]
  <1>1. Shown' = Shown /\ again' = again
    BY DEF CreateFromTrigger, Shown, Visited, ComesBack
  <1>2. m \in Handling /\ Mailing(q)
    BY DEF CreateFromTrigger, ChecksKey, WithdrawsOlder, InsertsDraft, Resting, MailInv,
      MailTypeOK, Handling, Mailing
  <1>3. /\ mailing' \in [Booker -> Handling \union {Resting}]
        /\ \A r \in Booker \ {q} : mailing'[r] = mailing[r]
        /\ mailing'[q] # Resting => mailing'[q].visit = m.visit
    BY <1>2 DEF CreateFromTrigger, ChecksKey, WithdrawsOlder, InsertsDraft, Mails, MailsNoMore,
      MailInv, MailTypeOK, Handling, Resting
  <1>4. open' \subseteq drafted' /\ overtaken' = overtaken
    BY DEF CreateFromTrigger, ChecksKey, WithdrawsOlder, InsertsDraft, MailInv, MailTypeOK
  <1>5. MailTypeOK'
    BY <1>3, <1>4 DEF MailInv, MailTypeOK
  <1>6. ASSUME OneByOne
        PROVE  OneByOne'
    <2>1. \A r \in Booker \ {q} : mailing'[r] = Resting
      BY <1>2, <1>3, <1>6 DEF OneByOne, Mailing
    <2>2. CASE ChecksKey(q)
      BY <1>1, <1>2, <1>6, <2>1, <2>2 DEF ChecksKey, Mails, MailsNoMore, OneByOne, Mailing,
        MailInv, MailTypeOK, Handling, Resting
    <2>3. CASE WithdrawsOlder(q)
      BY <1>1, <1>2, <1>6, <2>1, <2>3 DEF WithdrawsOlder, Mails, OneByOne, Mailing,
        MailInv, MailTypeOK, Handling, Resting
    <2>4. CASE InsertsDraft(q)
      <3>1. m.visit \notin drafted /\ open = {} /\ mailing'[q] = Resting
        BY <1>6, <2>4 DEF InsertsDraft, MailsNoMore, OneByOne, MailInv, MailTypeOK
      <3>2. open' = {m.visit} /\ drafted' = drafted \union {m.visit}
        BY <2>4, <3>1 DEF InsertsDraft
      <3>. QED
        BY <1>1, <1>2, <1>6, <2>1, <3>1, <3>2 DEF OneByOne, Mailing, Resting
    <2>. QED
      BY <2>2, <2>3, <2>4 DEF CreateFromTrigger
  <1>. QED
    BY <1>4, <1>5, <1>6 DEF MailInv

LEMMA MailFailsKeepsMails ==
  ASSUME MailInv, NEW q \in Booker, MailFails(q), ComesBack
  PROVE  MailInv'
  <1>1. Shown' = Shown /\ again' = again
    BY DEF MailFails, Shown, Visited, ComesBack
  <1>2. /\ mailing' \in [Booker -> Handling \union {Resting}]
        /\ mailing'[q] = Resting /\ \A r \in Booker \ {q} : mailing'[r] = mailing[r]
    BY DEF MailFails, MailsNoMore, MailInv, MailTypeOK
  <1>3. MailTypeOK'
    BY <1>2 DEF MailFails, MailInv, MailTypeOK
  <1>4. OneByOne => OneByOne'
    BY <1>1, <1>2 DEF MailFails, OneByOne, Mailing, Resting
  <1>. QED
    BY <1>3, <1>4 DEF MailFails, MailInv

LEMMA VisitsNext_MailInv ==
  VisitsInv /\ MailInv /\ [VisitsNext]_visitVars => MailInv'
  <1>. SUFFICES ASSUME VisitsInv, MailInv, [VisitsNext]_visitVars
                PROVE  MailInv'
    OBVIOUS
  <1>1. CASE VisitsNext /\ UNCHANGED mailVars
    BY <1>1, OthersKeepMails DEF VisitsNext
  <1>2. ASSUME NEW q \in Booker, VisitsNext, Draft(q) \/ CreateFromTrigger(q) \/ MailFails(q)
        PROVE  MailInv'
    BY <1>2, DraftKeepsMails, CreateFromTriggerKeepsMails, MailFailsKeepsMails DEF VisitsNext
  <1>3. VisitsNext =>
          \/ UNCHANGED mailVars
          \/ \E q \in Booker : Draft(q) \/ CreateFromTrigger(q) \/ MailFails(q)
    BY DEF VisitsNext, VisitsStep, CreateLead, DecideEvents, BulkCreateLeads, ScheduleVisit,
      UpdateLead, UpdateInquiry, VisitCommits, EditCommits, SaveReads, SaveCommits, Stops,
      DeleteLead
  <1>4. CASE UNCHANGED visitVars
    BY <1>4 DEF visitVars, mailVars, MailInv, MailTypeOK, OneByOne, Mailing, Shown, Visited
  <1>. QED
    BY <1>1, <1>2, <1>3, <1>4

(* The visit that emails show is the one booked last, if requests come in  *)
(* turn; unless an event is lost, a confirmation is drafted of it, and it  *)
(* is the one that stays open, unless two handlers ran at once or it was   *)
(* moved back to a visit drafted before (scheduleVisit, loadLeadMailData,  *)
(* createFromTrigger): for any number of requests and of enquiries.        *)
THEOREM VisitsAreConfirmed == VisitsSpec => []VisitIsConfirmed
  <1>1. VisitsInv /\ MailInv => VisitIsConfirmed
    <2>. SUFFICES ASSUME VisitsInv, MailInv
                  PROVE  VisitIsConfirmed
      OBVIOUS
    <2>1. MailsSettled => ~Announced /\ Composed = {}
      BY DEF MailsSettled, Announced, Composed
    <2>. QED
      BY <2>1 DEF VisitsInv, ShownOK, Suggested, MailInv, OneByOne, VisitIsConfirmed
  <1>. QED
    BY <1>1, VisitsInit_Inv, VisitsNext_Inv, VisitsNext_MailInv, PTL DEF VisitsSpec

-----------------------------------------------------------------------------

(* The documents of a lead.                                                *)
Doc == [id : Upload, number : 1..2, extension : Extension]

Chore == {NoChore} \cup [at : {"write", "insert", "delete", "remove"}, doc : Doc]

DocumentsTypeOK ==
  /\ docs \subseteq Doc /\ IsFiniteSet(docs)
  /\ chore \in [Desk -> Chore]

(* One request at a time: an upload has a number no row has, and from the  *)
(* write on an object; a deletion has its row, and until it has deleted    *)
(* the object that as well.                                                *)
OneAtATime == \A t, o \in Busy : t = o

NumbersDiffer == \A d, e \in docs : d # e => d.number # e.number

UploadIsNew(t) ==
  chore[t].at \in {"write", "insert"} => \A d \in docs : d.number # chore[t].doc.number

DocsHaveObjects ==
  \A d \in docs :
    DocKey(d) \in bucket \/ \E t \in Busy : chore[t].at = "remove" /\ chore[t].doc = d

DocumentsSound ==
  /\ OneAtATime
  /\ NumbersDiffer
  /\ \A t \in Desk :
       /\ UploadIsNew(t)
       /\ chore[t].at = "insert" => DocKey(chore[t].doc) \in bucket
       /\ chore[t].at \in {"delete", "remove"} => chore[t].doc \in docs
  /\ DocsHaveObjects

DocumentsInv == DocumentsTypeOK /\ (~crossed /\ ~broken => DocumentsSound)

LEMMA DocumentsInitHolds == DocumentsInit => DocumentsInv
  <1>. SUFFICES ASSUME DocumentsInit PROVE DocumentsInv
    OBVIOUS
  <1>1. NoChore.at = "idle"
    BY DEF NoChore
  <1>2. Busy = {} /\ docs = {} /\ chore \in [Desk -> Chore] /\ \A t \in Desk : chore[t] = NoChore
    BY <1>1 DEF DocumentsInit, Busy, Chore
  <1>. QED
    BY <1>1, <1>2, FS_EmptySet DEF DocumentsInv, DocumentsTypeOK, DocumentsSound, OneAtATime,
                       NumbersDiffer, UploadIsNew, DocsHaveObjects

LEMMA PairsAreFinite ==
  ASSUME NEW d, NEW e
  PROVE  IsFiniteSet({d, e}) /\ Cardinality({d, e}) = IF d = e THEN 1 ELSE 2
  <1>1. IsFiniteSet({d}) /\ Cardinality({d}) = 1
    BY FS_Singleton
  <1>2. {d, e} = {d} \cup {e}
    OBVIOUS
  <1>3. /\ IsFiniteSet({d} \cup {e})
        /\ e \notin {d} => Cardinality({d} \cup {e}) = Cardinality({d}) + 1
    BY <1>1, FS_AddElement
  <1>4. d = e => {d, e} = {d}
    OBVIOUS
  <1>. QED
    BY <1>1, <1>2, <1>3, <1>4

(* With one row at most, and the numbers 1 and 2, the next number is free. *)
LEMMA NumberIsFree ==
  ASSUME DocumentsTypeOK, NumbersDiffer, Cardinality(docs) < 2
  PROVE  NumberFor(docs) \in 1..2 /\ \A d \in docs : d.number # NumberFor(docs)
  <1>1. ASSUME NEW d \in docs, NEW e \in docs, d.number = 1, e.number = 2 PROVE FALSE
    <2>1. d # e
      BY <1>1
    <2>2. Cardinality({d, e}) = 2
      BY <2>1, PairsAreFinite
    <2>3. Cardinality({d, e}) <= Cardinality(docs)
      BY <1>1, FS_Subset DEF DocumentsTypeOK
    <2>4. Cardinality(docs) \in Nat
      BY FS_CardinalityType DEF DocumentsTypeOK
    <2>. QED
      BY <2>2, <2>3, <2>4
  <1>. QED
    BY <1>1 DEF NumberFor

LEMMA UploadPreserves ==
  ASSUME DocumentsInv, NEW t \in Desk, NEW u \in Upload, NEW x \in Extension,
         UploadDocument(t, u, x)
  PROVE  DocumentsInv'
  <1>. DEFINE new == [id |-> u, number |-> NumberFor(docs), extension |-> x]
  <1>. DEFINE next == [at |-> "write", doc |-> new]
  <1>1. /\ chore[t].at = "idle" /\ Cardinality(docs) < 2 /\ UNCHANGED <<docs, bucket, broken>>
        /\ chore' = [chore EXCEPT ![t] = next] /\ crossed' = (crossed \/ Busy # {})
    BY DEF UploadDocument, Begins
  <1>2. NumberFor(docs) \in 1..2
    BY DEF NumberFor
  <1>3. new \in Doc /\ next \in Chore /\ new.number = NumberFor(docs)
    BY <1>2 DEF Doc, Chore
  <1>. HIDE DEF new
  <1>4. /\ chore' \in [Desk -> Chore] /\ chore'[t] = next /\ next.at = "write" /\ next.doc = new
        /\ \A o \in Desk \ {t} : chore'[o] = chore[o]
    BY <1>1, <1>3 DEF DocumentsInv, DocumentsTypeOK
  <1>. HIDE DEF next
  <1>5. ASSUME ~crossed', ~broken' PROVE DocumentsSound'
    <2>1. DocumentsSound /\ Busy = {}
      BY <1>1, <1>5 DEF DocumentsInv
    <2>2. Busy' = {t}
      BY <1>4, <2>1 DEF Busy
    <2>3. \A d \in docs : d.number # new.number
      BY <1>1, <1>3, <2>1, NumberIsFree DEF DocumentsInv, DocumentsSound
    <2>4. \A o \in Desk \ {t} : chore'[o].at = "idle"
      BY <1>4, <2>1 DEF Busy
    <2>5. OneAtATime' /\ NumbersDiffer'
      BY <1>1, <2>1, <2>2 DEF DocumentsSound, OneAtATime, NumbersDiffer
    <2>6. DocsHaveObjects'
      BY <1>1, <2>1 DEF DocumentsSound, DocsHaveObjects, DocKey
    <2>7. \A o \in Desk : UploadIsNew(o)'
      BY <1>1, <1>4, <2>3, <2>4 DEF UploadIsNew
    <2>. QED
      BY <1>4, <2>4, <2>5, <2>6, <2>7 DEF DocumentsSound
  <1>. QED
    BY <1>1, <1>4, <1>5 DEF DocumentsInv, DocumentsTypeOK

LEMMA DeletePreserves ==
  ASSUME DocumentsInv, NEW t \in Desk, NEW d \in docs, DeleteDocument(t, d)
  PROVE  DocumentsInv'
  <1>. DEFINE next == [at |-> "delete", doc |-> d]
  <1>1. /\ chore[t].at = "idle" /\ UNCHANGED <<docs, bucket, broken>>
        /\ chore' = [chore EXCEPT ![t] = next] /\ crossed' = (crossed \/ Busy # {})
    BY DEF DeleteDocument, Begins
  <1>2. d \in Doc /\ next \in Chore
    BY DEF DocumentsInv, DocumentsTypeOK, Chore
  <1>3. /\ chore' \in [Desk -> Chore] /\ chore'[t] = next /\ next.at = "delete" /\ next.doc = d
        /\ \A o \in Desk \ {t} : chore'[o] = chore[o]
    BY <1>1, <1>2 DEF DocumentsInv, DocumentsTypeOK
  <1>. HIDE DEF next
  <1>4. ASSUME ~crossed', ~broken' PROVE DocumentsSound'
    <2>1. DocumentsSound /\ Busy = {}
      BY <1>1, <1>4 DEF DocumentsInv
    <2>2. Busy' = {t}
      BY <1>3, <2>1 DEF Busy
    <2>3. \A o \in Desk \ {t} : chore'[o].at = "idle"
      BY <1>3, <2>1 DEF Busy
    <2>4. OneAtATime' /\ NumbersDiffer'
      BY <1>1, <2>1, <2>2 DEF DocumentsSound, OneAtATime, NumbersDiffer
    <2>5. DocsHaveObjects'
      BY <1>1, <2>1 DEF DocumentsSound, DocsHaveObjects, DocKey
    <2>6. \A o \in Desk : UploadIsNew(o)'
      BY <1>1, <1>3, <2>3 DEF UploadIsNew
    <2>. QED
      BY <1>1, <1>3, <2>3, <2>4, <2>5, <2>6 DEF DocumentsSound
  <1>. QED
    BY <1>1, <1>3, <1>4 DEF DocumentsInv, DocumentsTypeOK

(* A request that is under way goes on, alone.                             *)
LEMMA OthersRest ==
  ASSUME DocumentsSound, NEW t \in Desk, chore[t].at # "idle"
  PROVE  Busy = {t} /\ \A o \in Desk \ {t} : chore[o].at = "idle"
  BY DEF DocumentsSound, OneAtATime, Busy

LEMMA WritePreserves ==
  ASSUME DocumentsInv, NEW t \in Desk, WriteObject(t)
  PROVE  DocumentsInv'
  <1>1. /\ chore[t].at = "write" /\ chore[t] \in Chore /\ UNCHANGED <<docs, crossed, broken>>
        /\ bucket' = bucket \cup {DocKey(chore[t].doc)}
        /\ chore' = [chore EXCEPT ![t].at = "insert"]
    BY DEF WriteObject, DocumentsInv, DocumentsTypeOK
  <1>2. chore[t] \in [at : {"write", "insert", "delete", "remove"}, doc : Doc]
    BY <1>1 DEF Chore, NoChore
  <1>3. /\ chore' \in [Desk -> Chore] /\ chore'[t].at = "insert" /\ chore'[t].doc = chore[t].doc
        /\ \A o \in Desk \ {t} : chore'[o] = chore[o]
    BY <1>1, <1>2 DEF DocumentsInv, DocumentsTypeOK, Chore
  <1>4. ASSUME ~crossed, ~broken PROVE DocumentsSound'
    <2>1. /\ DocumentsSound /\ Busy = {t} /\ \A o \in Desk \ {t} : chore[o].at = "idle"
      BY <1>1, <1>4, OthersRest DEF DocumentsInv
    <2>2. Busy' = {t}
      BY <1>3, <2>1 DEF Busy
    <2>3. OneAtATime' /\ NumbersDiffer'
      BY <1>1, <2>1, <2>2 DEF DocumentsSound, OneAtATime, NumbersDiffer
    <2>4. DocsHaveObjects'
      BY <1>1, <2>1 DEF DocumentsSound, DocsHaveObjects, DocKey
    <2>5. \A o \in Desk : UploadIsNew(o)'
      BY <1>1, <1>3, <2>1 DEF DocumentsSound, UploadIsNew
    <2>6. DocKey(chore[t].doc)' \in bucket'
      BY <1>1, <1>3 DEF DocKey
    <2>. QED
      BY <1>3, <2>1, <2>3, <2>4, <2>5, <2>6 DEF DocumentsSound
  <1>. QED
    BY <1>1, <1>3, <1>4 DEF DocumentsInv, DocumentsTypeOK

LEMMA InsertPreservesDocs ==
  ASSUME DocumentsInv, NEW t \in Desk, InsertRow(t)
  PROVE  DocumentsInv'
  <1>1. /\ chore[t].at = "insert" /\ chore[t] \in Chore /\ UNCHANGED <<bucket, crossed, broken>>
        /\ docs' = docs \cup {chore[t].doc} /\ chore' = [chore EXCEPT ![t] = NoChore]
    BY DEF InsertRow, DocumentsInv, DocumentsTypeOK
  <1>2. chore[t].doc \in Doc
    BY <1>1 DEF Chore, NoChore
  <1>3. /\ chore' \in [Desk -> Chore] /\ chore'[t].at = "idle"
        /\ \A o \in Desk \ {t} : chore'[o] = chore[o]
    BY <1>1 DEF DocumentsInv, DocumentsTypeOK, Chore, NoChore
  <1>4. docs' \subseteq Doc /\ IsFiniteSet(docs')
    BY <1>1, <1>2, FS_AddElement DEF DocumentsInv, DocumentsTypeOK
  <1>5. ASSUME ~crossed, ~broken PROVE DocumentsSound'
    <2>1. /\ DocumentsSound /\ Busy = {t} /\ \A o \in Desk \ {t} : chore[o].at = "idle"
      BY <1>1, <1>5, OthersRest DEF DocumentsInv
    <2>2. Busy' = {} /\ \A o \in Desk : chore'[o].at = "idle"
      BY <1>3, <2>1 DEF Busy
    <2>3. OneAtATime' /\ NumbersDiffer'
      BY <1>1, <2>1, <2>2 DEF DocumentsSound, OneAtATime, NumbersDiffer, UploadIsNew
    <2>4. \A d \in docs' : DocKey(d) \in bucket
      BY <1>1, <2>1 DEF DocumentsSound, DocsHaveObjects
    <2>5. DocsHaveObjects'
      BY <1>1, <2>4 DEF DocsHaveObjects, DocKey
    <2>. QED
      BY <2>2, <2>3, <2>5 DEF DocumentsSound, UploadIsNew
  <1>. QED
    BY <1>1, <1>3, <1>4, <1>5 DEF DocumentsInv, DocumentsTypeOK

(* Of the rows there are only the deletion's own has its object's key.     *)
LEMMA DeleteObjectPreserves ==
  ASSUME DocumentsInv, NEW t \in Desk, DeleteObject(t)
  PROVE  DocumentsInv'
  <1>1. /\ chore[t].at = "delete" /\ chore[t] \in Chore /\ UNCHANGED <<docs, crossed, broken>>
        /\ bucket \ {DocKey(chore[t].doc)} \subseteq bucket'
        /\ chore' = [chore EXCEPT ![t].at = "remove"]
    BY DEF DeleteObject, DocumentsInv, DocumentsTypeOK
  <1>2. chore[t] \in [at : {"write", "insert", "delete", "remove"}, doc : Doc]
    BY <1>1 DEF Chore, NoChore
  <1>3. /\ chore' \in [Desk -> Chore] /\ chore'[t].at = "remove" /\ chore'[t].doc = chore[t].doc
        /\ \A o \in Desk \ {t} : chore'[o] = chore[o]
    BY <1>1, <1>2 DEF DocumentsInv, DocumentsTypeOK, Chore
  <1>4. ASSUME ~crossed, ~broken PROVE DocumentsSound'
    <2>1. /\ DocumentsSound /\ Busy = {t} /\ \A o \in Desk \ {t} : chore[o].at = "idle"
      BY <1>1, <1>4, OthersRest DEF DocumentsInv
    <2>2. Busy' = {t}
      BY <1>3, <2>1 DEF Busy
    <2>3. OneAtATime' /\ NumbersDiffer'
      BY <1>1, <2>1, <2>2 DEF DocumentsSound, OneAtATime, NumbersDiffer
    <2>4. ASSUME NEW d \in docs, d # chore[t].doc PROVE DocKey(d) \in bucket'
      <3>1. DocKey(d) \in bucket
        BY <1>1, <2>1, <2>4 DEF DocumentsSound, DocsHaveObjects
      <3>2. d.number # chore[t].doc.number
        BY <1>1, <2>1, <2>4 DEF DocumentsSound, NumbersDiffer
      <3>. QED
        BY <1>1, <3>1, <3>2 DEF DocKey
    <2>5. DocsHaveObjects'
      BY <1>1, <1>3, <2>2, <2>4 DEF DocsHaveObjects, DocKey
    <2>6. \A o \in Desk : UploadIsNew(o)'
      BY <1>1, <1>3, <2>1 DEF DocumentsSound, UploadIsNew
    <2>. QED
      BY <1>1, <1>3, <2>1, <2>3, <2>5, <2>6 DEF DocumentsSound
  <1>. QED
    BY <1>1, <1>3, <1>4 DEF DocumentsInv, DocumentsTypeOK

LEMMA RemoveRowPreserves ==
  ASSUME DocumentsInv, NEW t \in Desk, RemoveRow(t)
  PROVE  DocumentsInv'
  <1>1. /\ chore[t].at = "remove" /\ UNCHANGED <<bucket, crossed, broken>>
        /\ docs' = docs \ {chore[t].doc} /\ chore' = [chore EXCEPT ![t] = NoChore]
    BY DEF RemoveRow
  <1>2. /\ chore' \in [Desk -> Chore] /\ chore'[t].at = "idle"
        /\ \A o \in Desk \ {t} : chore'[o] = chore[o]
    BY <1>1 DEF DocumentsInv, DocumentsTypeOK, Chore, NoChore
  <1>3. docs' \subseteq Doc /\ IsFiniteSet(docs')
    BY <1>1, FS_RemoveElement DEF DocumentsInv, DocumentsTypeOK
  <1>4. ASSUME ~crossed, ~broken PROVE DocumentsSound'
    <2>1. /\ DocumentsSound /\ Busy = {t} /\ \A o \in Desk \ {t} : chore[o].at = "idle"
      BY <1>1, <1>4, OthersRest DEF DocumentsInv
    <2>2. Busy' = {} /\ \A o \in Desk : chore'[o].at = "idle"
      BY <1>2, <2>1 DEF Busy
    <2>3. OneAtATime' /\ NumbersDiffer'
      BY <1>1, <2>1, <2>2 DEF DocumentsSound, OneAtATime, NumbersDiffer
    <2>4. \A d \in docs' : DocKey(d) \in bucket
      BY <1>1, <2>1 DEF DocumentsSound, DocsHaveObjects
    <2>5. DocsHaveObjects'
      BY <1>1, <2>4 DEF DocsHaveObjects, DocKey
    <2>. QED
      BY <2>2, <2>3, <2>5 DEF DocumentsSound, UploadIsNew
  <1>. QED
    BY <1>1, <1>2, <1>3, <1>4 DEF DocumentsInv, DocumentsTypeOK

LEMMA ChoreStopsPreserves ==
  ASSUME DocumentsInv, NEW t \in Desk, ChoreStops(t)
  PROVE  DocumentsInv'
  <1>1. /\ chore[t].at # "idle" /\ UNCHANGED <<docs, bucket, crossed>>
        /\ chore' = [chore EXCEPT ![t] = NoChore]
        /\ broken' = (broken \/ chore[t].at = "remove")
    BY DEF ChoreStops, Busy
  <1>2. /\ chore' \in [Desk -> Chore] /\ chore'[t].at = "idle"
        /\ \A o \in Desk \ {t} : chore'[o] = chore[o]
    BY <1>1 DEF DocumentsInv, DocumentsTypeOK, Chore, NoChore
  <1>3. ASSUME ~crossed, ~broken' PROVE DocumentsSound'
    <2>1. /\ DocumentsSound /\ Busy = {t} /\ \A o \in Desk \ {t} : chore[o].at = "idle"
      BY <1>1, <1>3, OthersRest DEF DocumentsInv
    <2>2. Busy' = {} /\ \A o \in Desk : chore'[o].at = "idle"
      BY <1>2, <2>1 DEF Busy
    <2>3. OneAtATime' /\ NumbersDiffer'
      BY <1>1, <2>1, <2>2 DEF DocumentsSound, OneAtATime, NumbersDiffer
    <2>4. \A d \in docs : DocKey(d) \in bucket
      BY <1>1, <1>3, <2>1 DEF DocumentsSound, DocsHaveObjects
    <2>5. DocsHaveObjects'
      BY <1>1, <2>4 DEF DocsHaveObjects, DocKey
    <2>. QED
      BY <2>2, <2>3, <2>5 DEF DocumentsSound, UploadIsNew
  <1>. QED
    BY <1>1, <1>2, <1>3 DEF DocumentsInv, DocumentsTypeOK

LEMMA DocumentsStep ==
  ASSUME DocumentsInv, [DocumentsNext]_docVars
  PROVE  DocumentsInv'
  <1>1. CASE UNCHANGED docVars
    BY <1>1 DEF docVars, DocumentsInv, DocumentsTypeOK, DocumentsSound, OneAtATime,
                NumbersDiffer,
                UploadIsNew, DocsHaveObjects, Busy, DocKey
  <1>. QED
    BY <1>1, UploadPreserves, DeletePreserves, WritePreserves, InsertPreservesDocs,
       DeleteObjectPreserves, RemoveRowPreserves, ChoreStopsPreserves DEF DocumentsNext

(* However uploads, failed uploads, deletions and failed deletions follow  *)
(* each other (uploadDocument, deleteDocument): a lead has two documents   *)
(* at most, and each has an object, and one of its own; unless requests    *)
(* overlap or a deletion stops between the object and the row.             *)
THEOREM DocumentsKeepObjects == DocumentsSpec => []DocumentsHaveTheirObjects
  <1>1. DocumentsInv => DocumentsHaveTheirObjects
    <2>. SUFFICES ASSUME DocumentsTypeOK, DocumentsSound, Busy = {}
                  PROVE  /\ Cardinality(docs) <= 2
                         /\ \A d \in docs : DocKey(d) \in bucket
                         /\ \A d1, d2 \in docs : d1 # d2 => d1.number # d2.number
      BY DEF DocumentsInv, DocumentsHaveTheirObjects
    <2>1. \A d \in docs : d.number \in 1..2
      BY DEF DocumentsTypeOK, Doc
    <2>2. \E d, e : docs \subseteq {d, e}
      BY <2>1 DEF DocumentsSound, NumbersDiffer
    <2>3. Cardinality(docs) <= 2
      <3>1. PICK d, e : docs \subseteq {d, e}
        BY <2>2
      <3>2. IsFiniteSet({d, e}) /\ Cardinality({d, e}) \in {1, 2}
        BY PairsAreFinite
      <3>3. Cardinality(docs) <= Cardinality({d, e})
        BY <3>1, <3>2, FS_Subset
      <3>4. Cardinality(docs) \in Nat
        BY FS_CardinalityType DEF DocumentsTypeOK
      <3>. QED
        BY <3>2, <3>3, <3>4
    <2>. QED
      BY <2>3 DEF DocumentsSound, NumbersDiffer, DocsHaveObjects
  <1>. QED
    BY <1>1, DocumentsInitHolds, DocumentsStep, PTL DEF DocumentsSpec

-----------------------------------------------------------------------------
(* The connections of the pool.  Each one is free, or held by a request    *)
(* for its transaction (HoldsOne), or the second of a claim that makes a   *)
(* notification (HoldsTwo); who waits is in the queue, once.               *)

User == Notifier \cup Plain

InLine(r) == stage[r] \in {"waits", "wantsMore"}
HoldsOne == {r \in User : stage[r] \in {"first", "second", "wantsMore"}}
HoldsTwo == {r \in User : stage[r] = "second"}

PoolTypeOK ==
  /\ stage \in [User -> {"idle", "waits", "first", "wantsMore", "second", "done"}]
  /\ notices \in [Notifier -> 0..MaxNotices]
  /\ waiting \in Seq(User)
  /\ free \in 0..PoolSize

LineKept ==
  /\ free > 0 => waiting = <<>>
  /\ \A i \in 1..Len(waiting) : InLine(waiting[i])
  /\ \A i, j \in 1..Len(waiting) : waiting[i] = waiting[j] => i = j
  /\ \A r \in User : InLine(r) => \E i \in 1..Len(waiting) : waiting[i] = r

(* Only notifiers take a second connection, for a statement they owe.      *)
SecondsAreOwed ==
  \A r \in User : stage[r] \in {"wantsMore", "second"} => r \in Notifier /\ notices[r] > 0

NoneLost ==
  /\ IsFiniteSet(HoldsOne) /\ IsFiniteSet(HoldsTwo)
  /\ Cardinality(HoldsOne) + Cardinality(HoldsTwo) + free = PoolSize

PoolInv == PoolTypeOK /\ LineKept /\ SecondsAreOwed /\ NoneLost

(* Whoever waits will be served, by a request that waits for nothing, holds*)
(* a connection and will give it back, unless all are held by notifiers    *)
(* that wait for more, which takes as many of those as connections.        *)
OnlyNotifiersStick ==
  /\ waiting # <<>> =>
       AllWaitForMore \/ \E r \in User : stage[r] \in {"first", "second"}
  /\ AllWaitForMore => Cardinality(Notifier) >= PoolSize

(* r joins the end of the queue.                                           *)
LEMMA JoinsLine ==
  ASSUME PoolInv, NEW r \in User, ~InLine(r), free = 0, waiting' = Append(waiting, r),
         UNCHANGED free, NEW place \in {"waits", "wantsMore"},
         stage' = [stage EXCEPT ![r] = place]
  PROVE  LineKept' /\ waiting' \in Seq(User)
  <1>0. waiting \in Seq(User)
    BY DEF PoolInv, PoolTypeOK
  <1>1. /\ waiting' \in Seq(User) /\ Len(waiting') = Len(waiting) + 1
        /\ \A i \in 1..Len(waiting) : waiting'[i] = waiting[i]
        /\ waiting'[Len(waiting) + 1] = r /\ Len(waiting) \in Nat
    BY <1>0, AppendProperties, LenProperties
  <1>2. \A i \in 1..Len(waiting) : waiting[i] \in User /\ waiting[i] # r /\ InLine(waiting[i])
    BY <1>0, ElementOfSeq DEF PoolInv, LineKept
  <1>3. stage'[r] = place /\ \A q \in User \ {r} : stage'[q] = stage[q]
    BY DEF PoolInv, PoolTypeOK
  <1>. PICK n \in Nat : n = Len(waiting)
    BY <1>1
  <1>4. /\ \A i \in 1..Len(waiting') : i \in 1..n \/ i = n + 1
        /\ \A i \in 1..n : i \in 1..Len(waiting')
        /\ n + 1 \in 1..Len(waiting') /\ n + 1 \notin 1..n
    BY <1>1
  <1>5. \A i \in 1..Len(waiting') : InLine(waiting[i])'
    <2>. SUFFICES ASSUME NEW i \in 1..Len(waiting')
                  PROVE  stage'[waiting'[i]] \in {"waits", "wantsMore"}
      BY DEF InLine
    <2>. QED
      BY <1>1, <1>2, <1>3, <1>4 DEF InLine
  <1>6. \A i, j \in 1..Len(waiting') : waiting'[i] = waiting'[j] => i = j
    BY <1>1, <1>2, <1>4 DEF PoolInv, LineKept
  <1>7. ASSUME NEW q \in User, stage'[q] \in {"waits", "wantsMore"}
        PROVE  \E i \in 1..Len(waiting') : waiting'[i] = q
    <2>1. CASE q = r
      BY <1>1, <1>4, <2>1
    <2>2. CASE q # r
      <3>. PICK i \in 1..Len(waiting) : waiting[i] = q
        BY <1>3, <1>7, <2>2 DEF PoolInv, LineKept, InLine
      <3>. QED
        BY <1>1, <1>4
    <2>. QED
      BY <2>1, <2>2
  <1>. QED
    BY <1>1, <1>5, <1>6, <1>7 DEF LineKept, InLine

(* The first of the queue is served with what r gives back.                *)
LEMMA LeavesLine ==
  ASSUME PoolInv, NEW r \in User, ~InLine(r), waiting # <<>>, waiting' = Tail(waiting),
         UNCHANGED free, NEW next \in {"first", "done"},
         stage' = [stage EXCEPT ![r] = next, ![Head(waiting)] = Got(@)]
  PROVE  /\ LineKept' /\ waiting' \in Seq(User) /\ free = 0
         /\ Head(waiting) \in User \ {r} /\ InLine(Head(waiting))
         /\ stage'[r] = next /\ stage'[Head(waiting)] = Got(stage[Head(waiting)])
         /\ \A q \in User \ {r, Head(waiting)} : stage'[q] = stage[q]
  <1>. PICK h : h = Head(waiting)
    OBVIOUS
  <1>0. waiting \in Seq(User)
    BY DEF PoolInv, PoolTypeOK
  <1>1. /\ waiting' \in Seq(User) /\ Len(waiting') = Len(waiting) - 1
        /\ \A i \in 1..Len(waiting') : waiting'[i] = waiting[i + 1]
        /\ Len(waiting) \in Nat \ {0} /\ waiting[1] = h
    BY <1>0, HeadTailProperties, EmptySeq
  <1>2. h \in User \ {r} /\ InLine(h)
    <2>1. 1 \in 1..Len(waiting)
      BY <1>1
    <2>2. waiting[1] \in User
      BY <1>0, <2>1, ElementOfSeq
    <2>. QED
      BY <1>1, <2>1, <2>2 DEF PoolInv, LineKept
  <1>3. /\ stage'[r] = next /\ stage'[h] = Got(stage[h])
        /\ \A q \in User \ {r, h} : stage'[q] = stage[q]
    BY <1>2 DEF PoolInv, PoolTypeOK
  <1>4. Got(stage[h]) \in {"first", "second"}
    BY DEF Got
  <1>5. \A i \in 1..Len(waiting') : /\ i + 1 \in 1..Len(waiting) /\ waiting'[i] = waiting[i + 1]
                                    /\ waiting[i + 1] \in User \ {r, h}
    <2>. SUFFICES ASSUME NEW i \in 1..Len(waiting')
                  PROVE  i + 1 \in 1..Len(waiting) /\ waiting[i + 1] \in User \ {r, h}
      BY <1>1
    <2>1. i + 1 \in 1..Len(waiting) /\ i + 1 # 1 /\ 1 \in 1..Len(waiting)
      BY <1>1
    <2>2. waiting[i + 1] \in User /\ InLine(waiting[i + 1])
      BY <1>0, <2>1, ElementOfSeq DEF PoolInv, LineKept
    <2>3. waiting[i + 1] # h
      BY <1>1, <2>1 DEF PoolInv, LineKept
    <2>. QED
      BY <2>1, <2>2, <2>3
  <1>6. \A i \in 1..Len(waiting') : stage'[waiting'[i]] \in {"waits", "wantsMore"}
    <2>. SUFFICES ASSUME NEW i \in 1..Len(waiting')
                  PROVE  stage'[waiting'[i]] \in {"waits", "wantsMore"}
      OBVIOUS
    <2>1. InLine(waiting[i + 1])
      BY <1>5 DEF PoolInv, LineKept
    <2>. QED
      BY <1>3, <1>5, <2>1 DEF InLine
  <1>7. ASSUME NEW i \in 1..Len(waiting'), NEW j \in 1..Len(waiting'), waiting'[i] = waiting'[j]
        PROVE  i = j
    <2>1. i + 1 = j + 1
      BY <1>5, <1>7 DEF PoolInv, LineKept
    <2>. QED
      BY <1>1, <2>1
  <1>8. ASSUME NEW q \in User, stage'[q] \in {"waits", "wantsMore"}
        PROVE  \E i \in 1..Len(waiting') : waiting'[i] = q
    <2>1. q \notin {r, h} /\ InLine(q)
      BY <1>3, <1>4, <1>8 DEF InLine
    <2>. PICK k \in 1..Len(waiting) : waiting[k] = q
      BY <2>1 DEF PoolInv, LineKept
    <2>2. k # 1
      BY <1>1, <2>1
    <2>3. k - 1 \in 1..Len(waiting') /\ (k - 1) + 1 = k
      BY <1>1, <2>2
    <2>. QED
      BY <1>1, <2>3
  <1>9. free = 0
    <2>1. free \in 0..PoolSize /\ PoolSize \in Nat
      BY PoolAssumption DEF PoolInv, PoolTypeOK
    <2>2. ~(free > 0)
      BY DEF PoolInv, LineKept
    <2>. QED
      BY <2>1, <2>2
  <1>10. LineKept'
    <2>1. \A i \in 1..Len(waiting') : InLine(waiting[i])'
      BY <1>6 DEF InLine
    <2>2. \A i, j \in 1..Len(waiting') : waiting'[i] = waiting'[j] => i = j
      BY <1>7
    <2>3. \A q \in User : InLine(q)' => \E i \in 1..Len(waiting') : waiting'[i] = q
      BY <1>8 DEF InLine
    <2>4. ~(free' > 0)
      BY <1>9
    <2>. QED
      BY <2>1, <2>2, <2>3, <2>4 DEF LineKept
  <1>. QED
    BY <1>1, <1>2, <1>3, <1>9, <1>10

(* A step that neither makes anyone wait nor serves one who does.          *)
LEMMA LineStays ==
  ASSUME PoolInv, NEW r \in User, ~InLine(r), UNCHANGED waiting, waiting = <<>>,
         NEW place \in {"first", "second", "done"}, stage' = [stage EXCEPT ![r] = place]
  PROVE  LineKept'
  <1>1. Len(waiting) = 0 /\ 1..Len(waiting') = {}
    BY EmptySeq
  <1>2. \A q \in User : ~InLine(q)
    BY <1>1 DEF PoolInv, LineKept
  <1>3. \A q \in User : stage'[q] = stage[q] \/ stage'[q] = place
    BY DEF PoolInv, PoolTypeOK
  <1>4. \A q \in User : ~InLine(q)'
    BY <1>2, <1>3 DEF InLine
  <1>. QED
    BY <1>1, <1>4 DEF LineKept

(* A connection for r: one that is free, or a place in the queue.          *)
LEMMA AcquireKeeps ==
  ASSUME PoolInv, NEW r \in User, UNCHANGED notices, Acquire(r),
         stage[r] = "idle" \/ (stage[r] = "first" /\ r \in Notifier /\ notices[r] > 0)
  PROVE  PoolInv'
  <1>t. PoolTypeOK /\ PoolSize \in Nat
    BY PoolAssumption DEF PoolInv
  <1>l. ~InLine(r)
    BY DEF InLine
  <1>c. /\ IsFiniteSet(HoldsOne) /\ IsFiniteSet(HoldsTwo) /\ free \in Nat
        /\ Cardinality(HoldsOne) \in Nat /\ Cardinality(HoldsTwo) \in Nat
        /\ Cardinality(HoldsOne) + Cardinality(HoldsTwo) + free = PoolSize
    BY <1>t, FS_CardinalityType DEF PoolInv, NoneLost, PoolTypeOK
  <1>1. CASE free > 0
    <2>. PICK place \in {"first", "second"} :
           /\ place = Turn(stage[r]) /\ stage' = [stage EXCEPT ![r] = place]
      BY <1>1 DEF Acquire, Turn
    <2>1. free' = free - 1 /\ UNCHANGED waiting /\ waiting = <<>>
      BY <1>1 DEF Acquire, PoolInv, LineKept
    <2>2. stage'[r] = place /\ \A q \in User \ {r} : stage'[q] = stage[q]
      BY <1>t DEF PoolTypeOK
    <2>3. PoolTypeOK'
      BY <1>1, <1>t, <2>1 DEF PoolTypeOK
    <2>4. LineKept'
      BY <1>l, <2>1, LineStays
    <2>5. SecondsAreOwed'
      BY <2>2 DEF Turn, PoolInv, SecondsAreOwed
    <2>6. NoneLost'
      <3>1. CASE stage[r] = "idle"
        <4>1. HoldsOne' = HoldsOne \cup {r} /\ HoldsTwo' = HoldsTwo /\ r \notin HoldsOne
          BY <2>2, <3>1 DEF Turn, HoldsOne, HoldsTwo
        <4>2. IsFiniteSet(HoldsOne)' /\ Cardinality(HoldsOne)' = Cardinality(HoldsOne) + 1
          BY <1>c, <4>1, FS_AddElement
        <4>. QED
          BY <1>c, <2>1, <4>1, <4>2 DEF NoneLost
      <3>2. CASE stage[r] = "first"
        <4>1. HoldsOne' = HoldsOne /\ HoldsTwo' = HoldsTwo \cup {r} /\ r \notin HoldsTwo
          BY <2>2, <3>2 DEF Turn, HoldsOne, HoldsTwo
        <4>2. IsFiniteSet(HoldsTwo)' /\ Cardinality(HoldsTwo)' = Cardinality(HoldsTwo) + 1
          BY <1>c, <4>1, FS_AddElement
        <4>. QED
          BY <1>c, <2>1, <4>1, <4>2 DEF NoneLost
      <3>. QED
        BY <3>1, <3>2
    <2>. QED
      BY <2>3, <2>4, <2>5, <2>6 DEF PoolInv
  <1>2. CASE ~(free > 0)
    <2>. PICK place \in {"waits", "wantsMore"} :
           /\ place = IF stage[r] = "idle" THEN "waits" ELSE "wantsMore"
           /\ stage' = [stage EXCEPT ![r] = place]
      BY <1>2 DEF Acquire
    <2>1. free = 0 /\ UNCHANGED free /\ waiting' = Append(waiting, r)
      BY <1>2, <1>t DEF Acquire, PoolTypeOK
    <2>2. stage'[r] = place /\ \A q \in User \ {r} : stage'[q] = stage[q]
      BY <1>t DEF PoolTypeOK
    <2>3. LineKept' /\ waiting' \in Seq(User)
      BY <1>l, <2>1, JoinsLine
    <2>4. PoolTypeOK'
      BY <1>t, <2>1, <2>3 DEF PoolTypeOK
    <2>5. SecondsAreOwed'
      BY <2>2 DEF PoolInv, SecondsAreOwed
    <2>6. HoldsOne' = HoldsOne /\ HoldsTwo' = HoldsTwo
      BY <2>2 DEF HoldsOne, HoldsTwo
    <2>. QED
      BY <2>1, <2>3, <2>4, <2>5, <2>6 DEF PoolInv, NoneLost
  <1>. QED
    BY <1>1, <1>2

(* r gives one back: to the pool, or to the first who waits.               *)
LEMMA ReleaseKeeps ==
  ASSUME PoolInv, NEW r \in User, NEW next \in {"first", "done"}, Release(r, next),
         \/ stage[r] = "first" /\ next = "done"
         \/ stage[r] = "second" /\ next = "first",
         notices' \in [Notifier -> 0..MaxNotices],
         \A c \in Notifier \ {r} : notices'[c] = notices[c]
  PROVE  PoolInv'
  <1>t. PoolTypeOK /\ PoolSize \in Nat
    BY PoolAssumption DEF PoolInv
  <1>l. ~InLine(r)
    BY DEF InLine
  <1>c. /\ IsFiniteSet(HoldsOne) /\ IsFiniteSet(HoldsTwo) /\ free \in Nat
        /\ Cardinality(HoldsOne) \in Nat /\ Cardinality(HoldsTwo) \in Nat
        /\ Cardinality(HoldsOne) + Cardinality(HoldsTwo) + free = PoolSize
    BY <1>t, FS_CardinalityType DEF PoolInv, NoneLost, PoolTypeOK
  <1>d. /\ r \in HoldsOne
        /\ stage[r] = "second" => r \in HoldsTwo
    BY DEF HoldsOne, HoldsTwo
  <1>r. /\ IsFiniteSet(HoldsOne \ {r}) /\ IsFiniteSet(HoldsTwo \ {r})
        /\ Cardinality(HoldsOne \ {r}) = Cardinality(HoldsOne) - 1
        /\ stage[r] = "second" => Cardinality(HoldsTwo \ {r}) = Cardinality(HoldsTwo) - 1
    BY <1>c, <1>d, FS_RemoveElement
  <1>1. CASE waiting = <<>>
    <2>1. /\ free' = free + 1 /\ UNCHANGED waiting
          /\ stage' = [stage EXCEPT ![r] = next]
      BY <1>1 DEF Release
    <2>2. stage'[r] = next /\ \A q \in User \ {r} : stage'[q] = stage[q]
      BY <1>t, <2>1 DEF PoolTypeOK
    <2>3. LineKept'
      BY <1>1, <1>l, <2>1, LineStays
    <2>4. SecondsAreOwed'
      BY <2>2 DEF PoolInv, SecondsAreOwed
    <2>5. \/ HoldsOne' = HoldsOne \ {r} /\ HoldsTwo' = HoldsTwo
          \/ HoldsOne' = HoldsOne /\ HoldsTwo' = HoldsTwo \ {r} /\ stage[r] = "second"
      BY <2>2 DEF HoldsOne, HoldsTwo
    <2>6. NoneLost'
      <3>1. CASE HoldsOne' = HoldsOne \ {r} /\ HoldsTwo' = HoldsTwo
        <4>1. /\ IsFiniteSet(HoldsOne)' /\ Cardinality(HoldsOne)' = Cardinality(HoldsOne) - 1
              /\ IsFiniteSet(HoldsTwo)' /\ Cardinality(HoldsTwo)' = Cardinality(HoldsTwo)
          BY <1>c, <1>r, <3>1
        <4>. QED
          BY <1>c, <2>1, <4>1 DEF NoneLost
      <3>2. CASE HoldsOne' = HoldsOne /\ HoldsTwo' = HoldsTwo \ {r} /\ stage[r] = "second"
        <4>1. /\ IsFiniteSet(HoldsOne)' /\ Cardinality(HoldsOne)' = Cardinality(HoldsOne)
              /\ IsFiniteSet(HoldsTwo)' /\ Cardinality(HoldsTwo)' = Cardinality(HoldsTwo) - 1
          BY <1>c, <1>r, <3>2
        <4>. QED
          BY <1>c, <2>1, <4>1 DEF NoneLost
      <3>. QED
        BY <2>5, <3>1, <3>2
    <2>7. free' \in 0..PoolSize
      <3>1. 0 < Cardinality(HoldsOne)
        BY <1>c, <1>r, FS_CardinalityType
      <3>. QED
        BY <1>c, <1>t, <2>1, <3>1
    <2>8. PoolTypeOK'
      BY <1>t, <2>1, <2>7 DEF PoolTypeOK
    <2>. QED
      BY <2>3, <2>4, <2>6, <2>8 DEF PoolInv
  <1>2. CASE waiting # <<>>
    <2>. PICK h : h = Head(waiting)
      OBVIOUS
    <2>1. /\ waiting' = Tail(waiting) /\ UNCHANGED free
          /\ stage' = [stage EXCEPT ![r] = next, ![Head(waiting)] = Got(@)]
      BY <1>2 DEF Release
    <2>2. /\ LineKept' /\ waiting' \in Seq(User)
          /\ h \in User \ {r} /\ InLine(h)
          /\ stage'[r] = next /\ stage'[h] = Got(stage[h])
          /\ \A q \in User \ {r, h} : stage'[q] = stage[q]
      BY <1>2, <1>l, <2>1, LeavesLine
    <2>3. /\ stage[h] = "waits" => stage'[h] = "first"
          /\ stage[h] = "wantsMore" => stage'[h] = "second"
          /\ stage[h] \in {"waits", "wantsMore"}
      BY <2>2 DEF Got, InLine
    <2>4. PoolTypeOK'
      <3>1. stage' \in [User -> {"idle", "waits", "first", "wantsMore", "second", "done"}]
        BY <1>t, <2>1, <2>2, <2>3 DEF PoolTypeOK
      <3>. QED
        BY <1>t, <2>1, <2>2, <3>1 DEF PoolTypeOK
    <2>5. SecondsAreOwed'
      <3>. SUFFICES ASSUME NEW q \in User, stage'[q] \in {"wantsMore", "second"}
                    PROVE  q \in Notifier /\ notices'[q] > 0
        BY DEF SecondsAreOwed
      <3>1. q # r /\ stage[q] \in {"wantsMore", "second"}
        BY <2>2, <2>3
      <3>. QED
        BY <3>1 DEF PoolInv, SecondsAreOwed
    <2>6. /\ HoldsOne' = (IF stage[r] = "first" THEN HoldsOne \ {r} ELSE HoldsOne)
                            \cup (IF stage[h] = "waits" THEN {h} ELSE {})
          /\ HoldsTwo' = (IF stage[r] = "second" THEN HoldsTwo \ {r} ELSE HoldsTwo)
                            \cup (IF stage[h] = "wantsMore" THEN {h} ELSE {})
      BY <2>2, <2>3 DEF HoldsOne, HoldsTwo
    <2>7. /\ h \notin HoldsTwo
          /\ stage[h] = "waits" => h \notin HoldsOne
      BY <2>3 DEF HoldsOne, HoldsTwo
    <2>8. NoneLost'
      <3>1. /\ IsFiniteSet(HoldsOne)'
            /\ Cardinality(HoldsOne)' = Cardinality(HoldsOne)
                  - (IF stage[r] = "first" THEN 1 ELSE 0) + (IF stage[h] = "waits" THEN 1 ELSE 0)
        <4>. DEFINE one == IF stage[r] = "first" THEN HoldsOne \ {r} ELSE HoldsOne
        <4>1. /\ IsFiniteSet(one)
              /\ stage[h] = "waits" => h \notin one
              /\ Cardinality(one) = Cardinality(HoldsOne) - (IF stage[r] = "first" THEN 1 ELSE 0)
          BY <1>c, <1>r, <2>7
        <4>2. HoldsOne' = IF stage[h] = "waits" THEN one \cup {h} ELSE one
          BY <2>6
        <4>. HIDE DEF one
        <4>3. CASE stage[h] = "waits"
          <5>1. IsFiniteSet(one \cup {h}) /\ Cardinality(one \cup {h}) = Cardinality(one) + 1
            BY <4>1, <4>3, FS_AddElement
          <5>. QED
            BY <1>c, <4>1, <4>2, <4>3, <5>1
        <4>4. CASE stage[h] # "waits"
          BY <1>c, <4>1, <4>2, <4>4
        <4>. QED
          BY <4>3, <4>4
      <3>2. /\ IsFiniteSet(HoldsTwo)'
            /\ Cardinality(HoldsTwo)' = Cardinality(HoldsTwo)
                  - (IF stage[r] = "second" THEN 1 ELSE 0)
                  + (IF stage[h] = "wantsMore" THEN 1 ELSE 0)
        <4>. DEFINE two == IF stage[r] = "second" THEN HoldsTwo \ {r} ELSE HoldsTwo
        <4>1. /\ IsFiniteSet(two) /\ h \notin two
              /\ Cardinality(two) = Cardinality(HoldsTwo) - (IF stage[r] = "second" THEN 1 ELSE 0)
          BY <1>c, <1>r, <2>7
        <4>2. HoldsTwo' = IF stage[h] = "wantsMore" THEN two \cup {h} ELSE two
          BY <2>6
        <4>. HIDE DEF two
        <4>3. CASE stage[h] = "wantsMore"
          <5>1. IsFiniteSet(two \cup {h}) /\ Cardinality(two \cup {h}) = Cardinality(two) + 1
            BY <4>1, FS_AddElement
          <5>. QED
            BY <1>c, <4>1, <4>2, <4>3, <5>1
        <4>4. CASE stage[h] # "wantsMore"
          BY <1>c, <4>1, <4>2, <4>4
        <4>. QED
          BY <4>3, <4>4
      <3>. QED
        BY <1>c, <2>1, <2>3, <3>1, <3>2 DEF NoneLost
    <2>. QED
      BY <2>2, <2>4, <2>5, <2>8 DEF PoolInv
  <1>. QED
    BY <1>1, <1>2

LEMMA NextPool == PoolInv /\ [PoolNext]_poolVars => PoolInv'
  <1>. SUFFICES ASSUME PoolInv, [PoolNext]_poolVars PROVE PoolInv'
    OBVIOUS
  <1>1. ASSUME NEW r \in User, BeginRequest(r) PROVE PoolInv'
    BY <1>1, AcquireKeeps DEF BeginRequest
  <1>2. ASSUME NEW c \in Notifier, Notify(c) PROVE PoolInv'
    BY <1>2, AcquireKeeps DEF Notify, User
  <1>3. ASSUME NEW c \in Notifier, Notified(c) PROVE PoolInv'
    <2>1. notices[c] \in 0..MaxNotices /\ notices[c] > 0 /\ notices \in [Notifier -> 0..MaxNotices]
      BY <1>3 DEF Notified, PoolInv, PoolTypeOK, SecondsAreOwed, User
    <2>2. /\ notices' \in [Notifier -> 0..MaxNotices]
          /\ \A b \in Notifier \ {c} : notices'[b] = notices[b]
      BY <1>3, <2>1, PoolAssumption DEF Notified
    <2>. QED
      BY <1>3, <2>2, ReleaseKeeps DEF Notified, User
  <1>4. ASSUME NEW r \in User, EndTransaction(r) \/ EndPlain(r) PROVE PoolInv'
    <2>1. stage[r] = "first" /\ Release(r, "done") /\ UNCHANGED notices
      BY <1>4 DEF EndTransaction, EndPlain
    <2>. QED
      BY <2>1, ReleaseKeeps DEF PoolInv, PoolTypeOK
  <1>5. CASE UNCHANGED poolVars
    BY <1>5 DEF poolVars, PoolInv, PoolTypeOK, LineKept, InLine, SecondsAreOwed, NoneLost,
                HoldsOne, HoldsTwo
  <1>. QED
    BY <1>1, <1>2, <1>3, <1>4, <1>5 DEF PoolNext, User

LEMMA InitPool == PoolInit => PoolInv
  <1>. SUFFICES ASSUME PoolInit PROVE PoolInv
    OBVIOUS
  <1>1. \A r \in User : stage[r] = "idle"
    BY DEF PoolInit, User
  <1>2. HoldsOne = {} /\ HoldsTwo = {}
    BY <1>1 DEF HoldsOne, HoldsTwo
  <1>3. NoneLost
    BY <1>2, FS_EmptySet, PoolAssumption DEF NoneLost, PoolInit
  <1>4. PoolTypeOK
    BY EmptySeq, PoolAssumption DEF PoolInit, PoolTypeOK, User
  <1>5. LineKept
    BY <1>1, EmptySeq DEF LineKept, InLine, PoolInit
  <1>6. SecondsAreOwed
    BY <1>1 DEF SecondsAreOwed
  <1>. QED
    BY <1>3, <1>4, <1>5, <1>6 DEF PoolInv

(* For any pool and any number of notifications and requests: whoever      *)
(* waits is served, unless every connection is held by a transaction that  *)
(* waits for a second one to notify, which takes as many of them as there  *)
(* are connections, and no connection is ever lost (claimLead,             *)
(* acceptEvent, acknowledgeEvent, createNotification).                     *)
THEOREM PoolNeverStuck == PoolSpec => [](OnlyNotifiersStick /\ NoneLost)
  <1>. DEFINE W == {c \in Notifier : stage[c] = "wantsMore"}
  <1>1. ASSUME PoolInv, waiting # <<>>, \A r \in User : stage[r] \notin {"first", "second"}
        PROVE  AllWaitForMore
    <2>1. free = 0
      BY <1>1, PoolAssumption DEF PoolInv, PoolTypeOK, LineKept
    <2>2. HoldsTwo = {} /\ HoldsOne = W
      BY <1>1 DEF HoldsOne, HoldsTwo, PoolInv, SecondsAreOwed, User
    <2>3. Cardinality(HoldsTwo) = 0
      BY <2>2, FS_EmptySet
    <2>4. /\ Cardinality(HoldsOne) \in Nat
          /\ Cardinality(HoldsOne) + Cardinality(HoldsTwo) + free = PoolSize
      BY <1>1, FS_CardinalityType DEF PoolInv, NoneLost
    <2>5. Cardinality(HoldsOne) = PoolSize
      BY <2>1, <2>3, <2>4, PoolAssumption
    <2>. QED
      BY <2>2, <2>5 DEF AllWaitForMore
  <1>2. AllWaitForMore => Cardinality(Notifier) >= PoolSize
    <2>1. W \subseteq Notifier
      OBVIOUS
    <2>2. /\ Cardinality(W) <= Cardinality(Notifier)
          /\ Cardinality(W) \in Nat /\ Cardinality(Notifier) \in Nat
      BY <2>1, FS_Subset, FS_CardinalityType, PoolAssumption
    <2>. QED
      BY <2>2, PoolAssumption DEF AllWaitForMore
  <1>3. PoolInv => OnlyNotifiersStick /\ NoneLost
    BY <1>1, <1>2 DEF OnlyNotifiersStick, PoolInv
  <1>. QED
    BY <1>3, InitPool, NextPool, PTL DEF PoolSpec

=============================================================================
