----------------------------- MODULE Desk_proofs -----------------------------
(***************************************************************************)
(* Theorems about the parts of the CRM that staff and their phones work on *)
(* and that do not meet, each for any number of requests at once: the call *)
(* log (CallSync, for any number of calls and of batches in transit) and   *)
(* the phones that send it (LoggerDevices), accounts (Accounts), the tasks *)
(* of a month (TaskMetrics), the files of emails (MailAttachments),        *)
(* imported candidates (HrImport).                                         *)
(***************************************************************************)
EXTENDS CallSync, LoggerDevices, Accounts, TaskMetrics, MailAttachments, HrImport,
        FiniteSetTheorems, TLAPS

(* One person signs in on a phone.  Without it an upsert leaves the row to *)
(* its first owner, and the password change of a later one misses it.      *)
SoleHolders == \A d \in Device : \A u, v \in Holder[d] : u = v

(* A phone's secret was given to its owner, and to that phone only.        *)
SecretsAreOwned ==
  /\ \A d \in Device : enrol[d] # Nobody => enrol[d] \in Holder[d]
  /\ \A d \in Device : device[d].owner # Nobody =>
       /\ device[d].owner \in Holder[d]
       /\ device[d].secret \in 1..Len(issued)
       /\ issued[device[d].secret] = device[d].owner
  /\ \A d, e \in Device :
       d # e /\ device[d].owner # Nobody /\ device[e].owner # Nobody
         => device[d].secret # device[e].secret

DevicesInv == DevicesTypeOK /\ SecretsAreOwned /\ DeadSecretsStayDead

-----------------------------------------------------------------------------

DeviceRow == [owner : User \cup {Nobody}, secret : Nat, revoked : BOOLEAN, expired : BOOLEAN]

LEMMA DevicesInitHolds == DevicesInit => DevicesInv
  <1>1. NoDevice \in DeviceRow
    BY DEF NoDevice, DeviceRow
  <1>. QED
    BY <1>1, NobodyAssumption
    DEF DevicesInit, DevicesInv, DevicesTypeOK, SecretsAreOwned, DeadSecretsStayDead, NoDevice, DeviceRow

(* The secret that is issued is new: no phone has it and none has died.    *)
LEMMA EnrolPreserves ==
  ASSUME SoleHolders, DevicesInv, NEW d \in Device, Enrol(d)
  PROVE  DevicesInv'
  <1>. DEFINE u == enrol[d]
  <1>. DEFINE s == Len(issued) + 1
  <1>. DEFINE new == Upserted(device[d], u, s)
  <1>1. /\ u \in User /\ u \in Holder[d] /\ u # Nobody
        /\ issued \in Seq(User) /\ device[d] \in DeviceRow
    BY NobodyAssumption DEF Enrol, DevicesInv, DevicesTypeOK, SecretsAreOwned, DeviceRow
  <1>2. issued' \in Seq(User) /\ Len(issued') = s /\ issued'[s] = u
    BY <1>1 DEF Enrol
  <1>3. \A t \in 1..Len(issued) : t \in 1..Len(issued') /\ issued'[t] = issued[t]
    BY <1>1, <1>2 DEF Enrol
  <1>4. new \in DeviceRow /\ new.owner = u /\ new.secret = s
    <2>1. device[d].owner # Nobody => device[d].owner = u
      BY <1>1 DEF SoleHolders, DevicesInv, SecretsAreOwned
    <2>. QED
      BY <1>1, <2>1 DEF Upserted, DeviceRow
  <1>5. /\ device' \in [Device -> DeviceRow] /\ device'[d] = new
        /\ \A e \in Device : e # d => device'[e] = device[e]
    BY <1>4 DEF Enrol, DevicesInv, DevicesTypeOK, DeviceRow
  <1>6. \A e \in Device : enrol'[e] # Nobody => e # d /\ enrol'[e] = enrol[e]
    BY DEF Enrol, DevicesInv, DevicesTypeOK
  <1>7. \A e \in Device : device[e].owner # Nobody => device[e].secret \in 1..Len(issued)
    BY DEF DevicesInv, SecretsAreOwned
  <1>8. s \in 1..Len(issued') /\ s \notin 1..Len(issued) /\ s \in Nat
    BY <1>1, <1>2
  <1>. HIDE DEF new, s
  <1>9. dead' \subseteq 1..Len(issued) /\ s \notin dead'
    BY <1>7, <1>8 DEF Enrol, DevicesInv, DevicesTypeOK
  <1>10. DevicesTypeOK'
    <2>1. enrol' \in [Device -> User \cup {Nobody}]
      BY DEF Enrol, DevicesInv, DevicesTypeOK
    <2>2. dead' \subseteq 1..Len(issued')
      BY <1>3, <1>9
    <2>. QED
      BY <1>2, <1>5, <2>1, <2>2 DEF Enrol, DevicesInv, DevicesTypeOK, DeviceRow
  <1>11. SecretsAreOwned'
    <2>1. ASSUME NEW e \in Device, device'[e].owner # Nobody
          PROVE  /\ device'[e].owner \in Holder[e]
                 /\ device'[e].secret \in 1..Len(issued')
                 /\ issued'[device'[e].secret] = device'[e].owner
      <3>1. CASE e = d
        BY <1>1, <1>2, <1>4, <1>5, <1>8, <3>1
      <3>2. CASE e # d
        BY <1>3, <1>5, <2>1, <3>2 DEF DevicesInv, SecretsAreOwned
      <3>. QED
        BY <3>1, <3>2
    <2>2. ASSUME NEW e \in Device, NEW f \in Device, e # f,
                 device'[e].owner # Nobody, device'[f].owner # Nobody
          PROVE  device'[e].secret # device'[f].secret
      BY <1>4, <1>5, <1>7, <1>8, <2>2 DEF DevicesInv, SecretsAreOwned
    <2>3. \A e \in Device : enrol'[e] # Nobody => enrol'[e] \in Holder[e]
      BY <1>6 DEF DevicesInv, SecretsAreOwned
    <2>. QED
      BY <2>1, <2>2, <2>3 DEF SecretsAreOwned
  <1>12. DeadSecretsStayDead'
    <2>. SUFFICES ASSUME NEW e \in Device, device'[e].owner # Nobody, ~device'[e].revoked
                  PROVE  device'[e].secret \notin dead'
      BY DEF DeadSecretsStayDead
    <2>1. CASE e = d
      BY <1>4, <1>5, <1>9, <2>1
    <2>2. CASE e # d
      <3>1. device[e].secret \notin dead
        BY <1>5, <2>2 DEF DevicesInv, DeadSecretsStayDead
      <3>2. device[d].owner # Nobody => device[d].secret # device[e].secret
        BY <1>5, <2>2 DEF DevicesInv, SecretsAreOwned
      <3>. QED
        BY <1>5, <2>2, <3>1, <3>2 DEF Enrol
    <2>. QED
      BY <2>1, <2>2
  <1>. QED
    BY <1>10, <1>11, <1>12 DEF DevicesInv

-----------------------------------------------------------------------------
(* The other steps issue no secret and give no row to anybody.             *)

(* Every row keeps its owner and its secret.                               *)
RowsKept ==
  /\ device' \in [Device -> DeviceRow]
  /\ \A d \in Device : device'[d].owner = device[d].owner /\ device'[d].secret = device[d].secret
  /\ UNCHANGED issued

LEMMA OwnedKept ==
  ASSUME DevicesInv, RowsKept, \A d \in Device : enrol'[d] # Nobody => enrol'[d] \in Holder[d]
  PROVE  SecretsAreOwned'
  BY DEF DevicesInv, SecretsAreOwned, RowsKept

LEMMA RevokeDevicePreserves ==
  ASSUME DevicesInv, NEW d \in Device, RevokeDevice(d)
  PROVE  DevicesInv'
  <1>1. RowsKept
    BY DEF RevokeDevice, RowsKept, DevicesInv, DevicesTypeOK, DeviceRow
  <1>2. DevicesTypeOK'
    BY <1>1 DEF RowsKept, RevokeDevice, DevicesInv, DevicesTypeOK, SecretsAreOwned, DeviceRow
  <1>3. SecretsAreOwned'
    BY <1>1, OwnedKept DEF RevokeDevice, DevicesInv, SecretsAreOwned
  <1>4. DeadSecretsStayDead'
    <2>. SUFFICES ASSUME NEW e \in Device, device'[e].owner # Nobody, ~device'[e].revoked
                  PROVE  device'[e].secret \notin dead'
      BY DEF DeadSecretsStayDead
    <2>1. device' = [device EXCEPT ![d].revoked = TRUE] /\ device \in [Device -> DeviceRow]
      BY DEF RevokeDevice, DevicesInv, DevicesTypeOK, DeviceRow
    <2>2. e # d
      BY <2>1 DEF DeviceRow
    <2>3. device'[e] = device[e]
      BY <2>1, <2>2
    <2>4. device[e].secret # device[d].secret /\ device[e].secret \notin dead
      BY <2>2, <2>3 DEF RevokeDevice, DevicesInv, SecretsAreOwned, DeadSecretsStayDead
    <2>. QED
      BY <2>3, <2>4 DEF RevokeDevice
  <1>. QED
    BY <1>2, <1>3, <1>4 DEF DevicesInv

(* Here it matters that the owner is the one the secret was given to.      *)
LEMMA RevokeAllPreserves ==
  ASSUME DevicesInv, NEW u \in User, RevokeAllUserDevices(u)
  PROVE  DevicesInv'
  <1>. DEFINE ends(d) == IF device[d].owner = u THEN [device[d] EXCEPT !.revoked = TRUE]
                         ELSE device[d]
  <1>1. /\ device' = [d \in Device |-> ends(d)] /\ device \in [Device -> DeviceRow]
        /\ issued' = issued /\ issued \in Seq(User)
    BY DEF RevokeAllUserDevices, DevicesInv, DevicesTypeOK, DeviceRow
  <1>2. \A d \in Device :
          /\ ends(d) \in DeviceRow /\ ends(d).owner = device[d].owner
          /\ ends(d).secret = device[d].secret
          /\ ends(d).revoked = (device[d].revoked \/ device[d].owner = u)
    BY <1>1 DEF DeviceRow
  <1>. HIDE DEF ends
  <1>3. RowsKept
    BY <1>1, <1>2 DEF RowsKept
  <1>4. DevicesTypeOK'
    <2>1. {s \in DOMAIN issued : issued[s] = u} \subseteq 1..Len(issued)
      BY <1>1
    <2>. QED
      BY <1>3, <2>1 DEF RowsKept, RevokeAllUserDevices, DevicesInv, DevicesTypeOK, DeviceRow
  <1>5. SecretsAreOwned'
    BY <1>3, OwnedKept DEF RevokeAllUserDevices, DevicesInv, SecretsAreOwned
  <1>6. DeadSecretsStayDead'
    BY <1>1, <1>2 DEF RevokeAllUserDevices, DevicesInv, SecretsAreOwned, DeadSecretsStayDead
  <1>. QED
    BY <1>4, <1>5, <1>6 DEF DevicesInv

(* Nothing is revoked, nothing dies.                                       *)
LEMMA QuietStepPreserves ==
  ASSUME DevicesInv, RowsKept, UNCHANGED dead, DevicesTypeOK',
         \A d \in Device : device'[d].revoked = device[d].revoked,
         \A d \in Device : enrol'[d] # Nobody => enrol'[d] \in Holder[d]
  PROVE  DevicesInv'
  <1>1. SecretsAreOwned'
    BY OwnedKept
  <1>2. DeadSecretsStayDead'
    BY DEF DevicesInv, RowsKept, DeadSecretsStayDead
  <1>. QED
    BY <1>1, <1>2 DEF DevicesInv

LEMMA DevicesStep ==
  ASSUME SoleHolders, DevicesInv, [DevicesNext]_deviceVars
  PROVE  DevicesInv'
  <1>rows. device \in [Device -> DeviceRow]
    BY DEF DevicesInv, DevicesTypeOK, DeviceRow
  <1>enrol. \A d \in Device : enrol[d] # Nobody => enrol[d] \in Holder[d]
    BY DEF DevicesInv, SecretsAreOwned
  <1>1. ASSUME NEW u \in User, SetActive(u) PROVE DevicesInv'
    <2>1. RowsKept
      BY <1>1, <1>rows DEF SetActive, RowsKept
    <2>2. DevicesTypeOK'
      BY <1>1 DEF SetActive, DevicesInv, DevicesTypeOK
    <2>. QED
      BY <1>1, <1>enrol, <2>1, <2>2, QuietStepPreserves DEF SetActive
  <1>2. ASSUME NEW d \in Device, NEW u \in User, Register(d, u) PROVE DevicesInv'
    <2>1. RowsKept
      BY <1>2, <1>rows DEF Register, RowsKept
    <2>2. DevicesTypeOK'
      BY <1>2 DEF Register, DevicesInv, DevicesTypeOK
    <2>3. \A e \in Device : enrol'[e] # Nobody => enrol'[e] \in Holder[e]
      BY <1>2, <1>enrol DEF Register, DevicesInv, DevicesTypeOK
    <2>. QED
      BY <1>2, <2>1, <2>2, <2>3, QuietStepPreserves DEF Register
  <1>3. ASSUME NEW d \in Device, Expire(d) \/ Touch(d) PROVE DevicesInv'
    <2>0. \E b \in BOOLEAN : device' = [device EXCEPT ![d].expired = b]
      BY <1>3 DEF Expire, Touch
    <2>1. /\ RowsKept
          /\ \A e \in Device : device'[e].revoked = device[e].revoked
      <3>1. UNCHANGED issued
        BY <1>3 DEF Expire, Touch
      <3>. QED
        BY <2>0, <3>1, <1>rows DEF RowsKept, DeviceRow
    <2>2. DevicesTypeOK'
      <3>1. UNCHANGED <<active, enrol, issued, dead>> /\ knock' \subseteq knock
        BY <1>3 DEF Expire, Touch
      <3>. QED
        BY <3>1, <2>1 DEF RowsKept, DeviceRow, DevicesInv, DevicesTypeOK
    <2>. QED
      BY <1>3, <1>enrol, <2>1, <2>2, QuietStepPreserves DEF Expire, Touch
  <1>4. ASSUME NEW d \in Device, Knock(d) PROVE DevicesInv'
    <2>1. RowsKept
      BY <1>4, <1>rows DEF Knock, RowsKept
    <2>2. DevicesTypeOK'
      BY <1>4 DEF Knock, DevicesInv, DevicesTypeOK
    <2>. QED
      BY <1>4, <1>enrol, <2>1, <2>2, QuietStepPreserves DEF Knock
  <1>5. CASE UNCHANGED deviceVars
    BY <1>5 DEF deviceVars, DevicesInv, DevicesTypeOK, SecretsAreOwned, DeadSecretsStayDead
  <1>. QED
    BY <1>1, <1>2, <1>3, <1>4, <1>5, EnrolPreserves, RevokeDevicePreserves, RevokeAllPreserves
    DEF DevicesNext

-----------------------------------------------------------------------------

LEMMA DevicesInvariant == ASSUME SoleHolders PROVE DevicesSpec => []DevicesInv
  BY DevicesInitHolds, DevicesStep, PTL DEF DevicesSpec

(* The secrets, owners and enrolments are what their columns hold, and     *)
(* only secrets that were issued can have died.                            *)
THEOREM DeviceTypesOK == ASSUME SoleHolders PROVE DevicesSpec => []DevicesTypeOK
  <1>1. DevicesInv => DevicesTypeOK
    BY DEF DevicesInv
  <1>. QED
    BY <1>1, DevicesInvariant, PTL

(* Where one person signs in on each phone, a secret that registerDevice   *)
(* replaced, or that revokeDevice or the owner's password change ended,    *)
(* opens no door again, in whatever order these requests arrive.           *)
THEOREM DeadSecretsStay == ASSUME SoleHolders PROVE DevicesSpec => []DeadSecretsStayDead
  <1>1. DevicesInv => DeadSecretsStayDead
    BY DEF DevicesInv
  <1>. QED
    BY <1>1, DevicesInvariant, PTL

-----------------------------------------------------------------------------

Row == Book \X Call

SyncState == [at : {"idle", "check", "insert"}, pending : SUBSET Row,
              existing : SUBSET Call, read : Nat]

CallsTypeOK ==
  /\ match \in [Call -> Book \cup {NoBook}]
  /\ log \subseteq Row
  /\ sync \in [Sync -> SyncState]

(* The tables a batch has still to read.                                   *)
Unread(s) == Book \ {Books[i] : i \in 1..sync[s].read}

ReadsInOrder(s) ==
  /\ sync[s].at = "idle" => sync[s].pending = {}
  /\ sync[s].at = "check" => sync[s].read < Len(Books)

(* What the pre-check found is in the log for good.                        *)
ExistingIsLogged(s) == \A c \in sync[s].existing : Logged(c) # {}

(* A batch has one row for a call, and so have two that are under way      *)
(* unless they matched the call differently.                               *)
Agree(s, o) ==
  \A r \in sync[s].pending, q \in sync[o].pending :
    r[2] = q[2] /\ (s = o \/ r[2] \notin moved) => r = q

(* A call may be logged already: in the table it goes to, in one the batch *)
(* has yet to read, or it is among those the pre-check found.              *)
Found(s, c, b) ==
  \A a \in Logged(c) :
    \/ a = b
    \/ c \in sync[s].existing
    \/ sync[s].at = "check" /\ a \in Unread(s)

LogInv ==
  /\ CallsTypeOK
  /\ \A s \in Sync : ReadsInOrder(s) /\ ExistingIsLogged(s)
  /\ \A s, o \in Sync : Agree(s, o)
  /\ \A s \in Sync : \A r \in sync[s].pending : r[2] \notin moved => Found(s, r[2], r[1])
  /\ AckedIsLogged
  /\ \A c \in Call \ moved : \A a, b \in Logged(c) : a = b

-----------------------------------------------------------------------------

LEMMA BooksAreRead ==
  /\ Books \in Seq(Book) /\ Len(Books) \in Nat /\ Len(Books) > 0
  /\ \A i \in 1..Len(Books) : Books[i] \in Book
  /\ \A b \in Book : \E i \in 1..Len(Books) : b = Books[i]
  /\ NoBook \notin Book
  BY BooksAssumption DEF Book

LEMMA LogInitHolds == CallsInit => LogInv
  <1>1. NoSync \in SyncState
    BY DEF NoSync, SyncState
  <1>. QED
    BY <1>1 DEF CallsInit, LogInv, CallsTypeOK, ReadsInOrder, ExistingIsLogged, Agree, Found,
                AckedIsLogged, Logged, NoSync

(* A batch that gives up, or has been inserted, has nothing to be said of. *)
LEMMA EndKeeps ==
  ASSUME LogInv, NEW s \in Sync, sync' = [sync EXCEPT ![s] = NoSync], UNCHANGED <<match, moved>>,
         log' \subseteq Row, log \subseteq log', AckedIsLogged',
         \A c \in Call \ moved : \A a, b \in Logged(c)' : a = b,
         \A o \in Sync \ {s} : \A r \in sync[o].pending :
           r[2] \notin moved => \A a \in Logged(r[2])' : a \in Logged(r[2]) \/ a = r[1]
  PROVE  LogInv'
  <1>1. /\ sync' \in [Sync -> SyncState] /\ sync'[s] = NoSync
        /\ \A o \in Sync \ {s} : sync'[o] = sync[o]
    BY DEF LogInv, CallsTypeOK, NoSync, SyncState
  <1>2. CallsTypeOK'
    BY <1>1 DEF LogInv, CallsTypeOK, Row, Book
  <1>3. \A c : Logged(c) \subseteq Logged(c)'
    BY DEF Logged, Book
  <1>4. ASSUME NEW o \in Sync PROVE ReadsInOrder(o)' /\ ExistingIsLogged(o)'
    BY <1>1, <1>3 DEF LogInv, ReadsInOrder, ExistingIsLogged, NoSync
  <1>5. ASSUME NEW o \in Sync, NEW p \in Sync PROVE Agree(o, p)'
    BY <1>1 DEF LogInv, Agree, NoSync
  <1>6. ASSUME NEW o \in Sync, NEW r \in sync'[o].pending, r[2] \notin moved
        PROVE  Found(o, r[2], r[1])'
    <2>1. o # s /\ sync'[o] = sync[o]
      BY <1>1, <1>6 DEF NoSync
    <2>. QED
      BY <1>6, <2>1 DEF LogInv, Found, Unread
  <1>. QED
    BY <1>2, <1>4, <1>5, <1>6 DEF LogInv

LEMMA InsertPreserves ==
  ASSUME LogInv, NEW s \in Sync, Insert(s)
  PROVE  LogInv'
  <1>. DEFINE p == sync[s].pending
  <1>1. /\ p \subseteq Row /\ sync[s].at = "insert" /\ log' = log \cup NewRows(s)
        /\ NewRows(s) = {r \in p : r[2] \notin sync[s].existing}
        /\ sync' = [sync EXCEPT ![s] = NoSync] /\ UNCHANGED <<match, moved>>
    BY DEF Insert, NewRows, LogInv, CallsTypeOK, SyncState
  <1>2. \A c : Logged(c)' = Logged(c) \cup {b \in Book : <<b, c>> \in NewRows(s)}
    BY <1>1 DEF Logged, Book
  <1>3. \A c : \A b \in Logged(c)' : b \notin Logged(c) => <<b, c>> \in p /\ c \notin sync[s].existing
    BY <1>1, <1>2
  <1>4. AckedIsLogged'
    <2>1. ASSUME NEW r \in p PROVE Logged(r[2])' # {}
      <3>1. CASE r[2] \in sync[s].existing
        BY <1>2, <3>1 DEF LogInv, ExistingIsLogged
      <3>2. CASE r[2] \notin sync[s].existing
        <4>1. r = <<r[1], r[2]>> /\ r[1] \in Book
          BY <1>1 DEF Row
        <4>. QED
          BY <1>1, <1>2, <3>2, <4>1
      <3>. QED
        BY <3>1, <3>2
    <2>2. acked' = acked \/ acked' = acked \cup Calls(p)
      BY DEF Insert
    <2>3. \A c \in acked : Logged(c)' # {}
      BY <1>2 DEF LogInv, AckedIsLogged
    <2>. QED
      BY <2>1, <2>2, <2>3 DEF AckedIsLogged, Calls
  <1>5. ASSUME NEW c \in Call \ moved, NEW a \in Logged(c)', NEW b \in Logged(c)'
        PROVE  a = b
    <2>1. ASSUME NEW n \in Logged(c)', n \notin Logged(c)
          PROVE  \A m \in Logged(c)' : m = n
      <3>1. <<n, c>> \in p /\ c \notin sync[s].existing
        BY <1>3, <2>1
      <3>2. \A m \in Logged(c) : m = n
        BY <1>1, <3>1 DEF LogInv, Found
      <3>3. ASSUME NEW m \in Logged(c)', m \notin Logged(c) PROVE m = n
        <4>1. <<m, c>> \in p
          BY <1>3, <3>3
        <4>2. <<m, c>> = <<n, c>>
          BY <3>1, <4>1 DEF LogInv, Agree
        <4>. QED
          BY <4>2
      <3>. QED
        BY <3>2, <3>3
    <2>2. CASE a \in Logged(c) /\ b \in Logged(c)
      BY <2>2 DEF LogInv
    <2>. QED
      BY <2>1, <2>2
  <1>6. ASSUME NEW o \in Sync \ {s}, NEW r \in sync[o].pending, r[2] \notin moved,
               NEW a \in Logged(r[2])', a \notin Logged(r[2])
        PROVE  a = r[1]
    <2>1. <<a, r[2]>> \in p
      BY <1>3, <1>6
    <2>2. r \in Row
      BY DEF LogInv, CallsTypeOK, SyncState
    <2>3. r = <<a, r[2]>>
      BY <1>6, <2>1 DEF LogInv, Agree
    <2>. QED
      BY <2>2, <2>3 DEF Row
  <1>7. log' \subseteq Row /\ log \subseteq log'
    BY <1>1 DEF LogInv, CallsTypeOK
  <1>. QED
    BY <1>1, <1>4, <1>5, <1>6, <1>7, EndKeeps

LEMMA SyncFailsPreserves ==
  ASSUME LogInv, NEW s \in Sync, SyncFails(s)
  PROVE  LogInv'
  <1>1. /\ sync' = [sync EXCEPT ![s] = NoSync] /\ UNCHANGED <<match, moved, log, acked>>
    BY DEF SyncFails
  <1>2. \A c : Logged(c)' = Logged(c)
    BY <1>1 DEF Logged, Book
  <1>3. AckedIsLogged'
    BY <1>1, <1>2 DEF LogInv, AckedIsLogged
  <1>. QED
    BY <1>1, <1>2, <1>3, EndKeeps DEF LogInv, CallsTypeOK

(* One more table is read: what is logged there is found.                  *)
LEMMA CheckBookPreserves ==
  ASSUME LogInv, NEW s \in Sync, CheckBook(s)
  PROVE  LogInv'
  <1>. DEFINE n == sync[s].read + 1
  <1>. DEFINE final == n = Len(Books)
  <1>. DEFINE hits == {c \in Calls(sync[s].pending) : <<Books[n], c>> \in log}
  <1>. DEFINE read == IF final THEN 0 ELSE n
  <1>. DEFINE at == IF final THEN "insert" ELSE "check"
  <1>. DEFINE new == [sync[s] EXCEPT !.read = read, !.at = at, !.existing = @ \cup hits]
  <1>1. sync[s] \in SyncState /\ sync[s].at = "check" /\ sync[s].read < Len(Books)
        /\ sync[s].read \in Nat /\ n \in 1..Len(Books) /\ Books[n] \in Book
    BY BooksAreRead DEF CheckBook, LogInv, CallsTypeOK, SyncState, ReadsInOrder
  <1>2. UNCHANGED <<match, log, acked, moved>> /\ sync' = [sync EXCEPT ![s] = new]
    BY <1>1 DEF CheckBook, SyncState
  <1>3. hits \subseteq Call /\ \A c \in hits : Books[n] \in Logged(c)
    <2>. SUFFICES ASSUME NEW c \in hits PROVE c \in Call /\ Books[n] \in Logged(c)
      OBVIOUS
    <2>1. \E r \in sync[s].pending : r[2] = c
      BY DEF Calls
    <2>2. sync[s].pending \subseteq Row
      BY <1>1 DEF SyncState
    <2>3. <<Books[n], c>> \in log
      OBVIOUS
    <2>. QED
      BY <1>1, <2>1, <2>2, <2>3 DEF Row, Logged
  <1>4. /\ new \in SyncState /\ new.pending = sync[s].pending
        /\ new.existing = sync[s].existing \cup hits
        /\ new.at = at /\ new.read = read
    <2>1. sync[s].existing \cup hits \in SUBSET Call
      BY <1>1, <1>3 DEF SyncState
    <2>2. at \in {"check", "insert"} /\ read \in Nat
      BY <1>1
    <2>. HIDE DEF hits, at, read
    <2>. QED
      BY <1>1, <2>1, <2>2 DEF SyncState
  <1>. HIDE DEF new
  <1>5. /\ sync' \in [Sync -> SyncState] /\ sync'[s] = new
        /\ \A o \in Sync \ {s} : sync'[o] = sync[o]
    BY <1>2, <1>4 DEF LogInv, CallsTypeOK
  <1>6. \A c : Logged(c)' = Logged(c)
    BY <1>2 DEF Logged, Book
  <1>7. CallsTypeOK'
    BY <1>2, <1>5 DEF LogInv, CallsTypeOK, Row, Book
  <1>8. ASSUME NEW o \in Sync PROVE ReadsInOrder(o)' /\ ExistingIsLogged(o)'
    <2>1. CASE o = s
      <3>1. ReadsInOrder(s)'
        <4>1. new.at # "idle"
          BY <1>4
        <4>2. new.at = "check" => new.read = n /\ n # Len(Books)
          BY <1>4
        <4>3. n \in Nat /\ Len(Books) \in Nat /\ n <= Len(Books)
          BY <1>1, BooksAreRead
        <4>4. new.at = "check" => new.read < Len(Books)
          <5>. HIDE DEF n
          <5>. QED
            BY <4>2, <4>3
        <4>. QED
          BY <1>2, <1>5, <4>1, <4>4 DEF ReadsInOrder
      <3>2. ExistingIsLogged(s)'
        BY <1>3, <1>4, <1>5, <1>6 DEF LogInv, ExistingIsLogged
      <3>. QED
        BY <2>1, <3>1, <3>2
    <2>2. CASE o # s
      BY <1>5, <1>6, <2>2 DEF LogInv, ReadsInOrder, ExistingIsLogged
    <2>. QED
      BY <2>1, <2>2
  <1>9. ASSUME NEW o \in Sync PROVE sync'[o].pending = sync[o].pending
    BY <1>4, <1>5
  <1>10. ASSUME NEW o \in Sync, NEW p \in Sync PROVE Agree(o, p)'
    BY <1>2, <1>9 DEF LogInv, Agree
  <1>11. ASSUME NEW o \in Sync, NEW r \in sync[o].pending, r[2] \notin moved
         PROVE  Found(o, r[2], r[1])'
    <2>0. Found(o, r[2], r[1])
      BY <1>11 DEF LogInv
    <2>1. CASE o # s
      BY <1>5, <1>6, <2>0, <2>1 DEF Found, Unread, Book
    <2>2. CASE o = s
      <3>. SUFFICES ASSUME NEW a \in Logged(r[2]), a # r[1], r[2] \notin new.existing
                    PROVE  new.at = "check" /\ a \in Book \ {Books[i] : i \in 1..new.read}
        BY <1>5, <1>6, <2>2 DEF Found, Unread, Book
      <3>1. a \in Unread(s) /\ r[2] \notin hits
        BY <1>4, <2>0, <2>2 DEF Found
      <3>2. a # Books[n]
        BY <2>2, <3>1 DEF Logged, Calls
      <3>3. a \in Book /\ \A i \in 1..n : a # Books[i]
        BY <1>1, <3>1, <3>2 DEF Unread
      <3>4. ~final
        BY <3>3, BooksAreRead
      <3>. QED
        BY <1>4, <3>3, <3>4
    <2>. QED
      BY <2>1, <2>2
  <1>12. AckedIsLogged' /\ \A c \in Call \ moved : \A a, b \in Logged(c)' : a = b
    BY <1>2, <1>6 DEF LogInv, AckedIsLogged
  <1>. QED
    BY <1>2, <1>7, <1>8, <1>9, <1>10, <1>11, <1>12 DEF LogInv

(* A new batch has read no table yet, and agrees with the others except    *)
(* about the calls that have moved now.                                    *)
LEMMA ReceivePreserves ==
  ASSUME LogInv, NEW s \in Sync, NEW batch \in SUBSET Call, Receive(s, batch)
  PROVE  LogInv'
  <1>. DEFINE pending == {<<match[c], c>> : c \in {c \in batch : match[c] # NoBook}}
  <1>. DEFINE others == UNION {sync[o].pending : o \in Sync}
  <1>. DEFINE new == [NoSync EXCEPT !.at = "check", !.pending = pending]
  <1>1. /\ sync' = [sync EXCEPT ![s] = new] /\ UNCHANGED <<match, log, acked>>
        /\ moved' = moved \cup {c \in Calls(pending) :
                                  \E b \in Book \ {match[c]} : <<b, c>> \in others}
    BY DEF Receive
  <1>2. \A r \in pending : /\ r = <<match[r[2]], r[2]>>
                           /\ r[2] \in Call /\ match[r[2]] \in Book
    BY DEF LogInv, CallsTypeOK
  <1>3. pending \subseteq Row
    BY <1>2 DEF Row
  <1>4. new \in SyncState /\ new.pending = pending /\ new.existing = {} /\ new.at = "check"
        /\ new.read = 0
    <2>. HIDE DEF pending
    <2>. QED
      BY <1>3 DEF NoSync, SyncState
  <1>. HIDE DEF new
  <1>5. /\ sync' \in [Sync -> SyncState] /\ sync'[s] = new
        /\ \A o \in Sync \ {s} : sync'[o] = sync[o]
    BY <1>1, <1>4 DEF LogInv, CallsTypeOK
  <1>6. \A c : Logged(c)' = Logged(c)
    BY <1>1 DEF Logged, Book
  <1>7. CallsTypeOK'
    BY <1>1, <1>5 DEF LogInv, CallsTypeOK, Row, Book
  <1>8. ASSUME NEW o \in Sync PROVE ReadsInOrder(o)' /\ ExistingIsLogged(o)'
    BY <1>4, <1>5, <1>6, BooksAreRead DEF LogInv, ReadsInOrder, ExistingIsLogged
  <1>9. ASSUME NEW r \in pending, NEW o \in Sync, NEW q \in sync[o].pending, r[2] = q[2],
               r[2] \notin moved'
        PROVE  r = q
    <2>1. q \in Row
      BY DEF LogInv, CallsTypeOK, SyncState
    <2>2. q = <<q[1], r[2]>> /\ q[1] \in Book /\ q \in others
      BY <1>9, <2>1 DEF Row
    <2>3. r[2] \in Calls(pending)
      BY DEF Calls
    <2>4. q[1] = match[r[2]]
      BY <1>1, <1>9, <2>2, <2>3
    <2>. QED
      BY <1>2, <2>2, <2>4
  <1>10. ASSUME NEW o \in Sync, NEW p \in Sync PROVE Agree(o, p)'
    <2>1. CASE o = s /\ p = s
      BY <1>2, <1>4, <1>5, <2>1 DEF Agree
    <2>2. CASE o = s /\ p # s
      BY <1>4, <1>5, <1>9, <2>2 DEF Agree
    <2>3. CASE o # s /\ p = s
      BY <1>4, <1>5, <1>9, <2>3 DEF Agree
    <2>4. CASE o # s /\ p # s
      BY <1>1, <1>5, <2>4 DEF LogInv, Agree
    <2>. QED
      BY <2>1, <2>2, <2>3, <2>4
  <1>11. ASSUME NEW o \in Sync, NEW r \in sync'[o].pending, r[2] \notin moved'
         PROVE  Found(o, r[2], r[1])'
    <2>1. CASE o = s
      BY <1>4, <1>5, <2>1 DEF Found, Unread, Logged, Book
    <2>2. CASE o # s
      BY <1>1, <1>5, <1>6, <1>11, <2>2 DEF LogInv, Found, Unread, Book
    <2>. QED
      BY <2>1, <2>2
  <1>12. AckedIsLogged' /\ \A c \in Call \ moved' : \A a, b \in Logged(c)' : a = b
    BY <1>1, <1>6 DEF LogInv, AckedIsLogged
  <1>. QED
    BY <1>7, <1>8, <1>10, <1>11, <1>12 DEF LogInv

LEMMA LogStep ==
  ASSUME LogInv, [CallsNext]_callVars
  PROVE  LogInv'
  <1>1. ASSUME UNCHANGED <<log, acked, sync, moved>>, match' \in [Call -> Book \cup {NoBook}]
        PROVE  LogInv'
    <2>1. \A c : Logged(c)' = Logged(c)
      BY <1>1 DEF Logged, Book
    <2>2. CallsTypeOK'
      BY <1>1 DEF LogInv, CallsTypeOK, Row, Book
    <2>3. \A s \in Sync : ReadsInOrder(s)' /\ ExistingIsLogged(s)'
      BY <1>1, <2>1 DEF LogInv, ReadsInOrder, ExistingIsLogged
    <2>4. \A s, o \in Sync : Agree(s, o)'
      BY <1>1 DEF LogInv, Agree
    <2>5. \A s \in Sync : \A r \in sync[s].pending : r[2] \notin moved => Found(s, r[2], r[1])'
      BY <1>1, <2>1 DEF LogInv, Found, Unread, Book
    <2>6. AckedIsLogged' /\ \A c \in Call \ moved : \A a, b \in Logged(c)' : a = b
      BY <1>1, <2>1 DEF LogInv, AckedIsLogged
    <2>. QED
      BY <1>1, <2>2, <2>3, <2>4, <2>5, <2>6 DEF LogInv
  <1>2. ASSUME NEW c \in Call, NEW b \in Book \cup {NoBook}, Rematch(c, b) PROVE LogInv'
    BY <1>1, <1>2 DEF Rematch, LogInv, CallsTypeOK
  <1>3. ASSUME ReportNext \/ UNCHANGED callVars PROVE LogInv'
    BY <1>1, <1>3 DEF ReportNext, Report, Record, callVars, syncVars, LogInv, CallsTypeOK
  <1>. QED
    BY <1>2, <1>3, InsertPreserves, SyncFailsPreserves, CheckBookPreserves, ReceivePreserves
    DEF CallsNext, SyncNext

LEMMA LogInvariant == CallsSpec => []LogInv
  BY LogInitHolds, LogStep, PTL DEF CallsSpec

(* A call whose receipt has arrived is logged: syncCallLogs acknowledges   *)
(* what it inserted and what findExistingSourceIds found, and no row of    *)
(* the log is ever removed.  Over all its tables the log has a call once,  *)
(* if no two batches matched it differently while both were under way.     *)
THEOREM AckedAreLoggedOnce == CallsSpec => []AckedLoggedOnce
  <1>1. LogInv => AckedIsLogged
    BY DEF LogInv
  <1>2. LogInv => LoggedOnce
    <2>. SUFFICES ASSUME LogInv, NEW c \in Call \ moved PROVE Cardinality(Logged(c)) <= 1
      BY DEF LoggedOnce
    <2>1. CASE Logged(c) = {}
      BY <2>1, FS_EmptySet
    <2>2. ASSUME NEW b \in Logged(c) PROVE Cardinality(Logged(c)) <= 1
      <3>1. Logged(c) = {b}
        BY DEF LogInv
      <3>2. Cardinality({b}) = 1
        BY FS_Singleton
      <3>. QED
        BY <3>1, <3>2
    <2>. QED
      BY <2>1, <2>2
  <1>. QED
    BY <1>1, <1>2, LogInvariant, PTL DEF AckedLoggedOnce

-----------------------------------------------------------------------------

(* What the replies have counted, while no call is under way in two        *)
(* batches: then a call of a batch that is logged, in whatever table, is   *)
(* among those the pre-check found or in a table it has still to read.     *)
Apart == \A s, o \in Sync : s # o =>
           \A r \in sync[s].pending, q \in sync[o].pending : r[2] # q[2]

FoundByItself(s) ==
  \A r \in sync[s].pending : \A a \in Logged(r[2]) :
    \/ r[2] \in sync[s].existing
    \/ sync[s].at = "check" /\ a \in Unread(s)

Counted == shared = {} =>
  /\ counted = Cardinality(log)
  /\ Apart
  /\ \A s \in Sync : FoundByItself(s)

LEMMA RowsAreFinite == IsFiniteSet(Row)
  <1>1. Books \in Surjection(1..Len(Books), Book)
    <2>1. Books \in [1..Len(Books) -> Book]
      BY BooksAreRead
    <2>2. ASSUME NEW b \in Book PROVE \E n \in 1..Len(Books) : Books[n] = b
      BY BooksAreRead DEF Book
    <2>. QED
      BY <2>1, <2>2 DEF Surjection
  <1>2. IsFiniteSet(1..Len(Books))
    BY BooksAreRead, FS_Interval
  <1>3. IsFiniteSet(Book)
    BY <1>1, <1>2, FS_Surjection
  <1>. QED
    BY <1>3, CallAssumption, FS_Product DEF Row

LEMMA CountInitHolds == CallsInit => Counted
  BY FS_EmptySet DEF CallsInit, Counted, Apart, FoundByItself, NoSync

LEMMA InsertCounts ==
  ASSUME LogInv, Counted, NEW s \in Sync, Insert(s)
  PROVE  Counted'
  <1>. SUFFICES ASSUME shared = {} PROVE Counted'
    BY DEF Counted, Insert
  <1>1. /\ sync[s].at = "insert" /\ log' = log \cup NewRows(s)
        /\ counted' = counted + Cardinality(NewRows(s))
        /\ UNCHANGED <<match, moved>> /\ sync' = [sync EXCEPT ![s] = NoSync]
    BY DEF Insert
  <1>2. log \subseteq Row /\ sync[s].pending \subseteq Row /\ NewRows(s) \subseteq sync[s].pending
    BY DEF LogInv, CallsTypeOK, SyncState, NewRows
  <1>3. \A r \in Row : r = <<r[1], r[2]>> /\ r[1] \in Book
    BY DEF Row
  <1>4. NewRows(s) \cap log = {}
    <2>. SUFFICES ASSUME NEW r \in NewRows(s), r \in log PROVE FALSE
      OBVIOUS
    <2>1. r[1] \in Logged(r[2])
      BY <1>2, <1>3 DEF Logged
    <2>2. r \in sync[s].pending /\ r[2] \notin sync[s].existing
      BY DEF NewRows
    <2>. QED
      BY <1>1, <2>1, <2>2 DEF Counted, FoundByItself
  <1>5. counted' = Cardinality(log')
    <2>1. IsFiniteSet(log) /\ IsFiniteSet(NewRows(s))
      BY <1>2, RowsAreFinite, FS_Subset
    <2>2. Cardinality(log') = Cardinality(log) + Cardinality(NewRows(s)) - Cardinality({})
      BY <1>1, <1>4, <2>1, FS_Union
    <2>. QED
      BY <1>1, <2>1, <2>2, FS_EmptySet, FS_CardinalityType DEF Counted
  <1>6. /\ sync'[s] = NoSync /\ \A o \in Sync \ {s} : sync'[o] = sync[o]
        /\ NoSync.pending = {}
    BY <1>1 DEF LogInv, CallsTypeOK, NoSync
  <1>7. Apart'
    BY <1>6 DEF Counted, Apart
  <1>8. ASSUME NEW o \in Sync PROVE FoundByItself(o)'
    <2>1. CASE o = s
      BY <1>6, <2>1 DEF FoundByItself
    <2>2. ASSUME o # s, NEW r \in sync[o].pending PROVE Logged(r[2])' = Logged(r[2])
      <3>1. \A q \in NewRows(s) : q[2] # r[2]
        BY <1>2, <2>2 DEF Counted, Apart
      <3>2. \A b \in Book : <<b, r[2]>> \notin NewRows(s)
        BY <3>1
      <3>. QED
        BY <1>1, <3>2 DEF Logged, Book
    <2>3. CASE o # s
      BY <1>6, <2>2, <2>3 DEF Counted, FoundByItself, Unread
    <2>. QED
      BY <2>1, <2>3
  <1>. QED
    BY <1>5, <1>7, <1>8 DEF Counted

LEMMA SyncFailsCounts ==
  ASSUME LogInv, Counted, NEW s \in Sync, SyncFails(s)
  PROVE  Counted'
  <1>1. /\ sync' = [sync EXCEPT ![s] = NoSync]
        /\ UNCHANGED <<log, counted, shared>>
    BY DEF SyncFails
  <1>2. /\ sync'[s] = NoSync /\ \A o \in Sync \ {s} : sync'[o] = sync[o]
        /\ NoSync.pending = {}
    BY <1>1 DEF LogInv, CallsTypeOK, NoSync
  <1>3. \A c : Logged(c)' = Logged(c)
    BY <1>1 DEF Logged, Book
  <1>. QED
    BY <1>1, <1>2, <1>3 DEF Counted, Apart, FoundByItself, Unread, Book

LEMMA CheckBookCounts ==
  ASSUME LogInv, Counted, NEW s \in Sync, CheckBook(s)
  PROVE  Counted'
  <1>. DEFINE n == sync[s].read + 1
  <1>. DEFINE hits == {c \in Calls(sync[s].pending) : <<Books[n], c>> \in log}
  <1>1. /\ UNCHANGED <<log, counted, shared>> /\ sync[s].at = "check" /\ sync[s] \in SyncState
        /\ n \in 1..Len(Books) /\ sync[s].read \in Nat /\ n = sync[s].read + 1
    BY BooksAreRead DEF CheckBook, LogInv, CallsTypeOK, SyncState, ReadsInOrder
  <1>2. /\ \A o \in Sync \ {s} : sync'[o] = sync[o]
        /\ sync'[s].pending = sync[s].pending /\ sync'[s].existing = sync[s].existing \cup hits
        /\ n # Len(Books) => sync'[s].at = "check" /\ sync'[s].read = n
    <2>. HIDE DEF hits
    <2>1. sync' = [sync EXCEPT ![s].read = IF n = Len(Books) THEN 0 ELSE n,
                               ![s].at = IF n = Len(Books) THEN "insert" ELSE "check",
                               ![s].existing = @ \cup hits]
      BY DEF CheckBook, hits
    <2>. QED
      BY <1>1, <2>1 DEF LogInv, CallsTypeOK, SyncState
  <1>3. \A c : Logged(c)' = Logged(c)
    BY <1>1 DEF Logged, Book
  <1>4. \A o \in Sync : sync'[o].pending = sync[o].pending
    BY <1>2
  <1>5. Apart => Apart'
    BY <1>4 DEF Apart
  <1>6. ASSUME NEW o \in Sync, FoundByItself(o) PROVE FoundByItself(o)'
    <2>1. CASE o # s
      BY <1>2, <1>3, <1>6, <2>1 DEF FoundByItself, Unread, Book
    <2>2. CASE o = s
      <3>. SUFFICES ASSUME NEW r \in sync[s].pending, NEW a \in Logged(r[2]),
                           r[2] \notin sync'[s].existing
                    PROVE  sync'[s].at = "check" /\ a \in Book \ {Books[i] : i \in 1..sync'[s].read}
        BY <1>2, <1>3, <2>2 DEF FoundByItself, Unread, Book
      <3>1. a \in Unread(s) /\ r[2] \notin hits
        BY <1>2, <1>6, <2>2 DEF FoundByItself
      <3>2. a # Books[n]
        BY <3>1 DEF Logged, Calls
      <3>3. a \in Book /\ \A i \in 1..n : a # Books[i]
        BY <1>1, <3>1, <3>2 DEF Unread
      <3>4. n # Len(Books)
        BY <3>3, BooksAreRead
      <3>. QED
        BY <1>2, <3>3, <3>4
    <2>. QED
      BY <2>1, <2>2
  <1>. QED
    BY <1>1, <1>5, <1>6 DEF Counted

LEMMA ReceiveCounts ==
  ASSUME LogInv, Counted, NEW s \in Sync, NEW batch \in SUBSET Call, Receive(s, batch)
  PROVE  Counted'
  <1>. SUFFICES ASSUME shared' = {} PROVE Counted'
    BY DEF Counted
  <1>. DEFINE pending == {<<match[c], c>> : c \in {c \in batch : match[c] # NoBook}}
  <1>. DEFINE others == UNION {sync[o].pending : o \in Sync}
  <1>. DEFINE new == [NoSync EXCEPT !.at = "check", !.pending = pending]
  <1>1. /\ sync' = [sync EXCEPT ![s] = new] /\ UNCHANGED <<log, counted>>
        /\ shared' = shared \cup (Calls(pending) \cap Calls(others))
    BY DEF Receive
  <1>2. shared = {} /\ Calls(pending) \cap Calls(others) = {}
    BY <1>1
  <1>3. \A o \in Sync : \A r \in pending, q \in sync[o].pending : r[2] # q[2]
    BY <1>2 DEF Calls
  <1>. HIDE DEF pending
  <1>4. new.pending = pending /\ new.existing = {} /\ new.at = "check" /\ new.read = 0
    BY DEF NoSync
  <1>. HIDE DEF new
  <1>5. sync'[s] = new /\ \A o \in Sync \ {s} : sync'[o] = sync[o]
    BY <1>1 DEF LogInv, CallsTypeOK
  <1>6. \A c : Logged(c)' = Logged(c)
    BY <1>1 DEF Logged, Book
  <1>7. Apart'
    BY <1>2, <1>3, <1>4, <1>5 DEF Counted, Apart
  <1>8. \A o \in Sync : FoundByItself(o)'
    BY <1>2, <1>4, <1>5, <1>6 DEF Counted, FoundByItself, Unread, Logged, Book
  <1>. QED
    BY <1>1, <1>2, <1>7, <1>8 DEF Counted

LEMMA RepliesStep ==
  ASSUME LogInv, Counted, [CallsNext]_callVars
  PROVE  Counted'
  <1>1. ASSUME UNCHANGED <<log, sync, counted, shared>> PROVE Counted'
    <2>1. \A c : Logged(c)' = Logged(c)
      BY <1>1 DEF Logged, Book
    <2>. QED
      BY <1>1, <2>1 DEF Counted, Apart, FoundByItself, Unread, Book
  <1>2. ASSUME NEW c \in Call, NEW b \in Book \cup {NoBook}, Rematch(c, b) PROVE Counted'
    BY <1>1, <1>2 DEF Rematch
  <1>3. ASSUME ReportNext \/ UNCHANGED callVars PROVE Counted'
    BY <1>1, <1>3 DEF ReportNext, Report, Record, callVars, syncVars
  <1>. QED
    BY <1>2, <1>3, InsertCounts, SyncFailsCounts, CheckBookCounts, ReceiveCounts
    DEF CallsNext, SyncNext

(* As long as no call is under way in two batches, the replies to them     *)
(* count each row of the log once (insertCallLogs): a batch inserts only   *)
(* what the pre-check found in no table, and nobody else has logged since. *)
THEOREM RepliesCountTheLog == CallsSpec => []CountsWhatItLogs
  <1>1. Counted => CountsWhatItLogs
    BY DEF Counted, CountsWhatItLogs
  <1>. QED
    BY <1>1, LogInvariant, CountInitHolds, RepliesStep, PTL DEF CallsSpec

-----------------------------------------------------------------------------

(* Whatever order a phone's reports are written in, one shown as healthy   *)
(* has succeeded with the latest sync its row knows of.                    *)
THEOREM HealthyPhonesSynced == CallsSpec => []HealthyMeansSynced
  <1>. DEFINE Succeeded == report.result = "success" => report.attempt = report.success
  <1>1. CallsInit => Succeeded
    BY DEF CallsInit, NoReport
  <1>2. Succeeded /\ [CallsNext]_callVars => Succeeded'
    <2>1. ASSUME Succeeded, NEW r, Record(r) PROVE Succeeded'
      BY <2>1 DEF Record, Recorded
    <2>2. ASSUME Succeeded, UNCHANGED report PROVE Succeeded'
      BY <2>2
    <2>. QED
      BY <2>1, <2>2 DEF CallsNext, SyncNext, ReportNext, Report, callVars, reportVars, Rematch,
                        Receive, CheckBook, Insert, SyncFails
  <1>3. Succeeded => HealthyMeansSynced
    BY DEF HealthyMeansSynced, Health
  <1>. QED
    BY <1>1, <1>2, <1>3, PTL DEF CallsSpec

-----------------------------------------------------------------------------

(* The accounts of staff.                                                  *)
EditUnderWay ==
  [at : {"save", "write", "clear", "grant", "revoke"}, copy : Account,
   dirty : SUBSET AccountColumn, edit : AccountEdit, alone : BOOLEAN, was : Account,
   had : SUBSET Key]

AccountsTypeOK ==
  /\ account \in Account
  /\ grants \subseteq Key
  /\ edit \in [Admin -> {NoEdit} \cup EditUnderWay]
  /\ \A a \in Editing : edit[a].at \in {"clear", "grant"} => edit[a].edit.keys # Same

(* How far an edit has come that no other has overlapped.                  *)
Progress(a) ==
  LET e == edit[a] IN
  /\ e.at \in {"save", "write"} => account = e.was /\ grants = e.had
  /\ e.at = "write" => e.dirty = {c \in AccountColumn : e.copy[c] # account[c]}
  /\ e.at \in {"clear", "grant", "revoke"} => account = e.copy
  /\ e.at = "clear" => grants = e.had
  /\ e.at = "grant" => grants = {}
  /\ e.at = "revoke" => grants = Given(e.edit.keys, e.had)

EditsInv ==
  /\ AccountsTypeOK
  /\ \A a \in Editing : edit[a].alone => Editing = {a} /\ Progress(a)
  /\ last.alone => Editing = {}
  /\ EditsTakeEffect

LEMMA UnderWayTyped ==
  ASSUME AccountsTypeOK, NEW a \in Editing
  PROVE  a \in Admin /\ edit[a] \in EditUnderWay
  BY DEF AccountsTypeOK, Editing, NoEdit

LEMMA NewAccountTyped == NewAccount \in Account
  BY DEF NewAccount, Account

LEMMA AccountBuilt ==
  ASSUME NEW r \in {"Admin", "Staff"}, NEW d \in BOOLEAN, NEW a \in BOOLEAN, NEW p \in 0..1
  PROVE  [role |-> r, department |-> d, active |-> a, password |-> p] \in Account
  BY DEF Account

(* save's UPDATE: what the copy changed, and the rest as it is.            *)
LEMMA MergeTyped ==
  ASSUME NEW x \in Account, NEW y \in Account, NEW D \in SUBSET AccountColumn
  PROVE  [c \in AccountColumn |-> IF c \in D THEN x[c] ELSE y[c]] \in Account
  <1>. DEFINE z == [c \in AccountColumn |-> IF c \in D THEN x[c] ELSE y[c]]
  <1>1. /\ z.role \in {"Admin", "Staff"} /\ z.department \in BOOLEAN /\ z.active \in BOOLEAN
        /\ z.password \in 0..1
    BY DEF Account, AccountColumn
  <1>2. z = [role |-> z.role, department |-> z.department, active |-> z.active,
             password |-> z.password]
    BY DEF AccountColumn
  <1>3. z \in Account
    <2>. HIDE DEF z
    <2>1. [role |-> z.role, department |-> z.department, active |-> z.active,
           password |-> z.password] \in Account
      BY <1>1, AccountBuilt
    <2>. QED
      BY <1>2, <2>1
  <1>. QED
    BY <1>3

LEMMA MergeOfAll ==
  ASSUME NEW x \in Account, NEW y
  PROVE  [c \in AccountColumn |->
            IF c \in {d \in AccountColumn : x[d] # y[d]} THEN x[c] ELSE y[c]] = x
  <1>1. x = [c \in AccountColumn |-> x[c]]
    BY DEF Account, AccountColumn
  <1>. QED
    BY <1>1

LEMMA EditedTyped ==
  ASSUME NEW row \in Account, NEW e \in AccountEdit
  PROVE  Edited(row, e) \in Account
  <1>1. /\ Given(e.role, row.role) \in {"Admin", "Staff"}
        /\ Given(e.active, row.active) \in BOOLEAN
        /\ (IF e.password THEN 1 - row.password ELSE row.password) \in 0..1
    BY DEF Account, AccountEdit, Given
  <1>2. DepartmentFor(Given(e.role, row.role), Given(e.department, row.department)) \in BOOLEAN
    BY DEF DepartmentFor
  <1>. QED
    BY <1>1, <1>2 DEF Edited, Account

LEMMA AccountsInitHolds == AccountsInit => EditsInv
  <1>. SUFFICES ASSUME AccountsInit PROVE EditsInv
    OBVIOUS
  <1>1. Editing = {}
    BY DEF AccountsInit, Editing, NoEdit
  <1>2. ~last.alone
    BY DEF AccountsInit, NoWord
  <1>. QED
    BY <1>1, <1>2, NewAccountTyped DEF AccountsInit, EditsInv, AccountsTypeOK, EditsTakeEffect

-----------------------------------------------------------------------------

LEMMA OpenPreserves ==
  ASSUME EditsInv, NEW a \in Admin, NEW copy \in Account, NEW e \in AccountEdit, Open(a, copy, e)
  PROVE  EditsInv'
  <1>. DEFINE begun == [at |-> "save", copy |-> copy, dirty |-> {}, edit |-> e,
                        alone |-> TRUE, was |-> account, had |-> grants]
  <1>1. begun \in EditUnderWay
    BY DEF EditsInv, AccountsTypeOK, EditUnderWay
  <1>2. /\ begun.at = "save" /\ begun.was = account /\ begun.had = grants
    OBVIOUS
  <1>3. /\ edit[a].at = "idle" /\ UNCHANGED <<account, grants>> /\ last' = NoWord
        /\ edit' = [b \in Admin |->
             IF b = a THEN IF Editing = {} THEN begun ELSE Accompanied(begun)
             ELSE IF b \in Editing THEN Accompanied(edit[b])
             ELSE edit[b]]
    BY DEF Open
  <1>. HIDE DEF begun
  <1>4. ASSUME NEW x \in EditUnderWay
        PROVE  /\ Accompanied(x) \in EditUnderWay
               /\ Accompanied(x).alone = FALSE
    BY NewAccountTyped DEF Accompanied, EditUnderWay
  <1>5. edit' \in [Admin -> {NoEdit} \cup EditUnderWay]
    BY <1>1, <1>3, <1>4, UnderWayTyped DEF EditsInv, AccountsTypeOK
  <1>6. ~last'.alone
    BY <1>3 DEF NoWord
  <1>8. AccountsTypeOK'
    <2>1. ASSUME NEW b \in Editing', edit'[b].at \in {"clear", "grant"}
          PROVE  edit'[b].edit.keys # Same
      <3>0. b \in Admin /\ edit'[b].at # "idle" /\ edit'[b].at # "save"
        BY <2>1 DEF Editing
      <3>3. Accompanied(begun).at = "save"
        BY <1>1, <1>2 DEF Accompanied, EditUnderWay
      <3>4. b # a
        BY <1>2, <1>3, <3>0, <3>3
      <3>1. b \in Editing /\ edit'[b] = Accompanied(edit[b])
        BY <1>3, <3>0, <3>4 DEF Editing
      <3>2. edit'[b].at = edit[b].at /\ edit'[b].edit = edit[b].edit
        BY <3>1, UnderWayTyped DEF EditsInv, Accompanied, EditUnderWay
      <3>. QED
        BY <2>1, <3>1, <3>2 DEF EditsInv, AccountsTypeOK
    <2>. QED
      BY <1>3, <1>5, <2>1 DEF EditsInv, AccountsTypeOK
  <1>7. ASSUME NEW b \in Editing', edit'[b].alone PROVE Editing' = {b} /\ Progress(b)'
    <2>1. b \in Admin /\ Editing' = {d \in Admin : edit'[d].at # "idle"}
      BY DEF Editing
    <2>2. ~(b \in Editing /\ b # a)
      <3>. SUFFICES ASSUME b \in Editing, b # a PROVE FALSE
        OBVIOUS
      <3>1. edit'[b] = Accompanied(edit[b])
        BY <1>3, <2>1
      <3>. QED
        BY <1>4, <1>7, <3>1, UnderWayTyped DEF EditsInv
    <2>3. b = a
      BY <1>3, <1>7, <2>1, <2>2 DEF Editing
    <2>4. Editing = {}
      BY <1>1, <1>3, <1>4, <1>7, <2>1, <2>3
    <2>5. edit'[a] = begun /\ \A d \in Admin \ {a} : edit'[d].at = "idle"
      BY <1>3, <2>3, <2>4 DEF Editing
    <2>6. Progress(a)'
      BY <1>2, <1>3, <2>5 DEF Progress
    <2>. QED
      BY <2>1, <2>3, <2>5, <2>6, <1>7
  <1>. QED
    BY <1>6, <1>7, <1>8 DEF EditsInv, EditsTakeEffect

(* An edit goes on.                                                        *)
LEMMA GoesOn ==
  ASSUME EditsInv, NEW a \in Editing, NEW next \in EditUnderWay, next.alone = edit[a].alone,
         edit' = [edit EXCEPT ![a] = next], UNCHANGED last,
         next.at \in {"clear", "grant"} => next.edit.keys # Same,
         account' \in Account, grants' \subseteq Key, edit[a].alone => Progress(a)'
  PROVE  EditsInv'
  <1>1. /\ edit' \in [Admin -> {NoEdit} \cup EditUnderWay] /\ edit'[a] = next /\ a \in Admin
        /\ \A b \in Admin \ {a} : edit'[b] = edit[b]
    BY UnderWayTyped DEF EditsInv, AccountsTypeOK
  <1>2. next.at # "idle"
    BY DEF EditUnderWay
  <1>3. Editing' = Editing
    BY <1>1, <1>2 DEF Editing
  <1>4. ~last'.alone
    BY DEF EditsInv
  <1>5. ASSUME NEW b \in Editing', edit'[b].alone PROVE Editing' = {b} /\ Progress(b)'
    <2>1. CASE b = a
      BY <1>1, <1>3, <1>5, <2>1 DEF EditsInv
    <2>2. CASE b # a
      <3>1. b \in Editing /\ edit[b].alone
        BY <1>1, <1>3, <1>5, <2>2 DEF Editing
      <3>. QED
        BY <2>2, <3>1 DEF EditsInv
    <2>. QED
      BY <2>1, <2>2
  <1>6. AccountsTypeOK'
    BY <1>1, <1>3 DEF EditsInv, AccountsTypeOK
  <1>. QED
    BY <1>4, <1>5, <1>6 DEF EditsInv, EditsTakeEffect

(* An edit ends: done, or crashed.                                         *)
LEMMA EndsWell ==
  ASSUME EditsInv, NEW a \in Editing, NEW how, Ended(a, how),
         account' \in Account, grants' \subseteq Key,
         edit[a].alone =>
           /\ account' \in {edit[a].copy} \cup (IF how = "done" THEN {} ELSE {edit[a].was})
           /\ grants' \in {Given(edit[a].edit.keys, edit[a].had)}
                            \cup (IF how = "done" THEN {} ELSE {edit[a].had, {}})
  PROVE  EditsInv'
  <1>1. /\ edit' \in [Admin -> {NoEdit} \cup EditUnderWay] /\ edit'[a].at = "idle" /\ a \in Admin
        /\ \A b \in Admin \ {a} : edit'[b] = edit[b]
    BY UnderWayTyped DEF Ended, EditsInv, AccountsTypeOK, NoEdit
  <1>2. Editing' = Editing \ {a}
    BY <1>1 DEF Editing
  <1>3. ASSUME NEW b \in Editing' PROVE ~edit'[b].alone
    <2>1. b \in Editing /\ b # a /\ edit'[b] = edit[b]
      BY <1>1, <1>2 DEF Editing
    <2>. QED
      BY <2>1 DEF EditsInv
  <1>6. AccountsTypeOK'
    <2>1. ASSUME NEW b \in Editing' PROVE b \in Editing /\ edit'[b] = edit[b]
      BY <1>1, <1>2 DEF Editing
    <2>. QED
      BY <1>1, <2>1 DEF EditsInv, AccountsTypeOK
  <1>4. CASE edit[a].alone
    <2>1. Editing' = {}
      BY <1>2, <1>4 DEF EditsInv
    <2>2. /\ last'.ended = how /\ last'.was = edit[a].was /\ last'.now = edit[a].copy
          /\ last'.had = edit[a].had /\ last'.gave = Given(edit[a].edit.keys, edit[a].had)
      BY <1>4 DEF Ended
    <2>3. EditsTakeEffect'
      BY <1>4, <2>2 DEF EditsTakeEffect
    <2>. QED
      BY <1>3, <1>6, <2>1, <2>3 DEF EditsInv
  <1>5. CASE ~edit[a].alone
    <2>1. ~last'.alone
      BY <1>5 DEF Ended, NoWord
    <2>. QED
      BY <1>3, <1>6, <2>1 DEF EditsInv, EditsTakeEffect
  <1>. QED
    BY <1>4, <1>5

(* What remains of an edit after a step of it is followed.                 *)
LEMMA Continues ==
  ASSUME EditsInv, NEW a \in Editing, NEW done \in {"saved", "cleared", "granted"},
         Continue(a, done), account' \in Account, grants' \subseteq Key,
         done = "cleared" => edit[a].edit.keys # Same,
         edit[a].alone =>
           /\ account' = edit[a].copy
           /\ done = "saved" => grants' = edit[a].had
           /\ done = "cleared" => grants' = {}
           /\ done = "granted" => grants' = Given(edit[a].edit.keys, edit[a].had)
  PROVE  EditsInv'
  <1>. DEFINE e == edit[a].edit
  <1>. DEFINE next == IF done = "saved" /\ e.keys # Same THEN "clear"
                      ELSE IF done = "cleared" /\ e.keys # {} THEN "grant"
                      ELSE IF e.password THEN "revoke" ELSE "end"
  <1>1. edit[a].alone /\ next \in {"revoke", "end"} =>
           grants' = Given(edit[a].edit.keys, edit[a].had)
    BY DEF Given
  <1>2. CASE next = "end"
    <2>1. Ended(a, "done")
      BY <1>2 DEF Continue
    <2>. HIDE DEF next
    <2>. QED
      BY <1>1, <1>2, <2>1, EndsWell
  <1>3. CASE next # "end"
    <2>. DEFINE new == [edit[a] EXCEPT !.at = next]
    <2>1. next \in {"clear", "grant", "revoke"}
      BY <1>3
    <2>2. /\ next = "clear" => done = "saved" /\ e.keys # Same
          /\ next = "grant" => done = "cleared"
      OBVIOUS
    <2>3. edit' = [edit EXCEPT ![a] = new] /\ UNCHANGED last
      BY <1>3 DEF Continue
    <2>. HIDE DEF next
    <2>4. /\ new \in EditUnderWay /\ new.at = next /\ new.copy = edit[a].copy
          /\ new.edit = edit[a].edit /\ new.had = edit[a].had /\ new.alone = edit[a].alone
      BY <2>1, UnderWayTyped DEF EditsInv, EditUnderWay
    <2>. HIDE DEF new
    <2>5. edit'[a] = new
      BY <2>3, UnderWayTyped DEF EditsInv, AccountsTypeOK
    <2>6. edit[a].alone => Progress(a)'
      BY <1>1, <2>1, <2>2, <2>4, <2>5 DEF Progress
    <2>7. new.at \in {"clear", "grant"} => new.edit.keys # Same
      BY <2>2, <2>4
    <2>. QED
      BY <2>3, <2>4, <2>6, <2>7, GoesOn
  <1>. QED
    BY <1>2, <1>3

LEMMA SaveStep ==
  ASSUME EditsInv, NEW a \in Admin, Save(a)
  PROVE  EditsInv'
  <1>. DEFINE dirty == {c \in AccountColumn : edit[a].copy[c] # account[c]}
  <1>. DEFINE new == [edit[a] EXCEPT !.at = "write", !.dirty = dirty]
  <1>1. a \in Editing /\ edit[a].at = "save"
    BY DEF Save, Editing
  <1>2. /\ edit' = [edit EXCEPT ![a] = new] /\ UNCHANGED <<account, grants, last>>
    BY DEF Save
  <1>. HIDE DEF dirty
  <1>3. dirty \subseteq AccountColumn
    BY DEF dirty
  <1>4. /\ new \in EditUnderWay /\ new.at = "write" /\ new.dirty = dirty
        /\ new.copy = edit[a].copy /\ new.was = edit[a].was /\ new.had = edit[a].had
        /\ new.alone = edit[a].alone
    BY <1>1, <1>3, UnderWayTyped DEF EditsInv, EditUnderWay
  <1>. HIDE DEF new
  <1>5. edit'[a] = new
    BY <1>2 DEF EditsInv, AccountsTypeOK
  <1>6. edit[a].alone => Progress(a)'
    BY <1>1, <1>2, <1>4, <1>5 DEF EditsInv, Progress, dirty
  <1>. QED
    BY <1>1, <1>2, <1>4, <1>6, GoesOn DEF EditsInv, AccountsTypeOK

LEMMA WriteStep ==
  ASSUME EditsInv, NEW a \in Admin, Write(a)
  PROVE  EditsInv'
  <1>1. a \in Editing /\ edit[a].at = "write" /\ UNCHANGED grants /\ Continue(a, "saved")
    BY DEF Write, Editing
  <1>2. edit[a].copy \in Account /\ edit[a].dirty \subseteq AccountColumn /\ account \in Account
    BY <1>1, UnderWayTyped DEF EditsInv, EditUnderWay, AccountsTypeOK
  <1>3. account' = [c \in AccountColumn |->
                      IF c \in edit[a].dirty THEN edit[a].copy[c] ELSE account[c]]
    BY DEF Write
  <1>4. account' \in Account
    BY <1>2, <1>3, MergeTyped
  <1>5. edit[a].alone =>
          /\ edit[a].dirty = {c \in AccountColumn : edit[a].copy[c] # account[c]}
          /\ grants = edit[a].had
    BY <1>1 DEF EditsInv, Progress
  <1>6. edit[a].alone => account' = edit[a].copy
    BY <1>2, <1>3, <1>5, MergeOfAll
  <1>. QED
    BY <1>1, <1>4, <1>5, <1>6, Continues DEF EditsInv, AccountsTypeOK

LEMMA GrantsStep ==
  ASSUME EditsInv, NEW a \in Admin, ClearGrants(a) \/ Grant(a)
  PROVE  EditsInv'
  <1>1. a \in Editing /\ UNCHANGED account
    BY DEF ClearGrants, Grant, Editing
  <1>2. edit[a].edit \in AccountEdit /\ edit[a].edit.keys # Same
    BY <1>1, UnderWayTyped DEF EditsInv, AccountsTypeOK, EditUnderWay, ClearGrants, Grant
  <1>3. CASE ClearGrants(a)
    <2>1. /\ edit[a].at = "clear" /\ grants' = {} /\ Continue(a, "cleared")
      BY <1>3 DEF ClearGrants
    <2>2. edit[a].alone => account = edit[a].copy
      BY <1>1, <2>1 DEF EditsInv, Progress
    <2>. QED
      BY <1>1, <1>2, <2>1, <2>2, Continues DEF EditsInv, AccountsTypeOK
  <1>4. CASE Grant(a)
    <2>1. /\ edit[a].at = "grant" /\ grants' = grants \cup edit[a].edit.keys
          /\ Continue(a, "granted")
      BY <1>4 DEF Grant
    <2>2. edit[a].alone => account = edit[a].copy /\ grants = {}
      BY <1>1, <2>1 DEF EditsInv, Progress
    <2>. QED
      BY <1>1, <1>2, <2>1, <2>2, Continues DEF EditsInv, AccountsTypeOK, AccountEdit, Given
  <1>. QED
    BY <1>3, <1>4

LEMMA LastSteps ==
  ASSUME EditsInv, NEW a \in Admin, RevokeDevices(a) \/ EditCrash(a)
  PROVE  EditsInv'
  <1>1. a \in Editing /\ UNCHANGED <<account, grants>>
    BY DEF RevokeDevices, EditCrash, Editing
  <1>2. edit[a].alone => Progress(a)
    BY <1>1 DEF EditsInv
  <1>3. CASE RevokeDevices(a)
    <2>1. edit[a].at = "revoke" /\ Ended(a, "done")
      BY <1>3 DEF RevokeDevices
    <2>. QED
      BY <1>1, <1>2, <2>1, EndsWell DEF EditsInv, AccountsTypeOK, Progress
  <1>4. CASE EditCrash(a)
    <2>1. edit[a].at \in {"save", "write", "clear", "grant", "revoke"} /\ Ended(a, "crashed")
      BY <1>1, <1>4, UnderWayTyped DEF EditCrash, EditsInv, EditUnderWay
    <2>2. edit[a].alone =>
            /\ account \in {edit[a].copy, edit[a].was}
            /\ grants \in {Given(edit[a].edit.keys, edit[a].had), edit[a].had, {}}
      BY <1>2, <2>1 DEF Progress
    <2>. QED
      BY <1>1, <2>1, <2>2, EndsWell DEF EditsInv, AccountsTypeOK
  <1>. QED
    BY <1>3, <1>4

LEMMA EditsStep ==
  ASSUME EditsInv, [AccountsNext]_accountVars
  PROVE  EditsInv'
  <1>1. ASSUME NEW a \in Admin, Disable(a) PROVE EditsInv'
    <2>. DEFINE copy == [account EXCEPT !.active = FALSE]
    <2>. DEFINE e == [role |-> Same, department |-> Same, active |-> FALSE, password |-> FALSE,
                      keys |-> Same]
    <2>1. copy \in Account
      BY DEF EditsInv, AccountsTypeOK, Account
    <2>2. e \in AccountEdit
      BY DEF AccountEdit
    <2>. QED
      BY <1>1, <2>1, <2>2, OpenPreserves DEF Disable
  <1>2. ASSUME NEW a \in Admin, NEW e \in Edit, Update(a, e) PROVE EditsInv'
    <2>1. e \in AccountEdit /\ Edited(account, e) \in Account
      BY EditAssumption, EditedTyped DEF EditsInv, AccountsTypeOK
    <2>. QED
      BY <1>2, <2>1, OpenPreserves DEF Update
  <1>3. CASE UNCHANGED accountVars
    BY <1>3 DEF accountVars, EditsInv, AccountsTypeOK, Editing, Progress, EditsTakeEffect
  <1>. QED
    BY <1>1, <1>2, <1>3, SaveStep, WriteStep, GrantsStep, LastSteps DEF AccountsNext

(* Whoever edits an account (update, delete, setUserPermissions): an edit  *)
(* that no other overlaps takes effect as a whole, however stale copies    *)
(* and half-written grants of earlier ones may be; one that crashes leaves *)
(* each part of the account as it was or as asked, the grants perhaps gone.*)
THEOREM EditsAreWhole == AccountsSpec => []EditsTakeEffect
  <1>1. EditsInv => EditsTakeEffect
    BY DEF EditsInv
  <1>. QED
    BY <1>1, AccountsInitHolds, EditsStep, PTL DEF AccountsSpec-----------------------------------------------------------------------------

(* The tasks of a month.                                                   *)
TaskState ==
  {Idle} \cup [at : {"count", "read", "upsert"}] \cup [at : {"remove"}, receipt : Receipt]
         \cup [at : {"save"}, week : Week, count : Nat \ {0}]

Working == {c \in Clerk : ~At(c, "idle")}

TasksTypeOK ==
  /\ week \in Week
  /\ receipts \subseteq used /\ IsFiniteSet(receipts)
  /\ uploaded \in [Week -> Nat]
  /\ logged \in Nat
  /\ achieved \in [Week -> Nat]
  /\ task \in [Clerk -> TaskState]
  /\ IsFiniteSet(Working)

(* How many requests have come so far.                                     *)
Size(where) == Cardinality({c \in Clerk : task[c].at \in where})

(* No count is of a week to come.                                          *)
WeeksToCome ==
  /\ \A w \in Week : w > week => uploaded[w] = 0
  /\ \A c \in Clerk : At(c, "save") => task[c].week <= week

(* Until a deletion is overtaken, what one has read still is so.           *)
ReadsHold ==
  /\ \A c \in Clerk : At(c, "save") => uploaded[task[c].week] = task[c].count
  /\ \A c \in Clerk : At(c, "remove") =>
       /\ task[c].receipt \in receipts
       /\ \A o \in Clerk \ {c} : At(o, "remove") => task[o].receipt # task[c].receipt

(* What is counted, or about to be, and what is there, or about to be      *)
(* discounted.  Within the first week they are the same.                   *)
Balanced ==
  /\ Total(uploaded) + Size({"count"}) >= Cardinality(receipts) + Size({"read", "save"})
  /\ week = 1 =>
       Total(uploaded) + Size({"count"}) = Cardinality(receipts) + Size({"read", "save"})

LoggedOnes ==
  /\ Total(achieved) + Size({"upsert"}) <= logged
  /\ ~cut => Total(achieved) + Size({"upsert"}) = logged

TasksInv ==
  /\ TasksTypeOK
  /\ WeeksToCome
  /\ ~raced /\ ~cut => ReadsHold /\ Balanced
  /\ LoggedOnes

LEMMA IdleTyped == Idle \in TaskState /\ Idle.at = "idle"
  BY DEF Idle, TaskState

LEMMA TotalAdds ==
  ASSUME NEW f \in [Week -> Nat], NEW g \in [Week -> Nat], NEW w \in Week,
         \A v \in Week \ {w} : g[v] = f[v]
  PROVE  /\ Total(f) \in Nat /\ f[w] \in Nat
         /\ Total(g) = Total(f) - f[w] + g[w]
  <1>1. w = 1 \/ w = 2 \/ w = 3 \/ w = 4
    BY DEF Week
  <1>2. /\ f[1] \in Nat /\ f[2] \in Nat /\ f[3] \in Nat /\ f[4] \in Nat
        /\ g[1] \in Nat /\ g[2] \in Nat /\ g[3] \in Nat /\ g[4] \in Nat
    BY DEF Week
  <1>3. \A v \in {1, 2, 3, 4} : v # w => g[v] = f[v]
    BY DEF Week
  <1>. QED
    BY <1>1, <1>2, <1>3 DEF Total

(* A request that goes on, and the number of those that have come so far.  *)
LEMMA SizeMoves ==
  ASSUME TasksTypeOK, NEW c \in Clerk, NEW next, Goes(c, next), NEW where, "idle" \notin where
  PROVE  /\ Size(where) \in Nat /\ Size(where)' \in Nat
         /\ task[c].at \in where /\ next.at \notin where => Size(where)' = Size(where) - 1
         /\ task[c].at \notin where /\ next.at \in where => Size(where)' = Size(where) + 1
         /\ (task[c].at \in where <=> next.at \in where) => Size(where)' = Size(where)
  <1>. DEFINE S == {d \in Clerk : task[d].at \in where}
  <1>. DEFINE T == {d \in Clerk : task'[d].at \in where}
  <1>1. task'[c] = next /\ \A d \in Clerk \ {c} : task'[d] = task[d]
    BY DEF Goes, TasksTypeOK
  <1>2. IsFiniteSet(S)
    <2>1. S \subseteq Working
      BY DEF Working, At
    <2>. QED
      BY <2>1, FS_Subset DEF TasksTypeOK
  <1>3. /\ task[c].at \in where <=> c \in S
        /\ next.at \in where <=> c \in T
    BY <1>1
  <1>4. T = IF c \in T THEN S \cup {c} ELSE S \ {c}
    BY <1>1
  <1>5. Size(where) = Cardinality(S) /\ Size(where)' = Cardinality(T)
    BY DEF Size
  <1>. HIDE DEF S, T
  <1>6. /\ IsFiniteSet(S \cup {c}) /\ IsFiniteSet(S \ {c})
        /\ c \notin S => Cardinality(S \cup {c}) = Cardinality(S) + 1
        /\ c \in S => Cardinality(S \ {c}) = Cardinality(S) - 1
        /\ c \in S => S \cup {c} = S
        /\ c \notin S => S \ {c} = S
    BY <1>2, FS_AddElement, FS_RemoveElement
  <1>7. Cardinality(S) \in Nat /\ Cardinality(T) \in Nat
    BY <1>2, <1>4, <1>6, FS_CardinalityType
  <1>. QED
    BY <1>3, <1>4, <1>5, <1>6, <1>7

LEMMA TasksGo ==
  ASSUME TasksTypeOK, NEW c \in Clerk, NEW next \in TaskState, Goes(c, next)
  PROVE  /\ task' \in [Clerk -> TaskState] /\ task'[c] = next
         /\ \A d \in Clerk \ {c} : task'[d] = task[d]
         /\ IsFiniteSet(Working')
  <1>1. /\ task' \in [Clerk -> TaskState] /\ task'[c] = next
        /\ \A d \in Clerk \ {c} : task'[d] = task[d]
    BY DEF Goes, TasksTypeOK
  <1>2. Working' \subseteq Working \cup {c}
    BY <1>1 DEF Working, At
  <1>3. IsFiniteSet(Working \cup {c})
    BY FS_AddElement DEF TasksTypeOK
  <1>. QED
    BY <1>1, <1>2, <1>3, FS_Subset

LEMMA TasksInitHolds == TasksInit => TasksInv
  <1>. SUFFICES ASSUME TasksInit PROVE TasksInv
    OBVIOUS
  <1>1. \A c \in Clerk : task[c] = Idle /\ At(c, "idle")
    BY IdleTyped DEF TasksInit, At
  <1>2. Working = {}
    BY <1>1 DEF Working
  <1>3. TasksTypeOK
    BY <1>2, IdleTyped, FS_EmptySet DEF TasksInit, TasksTypeOK, Week
  <1>4. Total(uploaded) = 0 /\ Total(achieved) = 0
    BY DEF TasksInit, Total, Week
  <1>5. \A where : "idle" \notin where => Size(where) = 0
    <2>. SUFFICES ASSUME NEW where, "idle" \notin where PROVE Size(where) = 0
      OBVIOUS
    <2>1. {c \in Clerk : task[c].at \in where} = {}
      BY <1>1 DEF At
    <2>. QED
      BY <2>1, FS_EmptySet DEF Size
  <1>6. WeeksToCome /\ ReadsHold
    BY <1>1 DEF TasksInit, WeeksToCome, ReadsHold, At
  <1>7. Size({"count"}) = 0 /\ Size({"read", "save"}) = 0 /\ Size({"upsert"}) = 0
    BY <1>5
  <1>8. Balanced /\ LoggedOnes
    BY <1>4, <1>7, FS_EmptySet DEF TasksInit, Balanced, LoggedOnes
  <1>. QED
    BY <1>3, <1>6, <1>8 DEF TasksInv

-----------------------------------------------------------------------------

(* What a step does to the numbers of requests under way.                  *)
Kept(where) == Size(where)' = Size(where)

LEMMA WeeksKept ==
  ASSUME WeeksToCome, NEW c \in Clerk, UNCHANGED week,
         \A d \in Clerk \ {c} : task'[d] = task[d],
         task'[c].at = "save" => task'[c].week <= week,
         \A w \in Week : w > week => uploaded'[w] = uploaded[w]
  PROVE  WeeksToCome'
  BY DEF WeeksToCome, At

LEMMA ReadsKept ==
  ASSUME ReadsHold, NEW c \in Clerk, \A d \in Clerk \ {c} : task'[d] = task[d],
         task'[c].at \notin {"save", "remove"},
         \A d \in Clerk \ {c} :
           /\ task[d].at = "save" => uploaded'[task[d].week] = uploaded[task[d].week]
           /\ task[d].at = "remove" => task[d].receipt \in receipts'
  PROVE  ReadsHold'
  BY DEF ReadsHold, At

LEMMA UploadStep ==
  ASSUME TasksInv, NEW c \in Clerk, NEW r \in Receipt, UploadReceipt(c, r)
  PROVE  TasksInv'
  <1>. DEFINE next == [at |-> "count"]
  <1>1. /\ task[c].at = "idle" /\ Goes(c, next) /\ receipts' = receipts \cup {r}
        /\ r \notin used /\ used' = used \cup {r}
        /\ UNCHANGED <<week, uploaded, logged, achieved, raced, cut>>
    BY DEF UploadReceipt, At
  <1>2. TasksTypeOK /\ next \in TaskState /\ next.at = "count"
    BY DEF TasksInv, TaskState
  <1>. HIDE DEF next
  <1>3. /\ task' \in [Clerk -> TaskState] /\ task'[c] = next
        /\ \A d \in Clerk \ {c} : task'[d] = task[d]
        /\ IsFiniteSet(Working')
    BY <1>1, <1>2, TasksGo
  <1>4. /\ Size({"count"})' = Size({"count"}) + 1 /\ Size({"count"}) \in Nat
        /\ Kept({"read", "save"}) /\ Size({"read", "save"}) \in Nat
        /\ Kept({"upsert"})
    BY <1>1, <1>2, SizeMoves DEF Kept
  <1>5. /\ IsFiniteSet(receipts') /\ Cardinality(receipts) \in Nat
        /\ Cardinality(receipts') = Cardinality(receipts) + 1
    <2>1. r \notin receipts /\ IsFiniteSet(receipts)
      BY <1>1, <1>2 DEF TasksTypeOK
    <2>. QED
      BY <1>1, <2>1, FS_AddElement, FS_CardinalityType
  <1>6. TasksTypeOK'
    BY <1>1, <1>2, <1>3, <1>5 DEF TasksTypeOK
  <1>7. WeeksToCome'
    BY <1>1, <1>2, <1>3, WeeksKept DEF TasksInv
  <1>8. ReadsHold => ReadsHold'
    BY <1>1, <1>2, <1>3, ReadsKept DEF ReadsHold, At
  <1>9. Balanced => Balanced'
    <2>1. Total(uploaded)' = Total(uploaded) /\ Total(uploaded) \in Nat
      BY <1>1, <1>2, TotalAdds DEF TasksTypeOK, Total, Week
    <2>. QED
      BY <1>1, <1>4, <1>5, <2>1 DEF Balanced, Kept
  <1>10. LoggedOnes'
    BY <1>1, <1>4 DEF TasksInv, LoggedOnes, Kept, Total
  <1>. QED
    BY <1>1, <1>6, <1>7, <1>8, <1>9, <1>10 DEF TasksInv

(* Nobody who has read the week's count is about to save it.               *)
LEMMA CountStep ==
  ASSUME TasksInv, NEW c \in Clerk, CountReceipt(c)
  PROVE  TasksInv'
  <1>1. /\ task[c].at = "count" /\ Goes(c, Idle)
        /\ uploaded' = [uploaded EXCEPT ![week] = uploaded[week] + 1]
        /\ raced' = (raced \/ Overtaken(c))
        /\ UNCHANGED <<week, receipts, used, logged, achieved, cut>>
    BY DEF CountReceipt, At
  <1>2. TasksTypeOK /\ Idle \in TaskState /\ Idle.at = "idle" /\ week \in Week
        /\ uploaded \in [Week -> Nat] /\ uploaded[week] + 1 \in Nat
    BY IdleTyped DEF TasksInv, TasksTypeOK
  <1>3. /\ task' \in [Clerk -> TaskState] /\ task'[c] = Idle
        /\ \A d \in Clerk \ {c} : task'[d] = task[d]
        /\ IsFiniteSet(Working')
    BY <1>1, <1>2, TasksGo
  <1>4. /\ Size({"count"})' = Size({"count"}) - 1 /\ Size({"count"}) \in Nat
        /\ Kept({"read", "save"}) /\ Size({"read", "save"}) \in Nat
        /\ Kept({"upsert"})
    BY <1>1, <1>2, SizeMoves DEF Kept
  <1>5. /\ uploaded' \in [Week -> Nat] /\ Total(uploaded) \in Nat
        /\ Total(uploaded') = Total(uploaded) + 1
    <2>1. /\ uploaded' \in [Week -> Nat] /\ uploaded'[week] = uploaded[week] + 1
          /\ \A v \in Week \ {week} : uploaded'[v] = uploaded[v]
      BY <1>1, <1>2
    <2>2. /\ Total(uploaded) \in Nat /\ uploaded[week] \in Nat
          /\ Total(uploaded') = Total(uploaded) - uploaded[week] + uploaded'[week]
      BY <1>2, <2>1, TotalAdds
    <2>. QED
      BY <2>1, <2>2
  <1>6. TasksTypeOK'
    BY <1>1, <1>2, <1>3, <1>5 DEF TasksTypeOK
  <1>7. WeeksToCome'
    BY <1>1, <1>2, <1>3, WeeksKept DEF TasksInv, Week
  <1>8. ReadsHold /\ ~raced' => ReadsHold'
    <2>. SUFFICES ASSUME ReadsHold, ~raced' PROVE ReadsHold'
      OBVIOUS
    <2>1. \A d \in Clerk \ {c} :
             task[d].at = "save" => uploaded'[task[d].week] = uploaded[task[d].week]
      <3>. SUFFICES ASSUME NEW d \in Clerk \ {c}, task[d].at = "save"
                    PROVE  uploaded'[task[d].week] = uploaded[task[d].week]
        OBVIOUS
      <3>1. task[d].week # week
        BY <1>1 DEF Overtaken, At
      <3>2. task[d].week \in Week
        BY <1>2 DEF TasksTypeOK, TaskState, Idle
      <3>. QED
        BY <1>1, <1>2, <3>1, <3>2
    <2>. QED
      BY <1>1, <1>2, <1>3, <2>1, ReadsKept DEF ReadsHold, At
  <1>9. Balanced => Balanced'
    BY <1>1, <1>4, <1>5 DEF Balanced, Kept
  <1>10. LoggedOnes'
    BY <1>1, <1>4 DEF TasksInv, LoggedOnes, Kept, Total
  <1>. QED
    BY <1>1, <1>6, <1>7, <1>8, <1>9, <1>10 DEF TasksInv

LEMMA DeleteStep ==
  ASSUME TasksInv, NEW c \in Clerk, NEW r \in Receipt, DeleteReceipt(c, r)
  PROVE  TasksInv'
  <1>. DEFINE next == [at |-> "remove", receipt |-> r]
  <1>1. /\ task[c].at = "idle" /\ Goes(c, next) /\ r \in receipts
        /\ raced' = (raced \/ \E o \in Clerk : task[o].at = "remove" /\ task[o].receipt = r)
        /\ UNCHANGED <<week, receipts, used, uploaded, logged, achieved, cut>>
    BY DEF DeleteReceipt, At
  <1>2. TasksTypeOK /\ next \in TaskState /\ next.at = "remove" /\ next.receipt = r
    BY DEF TasksInv, TaskState
  <1>. HIDE DEF next
  <1>3. /\ task' \in [Clerk -> TaskState] /\ task'[c] = next
        /\ \A d \in Clerk \ {c} : task'[d] = task[d]
        /\ IsFiniteSet(Working')
    BY <1>1, <1>2, TasksGo
  <1>4. Kept({"count"}) /\ Kept({"read", "save"}) /\ Kept({"upsert"})
    BY <1>1, <1>2, SizeMoves DEF Kept
  <1>6. TasksTypeOK'
    BY <1>1, <1>2, <1>3 DEF TasksTypeOK
  <1>7. WeeksToCome'
    BY <1>1, <1>2, <1>3, WeeksKept DEF TasksInv
  <1>8. ReadsHold /\ ~raced' => ReadsHold'
    BY <1>1, <1>2, <1>3 DEF ReadsHold, At
  <1>9. Balanced => Balanced'
    BY <1>1, <1>4 DEF Balanced, Kept, Total
  <1>10. LoggedOnes'
    BY <1>1, <1>4 DEF TasksInv, LoggedOnes, Kept, Total
  <1>. QED
    BY <1>1, <1>6, <1>7, <1>8, <1>9, <1>10 DEF TasksInv

LEMMA RemoveStep ==
  ASSUME TasksInv, NEW c \in Clerk, RemoveReceipt(c)
  PROVE  TasksInv'
  <1>. DEFINE next == [at |-> "read"]
  <1>1. /\ task[c].at = "remove" /\ Goes(c, next) /\ receipts' = receipts \ {task[c].receipt}
        /\ UNCHANGED <<week, used, uploaded, logged, achieved, raced, cut>>
    BY DEF RemoveReceipt, At
  <1>2. TasksTypeOK /\ next \in TaskState /\ next.at = "read"
    BY DEF TasksInv, TaskState
  <1>. HIDE DEF next
  <1>3. /\ task' \in [Clerk -> TaskState] /\ task'[c] = next
        /\ \A d \in Clerk \ {c} : task'[d] = task[d]
        /\ IsFiniteSet(Working')
    BY <1>1, <1>2, TasksGo
  <1>4. /\ Kept({"count"}) /\ Size({"count"}) \in Nat /\ Kept({"upsert"})
        /\ Size({"read", "save"})' = Size({"read", "save"}) + 1 /\ Size({"read", "save"}) \in Nat
    BY <1>1, <1>2, SizeMoves DEF Kept
  <1>5. /\ IsFiniteSet(receipts') /\ Cardinality(receipts) \in Nat
        /\ ReadsHold => Cardinality(receipts') = Cardinality(receipts) - 1
    BY <1>1, <1>2, FS_RemoveElement, FS_CardinalityType DEF TasksTypeOK, ReadsHold, At
  <1>6. TasksTypeOK'
    BY <1>1, <1>2, <1>3, <1>5 DEF TasksTypeOK
  <1>7. WeeksToCome'
    BY <1>1, <1>2, <1>3, WeeksKept DEF TasksInv
  <1>8. ReadsHold => ReadsHold'
    <2>1. ReadsHold => \A d \in Clerk \ {c} : task[d].at = "remove" => task[d].receipt \in receipts'
      BY <1>1 DEF ReadsHold, At
    <2>. QED
      BY <1>1, <1>2, <1>3, <2>1, ReadsKept
  <1>9. ReadsHold /\ Balanced => Balanced'
    <2>1. Total(uploaded)' = Total(uploaded) /\ Total(uploaded) \in Nat
      BY <1>1, <1>2, TotalAdds DEF TasksTypeOK, Total, Week
    <2>. QED
      BY <1>1, <1>4, <1>5, <2>1 DEF Balanced, Kept
  <1>10. LoggedOnes'
    BY <1>1, <1>4 DEF TasksInv, LoggedOnes, Kept, Total
  <1>. QED
    BY <1>1, <1>6, <1>7, <1>8, <1>9, <1>10 DEF TasksInv
(* A deletion finds nothing to discount only if its receipt was of an      *)
(* earlier week, or is about to be counted.                                *)
LEMMA ReadStep ==
  ASSUME TasksInv, NEW c \in Clerk, ReadCount(c)
  PROVE  TasksInv'
  <1>. DEFINE next == IF uploaded[week] > 0
                        THEN [at |-> "save", week |-> week, count |-> uploaded[week]] ELSE Idle
  <1>1. /\ task[c].at = "read" /\ Goes(c, next)
        /\ raced' = (raced \/ (uploaded[week] = 0 /\ \E o \in Clerk : task[o].at = "count"))
        /\ UNCHANGED <<week, receipts, used, uploaded, logged, achieved, cut>>
    BY DEF ReadCount, At
  <1>2. TasksTypeOK /\ week \in Week /\ uploaded[week] \in Nat
    BY DEF TasksInv, TasksTypeOK
  <1>3. /\ next \in TaskState
        /\ uploaded[week] > 0 =>
             next.at = "save" /\ next.week = week /\ next.count = uploaded[week]
        /\ ~(uploaded[week] > 0) => next.at = "idle"
    <2>1. CASE uploaded[week] > 0
      BY <1>2, <2>1 DEF TaskState
    <2>2. CASE ~(uploaded[week] > 0)
      BY <2>2, IdleTyped
    <2>. QED
      BY <2>1, <2>2
  <1>. HIDE DEF next
  <1>4. /\ task' \in [Clerk -> TaskState] /\ task'[c] = next
        /\ \A d \in Clerk \ {c} : task'[d] = task[d]
        /\ IsFiniteSet(Working')
    BY <1>1, <1>2, <1>3, TasksGo
  <1>5. /\ Kept({"count"}) /\ Size({"count"}) \in Nat /\ Kept({"upsert"})
        /\ Size({"read", "save"}) \in Nat /\ Size({"read", "save"})' \in Nat
        /\ uploaded[week] > 0 => Kept({"read", "save"})
        /\ ~(uploaded[week] > 0) => Size({"read", "save"})' = Size({"read", "save"}) - 1
    BY <1>1, <1>2, <1>3, SizeMoves DEF Kept
  <1>6. TasksTypeOK'
    BY <1>1, <1>2, <1>4 DEF TasksTypeOK
  <1>7. WeeksToCome'
    BY <1>1, <1>2, <1>3, <1>4, WeeksKept DEF TasksInv, Week
  <1>8. ReadsHold => ReadsHold'
    BY <1>1, <1>2, <1>3, <1>4 DEF ReadsHold, At
  <1>9. Balanced /\ ~raced' => Balanced'
    <2>. SUFFICES ASSUME Balanced, ~raced' PROVE Balanced'
      OBVIOUS
    <2>1. Total(uploaded)' = Total(uploaded) /\ Total(uploaded) \in Nat /\ Cardinality(receipts) \in Nat
      BY <1>1, <1>2, TotalAdds, FS_CardinalityType DEF TasksTypeOK, Total, Week
    <2>2. CASE uploaded[week] > 0
      BY <1>1, <1>5, <2>1, <2>2 DEF Balanced, Kept
    <2>3. CASE ~(uploaded[week] > 0)
      <3>1. week = 1 => Total(uploaded) = 0
        BY <1>2, <2>3 DEF TasksInv, TasksTypeOK, WeeksToCome, Total, Week
      <3>5. uploaded[week] = 0
        BY <1>2, <2>3
      <3>6. \A o \in Clerk : task[o].at # "count"
        BY <1>1, <3>5
      <3>2. {o \in Clerk : task[o].at \in {"count"}} = {}
        BY <3>6
      <3>3. Size({"count"}) = 0
        BY <3>2, FS_EmptySet DEF Size
      <3>4. week # 1
        BY <1>5, <2>1, <2>3, <3>1, <3>3 DEF Balanced
      <3>. QED
        BY <1>1, <1>5, <2>1, <2>3, <3>4 DEF Balanced, Kept
    <2>. QED
      BY <2>2, <2>3
  <1>10. LoggedOnes'
    BY <1>1, <1>5 DEF TasksInv, LoggedOnes, Kept, Total
  <1>. QED
    BY <1>1, <1>6, <1>7, <1>8, <1>9, <1>10 DEF TasksInv

LEMMA SaveStepOfCount ==
  ASSUME TasksInv, NEW c \in Clerk, SaveCount(c)
  PROVE  TasksInv'
  <1>1. /\ task[c].at = "save" /\ Goes(c, Idle)
        /\ uploaded' = [uploaded EXCEPT ![task[c].week] = task[c].count - 1]
        /\ raced' = (raced \/ \E o \in Clerk \ {c} : At(o, "save") /\ task[o].week = task[c].week)
        /\ UNCHANGED <<week, receipts, used, logged, achieved, cut>>
    BY DEF SaveCount, At, Decremented
  <1>2. TasksTypeOK /\ Idle \in TaskState /\ Idle.at = "idle" /\ week \in Week
        /\ uploaded \in [Week -> Nat]
    BY IdleTyped DEF TasksInv, TasksTypeOK
  <1>3. /\ task' \in [Clerk -> TaskState] /\ task'[c] = Idle
        /\ \A d \in Clerk \ {c} : task'[d] = task[d]
        /\ IsFiniteSet(Working')
    BY <1>1, <1>2, TasksGo
  <1>4. /\ Kept({"count"}) /\ Size({"count"}) \in Nat /\ Kept({"upsert"})
        /\ Size({"read", "save"})' = Size({"read", "save"}) - 1 /\ Size({"read", "save"}) \in Nat
    BY <1>1, <1>2, SizeMoves DEF Kept
  <1>5. PICK w \in Week, x \in Nat : w = task[c].week /\ x = task[c].count - 1
    <2>1. task[c].week \in Week /\ task[c].count \in Nat \ {0}
      BY <1>1, <1>2 DEF TasksTypeOK, TaskState, Idle
    <2>2. task[c].count - 1 \in Nat
      BY <2>1
    <2>. QED
      BY <2>1, <2>2
  <1>6. /\ uploaded' \in [Week -> Nat] /\ Total(uploaded) \in Nat /\ uploaded[w] \in Nat
        /\ Total(uploaded') = Total(uploaded) - uploaded[w] + x
        /\ \A v \in Week \ {w} : uploaded'[v] = uploaded[v]
    <2>1. /\ uploaded' \in [Week -> Nat] /\ uploaded'[w] = x
          /\ \A v \in Week \ {w} : uploaded'[v] = uploaded[v]
      BY <1>1, <1>2, <1>5
    <2>2. /\ Total(uploaded) \in Nat /\ uploaded[w] \in Nat
          /\ Total(uploaded') = Total(uploaded) - uploaded[w] + uploaded'[w]
      BY <1>2, <2>1, TotalAdds
    <2>. QED
      BY <2>1, <2>2
  <1>7. TasksTypeOK'
    BY <1>1, <1>2, <1>3, <1>6 DEF TasksTypeOK
  <1>8. WeeksToCome'
    <2>1. w <= week
      BY <1>1, <1>5 DEF TasksInv, WeeksToCome, At
    <2>2. \A v \in Week : v > week => uploaded'[v] = uploaded[v]
      BY <1>2, <1>6, <2>1 DEF Week
    <2>. QED
      BY <1>1, <1>2, <1>3, <2>2, WeeksKept DEF TasksInv
  <1>9. ReadsHold /\ ~raced' => ReadsHold'
    <2>. SUFFICES ASSUME ReadsHold, ~raced' PROVE ReadsHold'
      OBVIOUS
    <2>1. \A d \in Clerk \ {c} :
             task[d].at = "save" => uploaded'[task[d].week] = uploaded[task[d].week]
      <3>. SUFFICES ASSUME NEW d \in Clerk \ {c}, task[d].at = "save"
                    PROVE  uploaded'[task[d].week] = uploaded[task[d].week]
        OBVIOUS
      <3>1. task[d].week # w
        BY <1>1, <1>5 DEF At
      <3>2. task[d].week \in Week
        BY <1>2 DEF TasksTypeOK, TaskState, Idle
      <3>. QED
        BY <1>6, <3>1, <3>2
    <2>. QED
      BY <1>1, <1>2, <1>3, <2>1, ReadsKept DEF ReadsHold, At
  <1>10. ReadsHold /\ Balanced => Balanced'
    <2>. SUFFICES ASSUME ReadsHold, Balanced PROVE Balanced'
      OBVIOUS
    <2>1. uploaded[w] = x + 1
      <3>1. uploaded[w] = task[c].count
        BY <1>1, <1>5 DEF ReadsHold, At
      <3>. QED
        BY <1>5, <1>6, <3>1
    <2>2. Cardinality(receipts) \in Nat
      BY <1>2, FS_CardinalityType DEF TasksTypeOK
    <2>. QED
      BY <1>1, <1>4, <1>6, <2>1, <2>2 DEF Balanced, Kept
  <1>11. LoggedOnes'
    BY <1>1, <1>4 DEF TasksInv, LoggedOnes, Kept, Total
  <1>. QED
    BY <1>1, <1>7, <1>8, <1>9, <1>10, <1>11 DEF TasksInv

(* What is logged by hand has nothing to do with the receipts.             *)
LEMMA LogSteps ==
  ASSUME TasksInv, NEW c \in Clerk, LogManualProgress(c) \/ UpsertProgress(c)
  PROVE  TasksInv'
  <1>. DEFINE next == IF task[c].at = "idle" THEN [at |-> "upsert"] ELSE Idle
  <1>1. /\ task[c].at \in {"idle", "upsert"} /\ Goes(c, next)
        /\ UNCHANGED <<week, receipts, used, uploaded, raced, cut>>
        /\ task[c].at = "idle" => logged' = logged + 1 /\ UNCHANGED achieved
        /\ task[c].at = "upsert" =>
             achieved' = [achieved EXCEPT ![week] = achieved[week] + 1] /\ UNCHANGED logged
    BY DEF LogManualProgress, UpsertProgress, At
  <1>2. TasksTypeOK /\ week \in Week /\ achieved \in [Week -> Nat] /\ logged \in Nat
    BY DEF TasksInv, TasksTypeOK
  <1>3. /\ next \in TaskState
        /\ task[c].at = "idle" => next.at = "upsert"
        /\ task[c].at = "upsert" => next.at = "idle"
    BY <1>1, IdleTyped DEF TaskState
  <1>. HIDE DEF next
  <1>4. /\ task' \in [Clerk -> TaskState] /\ task'[c] = next
        /\ \A d \in Clerk \ {c} : task'[d] = task[d]
        /\ IsFiniteSet(Working')
    BY <1>1, <1>2, <1>3, TasksGo
  <1>5. /\ Kept({"count"}) /\ Kept({"read", "save"}) /\ Size({"upsert"}) \in Nat
        /\ task[c].at = "idle" => Size({"upsert"})' = Size({"upsert"}) + 1
        /\ task[c].at = "upsert" => Size({"upsert"})' = Size({"upsert"}) - 1
    BY <1>1, <1>2, <1>3, SizeMoves DEF Kept
  <1>6. /\ achieved' \in [Week -> Nat] /\ logged' \in Nat /\ Total(achieved) \in Nat
        /\ task[c].at = "idle" => Total(achieved') = Total(achieved)
        /\ task[c].at = "upsert" => Total(achieved') = Total(achieved) + 1
    <2>1. Total(achieved) \in Nat /\ achieved[week] \in Nat
      BY <1>2, TotalAdds
    <2>2. CASE task[c].at = "idle"
      BY <1>1, <1>2, <2>1, <2>2
    <2>3. CASE task[c].at = "upsert"
      <3>1. /\ achieved' \in [Week -> Nat] /\ achieved'[week] = achieved[week] + 1
            /\ \A v \in Week \ {week} : achieved'[v] = achieved[v]
        BY <1>1, <1>2, <2>3
      <3>2. Total(achieved') = Total(achieved) - achieved[week] + achieved'[week]
        BY <1>2, <3>1, TotalAdds
      <3>. QED
        BY <1>1, <1>2, <2>1, <2>3, <3>1, <3>2
    <2>. QED
      BY <1>1, <2>2, <2>3
  <1>7. TasksTypeOK'
    BY <1>1, <1>2, <1>4, <1>6 DEF TasksTypeOK
  <1>8. WeeksToCome'
    BY <1>1, <1>3, <1>4, WeeksKept DEF TasksInv
  <1>9. ReadsHold => ReadsHold'
    BY <1>1, <1>3, <1>4, ReadsKept DEF ReadsHold, At
  <1>10. Balanced => Balanced'
    BY <1>1, <1>5 DEF Balanced, Kept, Total
  <1>11. LoggedOnes'
    BY <1>1, <1>2, <1>5, <1>6 DEF TasksInv, LoggedOnes
  <1>. QED
    BY <1>1, <1>7, <1>8, <1>9, <1>10, <1>11 DEF TasksInv

LEMMA FailStep ==
  ASSUME TasksInv, NEW c \in Clerk, TaskFails(c)
  PROVE  TasksInv'
  <1>1. /\ task[c].at # "idle" /\ Goes(c, Idle) /\ cut' = TRUE
        /\ UNCHANGED <<week, receipts, used, uploaded, logged, achieved, raced>>
    BY DEF TaskFails, At
  <1>2. TasksTypeOK /\ logged \in Nat /\ Idle \in TaskState /\ Idle.at = "idle"
    BY IdleTyped DEF TasksInv, TasksTypeOK
  <1>3. /\ task' \in [Clerk -> TaskState] /\ task'[c] = Idle
        /\ \A d \in Clerk \ {c} : task'[d] = task[d]
        /\ IsFiniteSet(Working')
    BY <1>1, <1>2, TasksGo
  <1>4. /\ Size({"upsert"}) \in Nat
        /\ Size({"upsert"})' = Size({"upsert"}) \/ Size({"upsert"})' = Size({"upsert"}) - 1
    BY <1>1, <1>2, SizeMoves
  <1>5. TasksTypeOK'
    BY <1>1, <1>2, <1>3 DEF TasksTypeOK
  <1>6. WeeksToCome'
    BY <1>1, <1>2, <1>3, WeeksKept DEF TasksInv
  <1>7. LoggedOnes'
    <2>1. Total(achieved)' = Total(achieved) /\ Total(achieved) \in Nat
      BY <1>1, <1>2 DEF TasksTypeOK, Total, Week
    <2>. QED
      BY <1>1, <1>2, <1>4, <2>1 DEF TasksInv, LoggedOnes
  <1>. QED
    BY <1>1, <1>5, <1>6, <1>7 DEF TasksInv

LEMMA TasksStep ==
  ASSUME TasksInv, [TasksNext]_taskVars
  PROVE  TasksInv'
  <1>1. CASE NextWeek
    <2>1. /\ week \in Week /\ week < 4 /\ week' = week + 1
          /\ UNCHANGED <<receipts, used, uploaded, logged, achieved, task, raced, cut>>
      BY <1>1 DEF NextWeek, TasksInv, TasksTypeOK
    <2>2. week' \in Week /\ week' # 1 /\ week' > week
      BY <2>1 DEF Week
    <2>3. TasksTypeOK'
      BY <2>1, <2>2 DEF TasksInv, TasksTypeOK, Working, At
    <2>4. WeeksToCome'
      BY <2>1, <2>2 DEF TasksInv, TasksTypeOK, TaskState, Idle, WeeksToCome, At, Week
    <2>5. \A where : Kept(where)
      BY <2>1 DEF Kept, Size
    <2>6. Balanced => Balanced'
      BY <2>1, <2>2, <2>5 DEF Balanced, Kept, Total
    <2>7. LoggedOnes' /\ (ReadsHold => ReadsHold')
      BY <2>1, <2>5 DEF TasksInv, LoggedOnes, ReadsHold, Kept, Total, At
    <2>. QED
      BY <2>1, <2>3, <2>4, <2>6, <2>7 DEF TasksInv
  <1>2. CASE UNCHANGED taskVars
    BY <1>2 DEF taskVars, TasksInv, TasksTypeOK, WeeksToCome, ReadsHold, Balanced, LoggedOnes,
                Working, Size, Total, At
  <1>. QED
    BY <1>1, <1>2, UploadStep, CountStep, DeleteStep, RemoveStep, ReadStep, SaveStepOfCount,
       LogSteps, FailStep DEF TasksNext

LEMMA TasksInvariant == TasksSpec => []TasksInv
  BY TasksInitHolds, TasksStep, PTL DEF TasksSpec

(* However uploads, deletions, entries and weeks follow each other: each   *)
(* receipt there is counts, and within the first week nothing else; what   *)
(* is achieved by hand is what was logged.  Deletions that race, and       *)
(* requests cut short, aside (uploadReceipt, deleteReceipt,                *)
(* logManualProgress).                                                     *)
THEOREM CountsStayTrue == TasksSpec => []CountsAreTrue
  <1>1. TasksInv => CountsAreTrue
    <2>. SUFFICES ASSUME TasksInv PROVE ReceiptsCount /\ ProgressIsLogged
      BY DEF CountsAreTrue
    <2>1. ASSUME AtRest, NEW where, "idle" \notin where PROVE Size(where) = 0
      <3>1. {c \in Clerk : task[c].at \in where} = {}
        BY <2>1 DEF AtRest, At
      <3>. QED
        BY <3>1, FS_EmptySet DEF Size
    <2>2. AtRest => Size({"count"}) = 0 /\ Size({"read", "save"}) = 0 /\ Size({"upsert"}) = 0
      BY <2>1
    <2>3. /\ Cardinality(receipts) \in Nat /\ Total(uploaded) \in Nat
          /\ Total(achieved) \in Nat /\ logged \in Nat
      <3>1. Cardinality(receipts) \in Nat /\ logged \in Nat
        BY FS_CardinalityType DEF TasksInv, TasksTypeOK
      <3>2. uploaded \in [1..4 -> Nat] /\ achieved \in [1..4 -> Nat]
        BY DEF TasksInv, TasksTypeOK, Week
      <3>. QED
        BY <3>1, <3>2 DEF Total
    <2>4. Size({"upsert"}) \in Nat
      <3>1. {c \in Clerk : task[c].at \in {"upsert"}} \subseteq Working
        BY DEF Working, At
      <3>. QED
        BY <3>1, FS_Subset, FS_CardinalityType DEF Size, TasksInv, TasksTypeOK
    <2>5. ReceiptsCount
      BY <2>2, <2>3 DEF ReceiptsCount, TasksInv, Balanced
    <2>6. ProgressIsLogged
      BY <2>2, <2>3, <2>4 DEF ProgressIsLogged, TasksInv, LoggedOnes
    <2>. QED
      BY <2>5, <2>6
  <1>. QED
    BY <1>1, TasksInvariant, PTL

(* For every monthly target: what the week asks for, with the weeks to     *)
(* come, makes up for all that is missing of the month                     *)
(* (computeWeeklyTargets, enrichWithProgress).                             *)
THEOREM TargetsCover == TasksSpec => []TargetsCoverTheMonth
  <1>1. TasksInv => TargetsCoverTheMonth
    <2>. SUFFICES ASSUME TasksInv PROVE TargetsCoverTheMonth
      OBVIOUS
    <2>. DEFINE q == Monthly \div 4
    <2>1. q \in Nat /\ Monthly \in Nat /\ Monthly - 3 * q >= 0
      BY MonthlyAssumption
    <2>2. /\ week \in 1..4
          /\ achieved[1] \in Nat /\ achieved[2] \in Nat /\ achieved[3] \in Nat
      BY DEF TasksInv, TasksTypeOK, Week
    <2>3. /\ WeekTarget(1) = q /\ WeekTarget(2) = q /\ WeekTarget(3) = q
          /\ WeekTarget(4) = Monthly - 3 * q
      BY DEF WeekTarget
    <2>4. WeekTarget(week) \in {q, Monthly - 3 * q} /\ (week < 4 <=> week \in {1, 2, 3})
          /\ week \in {1, 2, 3} => WeekTarget(week) = q
      BY <2>2 DEF WeekTarget
    <2>. HIDE DEF q
    <2>5. /\ Shortfall(1) >= (IF 1 < week THEN q - achieved[1] ELSE 0)
          /\ Shortfall(2) >= (IF 2 < week THEN q - achieved[2] ELSE 0)
          /\ Shortfall(3) >= (IF 3 < week THEN q - achieved[3] ELSE 0)
          /\ Shortfall(1) \in Int /\ Shortfall(2) \in Int /\ Shortfall(3) \in Int
      BY <2>1, <2>2, <2>3 DEF Shortfall
    <2>6. CASE week = 1
      BY <2>1, <2>2, <2>3, <2>5, <2>6 DEF TargetsCoverTheMonth, EffectiveTarget, OverdueAmount
    <2>7. CASE week = 2
      BY <2>1, <2>2, <2>3, <2>5, <2>7 DEF TargetsCoverTheMonth, EffectiveTarget, OverdueAmount
    <2>8. CASE week = 3
      BY <2>1, <2>2, <2>3, <2>5, <2>8 DEF TargetsCoverTheMonth, EffectiveTarget, OverdueAmount
    <2>9. CASE week = 4
      BY <2>1, <2>2, <2>3, <2>5, <2>9 DEF TargetsCoverTheMonth, EffectiveTarget, OverdueAmount
    <2>. QED
      BY <2>2, <2>6, <2>7, <2>8, <2>9
  <1>. QED
    BY <1>1, TasksInvariant, PTL-----------------------------------------------------------------------------

(* The files of one author's emails.                                       *)
FileRow == [there : BOOLEAN, outbox : Letter \cup {NoLetter}, data : BOOLEAN, age : 0..2]
LetterState == [at : {"draft", "pending", "sent"}, files : SUBSET Attachment,
                carried : SUBSET Attachment]
Asked == [at : {"idle", "upload", "send"}, files : SUBSET Attachment,
          letter : Letter \cup {NoLetter}]

FilesTypeOK ==
  /\ fileRow \in [Attachment -> FileRow]
  /\ letter \in [Letter -> LetterState]
  /\ asked \in [Tab -> Asked]
  /\ \A t \in Tab : asked[t].at = "send" => asked[t].letter \in Letter
  /\ expired \in [Letter -> SUBSET Attachment]

(* A draft has no files yet: they are linked in the transaction that makes *)
(* it an email of the queue.                                               *)
DraftsHaveNone == \A e \in Letter : letter[e].at = "draft" => Linked(e) = {}

(* Only a file past the retention has lost its contents.                   *)
PurgedAreOld == \A f \in Attachment : fileRow[f].there /\ ~fileRow[f].data => fileRow[f].age = 2

FilesInv == FilesTypeOK /\ DraftsHaveNone /\ PurgedAreOld /\ DeliversItsFiles

LEMMA FilesInitHolds == FilesInit => FilesInv
  <1>. SUFFICES ASSUME FilesInit PROVE FilesInv
    OBVIOUS
  <1>1. NoFile \in FileRow /\ NoFile.there = FALSE
    BY DEF NoFile, FileRow
  <1>2. NoRequest \in Asked /\ NoRequest.at = "idle"
    BY DEF NoRequest, Asked
  <1>3. FilesTypeOK
    BY <1>1, <1>2 DEF FilesInit, FilesTypeOK, LetterState
  <1>4. \A e \in Letter : Linked(e) = {} /\ letter[e].at = "draft"
    BY <1>1 DEF FilesInit, Linked
  <1>. QED
    BY <1>1, <1>3, <1>4 DEF FilesInit, FilesInv, DraftsHaveNone, PurgedAreOld, DeliversItsFiles,
                            QueuedWithItsFiles, SentWithItsFiles

(* A step that leaves the emails and the links of the files alone.         *)
LEMMA LinksKept ==
  ASSUME FilesInv, UNCHANGED <<letter, expired>>,
         fileRow' \in [Attachment -> FileRow], asked' \in [Tab -> Asked],
         \A t \in Tab : asked'[t].at = "send" => asked'[t].letter \in Letter,
         \A f \in Attachment : /\ fileRow'[f].there /\ ~fileRow'[f].data => fileRow'[f].age = 2
                               /\ fileRow'[f] # fileRow[f] =>
                                    /\ fileRow'[f].there /\ fileRow'[f].outbox # NoLetter
                                         => fileRow[f].there /\ fileRow'[f].outbox = fileRow[f].outbox
                                    /\ fileRow[f].there /\ fileRow[f].outbox # NoLetter
                                         => fileRow'[f].there /\ fileRow'[f].outbox = fileRow[f].outbox
  PROVE  FilesInv'
  <1>1. ASSUME NEW e \in Letter PROVE Linked(e)' = Linked(e)
    BY NoLetterAssumption DEF Linked
  <1>2. FilesTypeOK'
    BY DEF FilesInv, FilesTypeOK
  <1>. QED
    BY <1>1, <1>2 DEF FilesInv, DraftsHaveNone, PurgedAreOld, DeliversItsFiles,
                      QueuedWithItsFiles, SentWithItsFiles

LEMMA QueuePreserves ==
  ASSUME FilesInv, NEW t \in Tab, QueueWithFiles(t)
  PROVE  FilesInv'
  <1>0. PICK e \in Letter, files \in SUBSET Attachment : e = asked[t].letter /\ files = asked[t].files
    BY DEF QueueWithFiles, FilesInv, FilesTypeOK, Asked
  <1>1. NoRequest \in Asked /\ NoRequest.at = "idle"
    BY DEF NoRequest, Asked
  <1>2. /\ asked' \in [Tab -> Asked]
        /\ \A u \in Tab : asked'[u].at = "send" => asked'[u].letter \in Letter
        /\ UNCHANGED expired
    BY <1>1 DEF QueueWithFiles, FilesInv, FilesTypeOK, Asked
  <1>3. CASE UNCHANGED <<letter, fileRow>>
    <2>1. \A f \in Attachment : fileRow'[f] = fileRow[f]
                                /\ (fileRow[f].there /\ ~fileRow[f].data => fileRow[f].age = 2)
      BY <1>3 DEF FilesInv, PurgedAreOld
    <2>. QED
      BY <1>2, <1>3, <2>1, LinksKept DEF FilesInv, FilesTypeOK
  <1>4. CASE ~UNCHANGED <<letter, fileRow>>
    <2>1. /\ letter[e].at = "draft" /\ files \subseteq Unsent
          /\ letter' = [letter EXCEPT ![e].at = "pending", ![e].files = files]
          /\ fileRow' = [f \in Attachment |->
                           IF f \in files THEN [fileRow[f] EXCEPT !.outbox = e] ELSE fileRow[f]]
      BY <1>0, <1>4 DEF QueueWithFiles, Claimed
    <2>2. /\ letter' \in [Letter -> LetterState] /\ letter'[e].at = "pending"
          /\ letter'[e].files = files /\ \A d \in Letter \ {e} : letter'[d] = letter[d]
      BY <1>2, <2>1 DEF FilesInv, FilesTypeOK, LetterState
    <2>3. /\ fileRow' \in [Attachment -> FileRow]
          /\ \A f \in Attachment \ files : fileRow'[f] = fileRow[f]
          /\ \A f \in files : /\ fileRow'[f].outbox = e /\ fileRow'[f].there = fileRow[f].there
                              /\ fileRow'[f].data = fileRow[f].data
                              /\ fileRow'[f].age = fileRow[f].age
      BY <1>2, <2>1 DEF FilesInv, FilesTypeOK, FileRow
    <2>4. \A f \in files : fileRow[f].there /\ fileRow[f].outbox = NoLetter
      BY <2>1 DEF Unsent
    <2>5. Linked(e) = {}
      BY <1>2, <2>1 DEF FilesInv, DraftsHaveNone
    <2>6. Linked(e)' = files
      BY <1>2, <2>3, <2>4, <2>5 DEF Linked
    <2>7. ASSUME NEW d \in Letter \ {e} PROVE Linked(d)' = Linked(d)
      BY <2>3, <2>4, NoLetterAssumption DEF Linked
    <2>8. FilesTypeOK'
      BY <1>2, <2>2, <2>3 DEF FilesInv, FilesTypeOK
    <2>9. PurgedAreOld'
      BY <2>3 DEF FilesInv, PurgedAreOld
    <2>10. DraftsHaveNone' /\ QueuedWithItsFiles'
      BY <2>2, <2>6, <2>7 DEF FilesInv, DraftsHaveNone, DeliversItsFiles, QueuedWithItsFiles
    <2>11. SentWithItsFiles'
      BY <1>2, <2>2 DEF FilesInv, DeliversItsFiles, SentWithItsFiles
    <2>. QED
      BY <2>8, <2>9, <2>10, <2>11 DEF FilesInv, DeliversItsFiles
  <1>. QED
    BY <1>3, <1>4

LEMMA CarryPreserves ==
  ASSUME FilesInv, NEW e \in Letter, Carry(e)
  PROVE  FilesInv'
  <1>1. /\ letter[e].at = "pending" /\ UNCHANGED <<fileRow, asked>>
        /\ letter' = [letter EXCEPT ![e].at = "sent", ![e].carried = FilesFor(e)]
        /\ expired' = [expired EXCEPT ![e] = {f \in letter[e].files : fileRow[f].age = 2}]
    BY DEF Carry
  <1>2. FilesFor(e) \subseteq Attachment /\ {f \in letter[e].files : fileRow[f].age = 2} \subseteq Attachment
    BY DEF FilesFor, Linked, FilesInv, FilesTypeOK, LetterState
  <1>3. /\ letter' \in [Letter -> LetterState] /\ letter'[e].at = "sent"
        /\ letter'[e].carried = FilesFor(e) /\ letter'[e].files = letter[e].files
        /\ \A d \in Letter \ {e} : letter'[d] = letter[d]
    BY <1>1, <1>2 DEF FilesInv, FilesTypeOK, LetterState
  <1>4. /\ expired' \in [Letter -> SUBSET Attachment]
        /\ expired'[e] = {f \in letter[e].files : fileRow[f].age = 2}
        /\ \A d \in Letter \ {e} : expired'[d] = expired[d]
    BY <1>1, <1>2 DEF FilesInv, FilesTypeOK
  <1>5. \A d \in Letter : Linked(d)' = Linked(d)
    BY <1>1 DEF Linked
  <1>6. letter'[e].files \ expired'[e] \subseteq letter'[e].carried
    <2>1. Linked(e) = letter[e].files
      BY <1>1 DEF FilesInv, DeliversItsFiles, QueuedWithItsFiles
    <2>2. \A f \in Linked(e) : fileRow[f].age # 2 => fileRow[f].data
      BY DEF Linked, FilesInv, PurgedAreOld
    <2>. QED
      BY <1>3, <1>4, <2>1, <2>2 DEF FilesFor
  <1>7. FilesTypeOK'
    BY <1>1, <1>3, <1>4 DEF FilesInv, FilesTypeOK
  <1>8. PurgedAreOld'
    BY <1>1 DEF FilesInv, PurgedAreOld
  <1>9. DraftsHaveNone' /\ QueuedWithItsFiles'
    BY <1>1, <1>3, <1>5 DEF FilesInv, DraftsHaveNone, DeliversItsFiles, QueuedWithItsFiles
  <1>10. SentWithItsFiles'
    BY <1>3, <1>4, <1>6 DEF FilesInv, DeliversItsFiles, SentWithItsFiles
  <1>. QED
    BY <1>7, <1>8, <1>9, <1>10 DEF FilesInv, DeliversItsFiles

(* Requests come and go.                                                   *)
LEMMA AskPreserves ==
  ASSUME FilesInv, UNCHANGED <<fileRow, letter, expired>>, asked' \in [Tab -> Asked],
         \A t \in Tab : asked'[t].at = "send" => asked'[t].letter \in Letter
  PROVE  FilesInv'
  <1>1. \A f \in Attachment : fileRow'[f] = fileRow[f]
                              /\ (fileRow[f].there /\ ~fileRow[f].data => fileRow[f].age = 2)
    BY DEF FilesInv, PurgedAreOld
  <1>. QED
    BY <1>1, LinksKept DEF FilesInv, FilesTypeOK

LEMMA FilesStep ==
  ASSUME FilesInv, [FilesNext]_fileVars
  PROVE  FilesInv'
  <1>1. NoRequest \in Asked /\ NoRequest.at = "idle"
    BY DEF NoRequest, Asked
  <1>2. ASSUME NEW t \in Tab, CountUnsent(t) \/ RequestFails(t) PROVE FilesInv'
    <2>1. [NoRequest EXCEPT !.at = "upload"] \in Asked /\ [NoRequest EXCEPT !.at = "upload"].at = "upload"
      BY DEF NoRequest, Asked
    <2>2. /\ asked' \in [Tab -> Asked] /\ UNCHANGED <<fileRow, letter, expired>>
          /\ \A u \in Tab : asked'[u].at = "send" => asked'[u] = asked[u]
      BY <1>1, <1>2, <2>1 DEF CountUnsent, RequestFails, FilesInv, FilesTypeOK
    <2>. QED
      BY <2>2, AskPreserves DEF FilesInv, FilesTypeOK
  <1>3. ASSUME NEW t \in Tab, NEW e \in Letter, NEW files \in SUBSET Attachment,
               PendingFor(t, e, files)
        PROVE  FilesInv'
    <2>1. [at |-> "send", files |-> files, letter |-> e] \in Asked
      BY DEF Asked
    <2>2. /\ asked' \in [Tab -> Asked] /\ UNCHANGED <<fileRow, letter, expired>>
          /\ \A u \in Tab : asked'[u].at = "send" => asked'[u].letter = e \/ asked'[u] = asked[u]
      BY <1>3, <2>1 DEF PendingFor, FilesInv, FilesTypeOK
    <2>. QED
      BY <2>2, AskPreserves DEF FilesInv, FilesTypeOK
  <1>4. ASSUME NEW t \in Tab, NEW f \in Attachment, SaveFile(t, f) PROVE FilesInv'
    <2>1. /\ asked' \in [Tab -> Asked] /\ UNCHANGED <<letter, expired>>
          /\ \A u \in Tab : asked'[u].at = "send" => asked'[u] = asked[u]
      BY <1>1, <1>4 DEF SaveFile, FilesInv, FilesTypeOK
    <2>2. fileRow[f].there = FALSE /\ fileRow[f].outbox = NoLetter
      BY <1>4 DEF SaveFile, NoFile
    <2>3. /\ fileRow' \in [Attachment -> FileRow]
          /\ \A g \in Attachment \ {f} : fileRow'[g] = fileRow[g]
          /\ fileRow'[f].data = TRUE /\ fileRow'[f].outbox = NoLetter
      BY <1>4, <2>2 DEF SaveFile, FilesInv, FilesTypeOK, FileRow
    <2>4. \A g \in Attachment : fileRow[g].there /\ ~fileRow[g].data => fileRow[g].age = 2
      BY DEF FilesInv, PurgedAreOld
    <2>. QED
      BY <2>1, <2>2, <2>3, <2>4, LinksKept DEF FilesInv, FilesTypeOK
  <1>5. ASSUME UNCHANGED <<letter, asked, expired>>, fileRow' \in [Attachment -> FileRow],
               \A f \in Attachment : \/ fileRow'[f] = fileRow[f]
                                     \/ f \in Unsent /\ ~fileRow'[f].there
                                     \/ /\ fileRow'[f].there = fileRow[f].there
                                        /\ fileRow'[f].outbox = fileRow[f].outbox
                                        /\ \/ fileRow'[f].age = 2
                                           \/ fileRow'[f].data = fileRow[f].data /\ fileRow[f].age # 2
        PROVE  FilesInv'
    <2>1. \A f \in Attachment : fileRow[f].there /\ ~fileRow[f].data => fileRow[f].age = 2
      BY DEF FilesInv, PurgedAreOld
    <2>2. /\ asked' \in [Tab -> Asked]
          /\ \A t \in Tab : asked'[t].at = "send" => asked'[t].letter \in Letter
      BY <1>5 DEF FilesInv, FilesTypeOK
    <2>. QED
      BY <1>5, <2>1, <2>2, LinksKept DEF Unsent
  <1>6. GoneFile \in FileRow /\ ~GoneFile.there
    <2>1. NoFile \in FileRow /\ NoFile.there = FALSE
      BY DEF NoFile, FileRow
    <2>. QED
      BY <2>1 DEF GoneFile, FileRow
  <1>7. ASSUME NEW f \in Attachment, RemoveFile(f) PROVE FilesInv'
    BY <1>5, <1>6, <1>7 DEF RemoveFile, FilesInv, FilesTypeOK
  <1>8. ASSUME PurgeUnsent PROVE FilesInv'
    BY <1>5, <1>6, <1>8 DEF PurgeUnsent, FilesInv, FilesTypeOK
  <1>9. ASSUME NEW f \in Attachment, GrowOld(f) PROVE FilesInv'
    <2>1. fileRow[f].age \in 0..2 /\ fileRow[f].age < 2 /\ fileRow[f].age + 1 \in 0..2
      BY <1>9 DEF GrowOld, FilesInv, FilesTypeOK, FileRow
    <2>2. /\ fileRow' \in [Attachment -> FileRow]
          /\ \A g \in Attachment \ {f} : fileRow'[g] = fileRow[g]
          /\ fileRow'[f].there = fileRow[f].there /\ fileRow'[f].outbox = fileRow[f].outbox
          /\ fileRow'[f].data = fileRow[f].data
      BY <1>9, <2>1 DEF GrowOld, FilesInv, FilesTypeOK, FileRow
    <2>3. UNCHANGED <<letter, asked, expired>>
      BY <1>9 DEF GrowOld
    <2>. QED
      BY <1>5, <2>1, <2>2, <2>3
  <1>10. ASSUME PurgeContents PROVE FilesInv'
    <2>1. \A f \in Attachment : /\ [fileRow[f] EXCEPT !.data = FALSE] \in FileRow
                                /\ [fileRow[f] EXCEPT !.data = FALSE].there = fileRow[f].there
                                /\ [fileRow[f] EXCEPT !.data = FALSE].outbox = fileRow[f].outbox
                                /\ [fileRow[f] EXCEPT !.data = FALSE].age = fileRow[f].age
      BY DEF FilesInv, FilesTypeOK, FileRow
    <2>2. /\ fileRow' \in [Attachment -> FileRow] /\ UNCHANGED <<letter, asked, expired>>
          /\ \A f \in Attachment : \/ fileRow'[f] = fileRow[f]
                                   \/ /\ fileRow'[f].there = fileRow[f].there
                                      /\ fileRow'[f].outbox = fileRow[f].outbox
                                      /\ fileRow'[f].age = 2
      BY <1>10, <2>1 DEF PurgeContents, FilesInv, FilesTypeOK
    <2>. QED
      BY <1>5, <2>2
  <1>11. CASE UNCHANGED fileVars
    BY <1>11, AskPreserves DEF fileVars, FilesInv, FilesTypeOK
  <1>. QED
    BY <1>2, <1>3, <1>4, <1>7, <1>8, <1>9, <1>10, <1>11, QueuePreserves, CarryPreserves DEF FilesNext

(* Whatever is uploaded, removed, purged or sent from other tabs meanwhile *)
(* (composeSend, claim, purge): an email leaves the composer with all its  *)
(* files or not at all, and is delivered with those the retention has left *)
(* their contents.                                                         *)
THEOREM EmailsTakeTheirFiles == FilesSpec => []DeliversItsFiles
  <1>1. FilesInv => DeliversItsFiles
    BY DEF FilesInv
  <1>. QED
    BY <1>1, FilesInitHolds, FilesStep, PTL DEF FilesSpec

-----------------------------------------------------------------------------

(* The candidates of the HR files.                                         *)
Count == [byHand : Nat, byFile : Nat]

Import == [at : {"idle", "save"}, rows : Seq(Mobile), seen : SUBSET Mobile]

ImportsTypeOK ==
  /\ candidates \in [Mobile -> Count]
  /\ importing \in [Importer -> Import]

(* Imports under way that will add a candidate if their file names m.      *)
MayAdd(m) == {i \in Importer : importing[i].at = "save" /\ m \notin importing[i].seen}

RoomLeft ==
  \A m \in Mobile : candidates[m].byFile + Cardinality(MayAdd(m)) <= Cardinality(Importer)

(* While no two imports overlapped, a number that an import has not seen   *)
(* still has no candidate from a file.                                     *)
UnseenAreNew ==
  \A i \in Importer : importing[i].at = "save" =>
    \A m \in Mobile \ importing[i].seen : candidates[m].byFile = 0

OneEach == \A m \in Mobile : candidates[m].byFile <= 1

ImportsInv == ImportsTypeOK /\ RoomLeft /\ (~overlapped => UnseenAreNew /\ OneEach)

LEMMA MayAddSize ==
  ASSUME NEW S, S \subseteq Importer
  PROVE  /\ IsFiniteSet(S) /\ Cardinality(S) \in Nat
         /\ Cardinality(Importer) \in Nat /\ Cardinality(S) <= Cardinality(Importer)
         /\ \A T : T \subseteq S => Cardinality(T) \in Nat /\ Cardinality(T) <= Cardinality(S)
         /\ \A i \in S : Cardinality(S \ {i}) = Cardinality(S) - 1
  <1>1. IsFiniteSet(S) /\ Cardinality(S) <= Cardinality(Importer)
    BY ImporterAssumption, FS_Subset
  <1>2. \A T : T \subseteq S => IsFiniteSet(T) /\ Cardinality(T) <= Cardinality(S)
    BY <1>1, FS_Subset
  <1>. QED
    BY <1>1, <1>2, ImporterAssumption, FS_CardinalityType, FS_RemoveElement

(* An import that ends without adding m, or has seen it, leaves room.      *)
LEMMA RoomStays ==
  ASSUME ImportsInv, NEW m \in Mobile,
         candidates'[m].byFile \in Nat, candidates'[m].byFile <= candidates[m].byFile,
         MayAdd(m)' \subseteq MayAdd(m)
  PROVE  candidates'[m].byFile + Cardinality(MayAdd(m)') <= Cardinality(Importer)
  <1>. PICK S, T : S = MayAdd(m) /\ T = MayAdd(m)'
    OBVIOUS
  <1>1. T \subseteq S /\ S \subseteq Importer
    BY DEF MayAdd
  <1>2. candidates[m].byFile + Cardinality(S) <= Cardinality(Importer)
    BY DEF ImportsInv, RoomLeft
  <1>3. candidates[m].byFile \in Nat
    BY DEF ImportsInv, ImportsTypeOK, Count
  <1>4. /\ Cardinality(S) \in Nat /\ Cardinality(T) \in Nat /\ Cardinality(Importer) \in Nat
        /\ Cardinality(T) <= Cardinality(S)
    BY <1>1, MayAddSize
  <1>. QED
    BY <1>2, <1>3, <1>4

LEMMA NoImportTyped == NoImport \in Import /\ NoImport.at = "idle"
  BY DEF NoImport, Import

LEMMA ImportsInitHolds == HrInit => ImportsInv
  <1>. SUFFICES ASSUME HrInit PROVE ImportsInv
    OBVIOUS
  <1>1. ImportsTypeOK /\ UnseenAreNew /\ OneEach
    BY NoImportTyped DEF HrInit, ImportsTypeOK, UnseenAreNew, OneEach, Count
  <1>2. \A m \in Mobile : candidates[m].byFile = 0 /\ MayAdd(m) = {}
    BY NoImportTyped DEF HrInit, MayAdd
  <1>3. RoomLeft
    BY <1>2, MayAddSize, FS_EmptySet DEF RoomLeft
  <1>. QED
    BY <1>1, <1>3 DEF ImportsInv

LEMMA FilesAreSequences == File \subseteq Seq(Mobile)
  BY DEF File

(* Of the rows of a file the first with a number is fresh, at most.        *)
LEMMA FreshOnce ==
  ASSUME NEW rows \in Seq(Mobile), NEW seen, NEW m
  PROVE  /\ Cardinality({r \in FreshRows(rows, seen) : rows[r] = m}) \in {0, 1}
         /\ m \in seen => Cardinality({r \in FreshRows(rows, seen) : rows[r] = m}) = 0
  <1>. DEFINE S == {r \in FreshRows(rows, seen) : rows[r] = m}
  <1>1. ASSUME NEW q \in S, NEW r \in S PROVE q = r
    <2>1. q \in 1..Len(rows) /\ r \in 1..Len(rows) /\ rows[q] = rows[r]
      BY DEF FreshRows
    <2>2. q \notin 1..(r - 1) /\ r \notin 1..(q - 1)
      BY <2>1 DEF FreshRows
    <2>. QED
      BY <2>1, <2>2
  <1>2. m \in seen => S = {}
    BY DEF FreshRows
  <1>3. CASE S = {}
    BY <1>3, FS_EmptySet
  <1>4. ASSUME NEW r \in S PROVE Cardinality(S) = 1
    <2>1. S = {r}
      BY <1>1
    <2>. QED
      BY <2>1, FS_Singleton
  <1>. QED
    BY <1>2, <1>3, <1>4, FS_EmptySet

LEMMA ReadPreserves ==
  ASSUME ImportsInv, NEW i \in Importer, NEW rows \in File, ReadExisting(i, rows)
  PROVE  ImportsInv'
  <1>. DEFINE next == [at |-> "save", rows |-> rows, seen |-> {m \in Mobile : Has(m)}]
  <1>1. next \in Import
    BY FilesAreSequences DEF Import
  <1>2. next.seen = {m \in Mobile : Has(m)}
    OBVIOUS
  <1>3. /\ importing' = [importing EXCEPT ![i] = next] /\ UNCHANGED <<candidates, overlapped>>
    BY DEF ReadExisting
  <1>. HIDE DEF next
  <1>4. /\ importing' \in [Importer -> Import] /\ importing'[i] = next
        /\ \A j \in Importer \ {i} : importing'[j] = importing[j]
    BY <1>1, <1>3 DEF ImportsInv, ImportsTypeOK
  <1>5. \A m \in Mobile \ next.seen : candidates[m].byFile = 0
    <2>. SUFFICES ASSUME NEW m \in Mobile, ~Has(m) PROVE candidates[m].byFile = 0
      BY <1>2
    <2>1. candidates[m].byHand \in Nat /\ candidates[m].byFile \in Nat
      BY DEF ImportsInv, ImportsTypeOK, Count
    <2>. QED
      BY <2>1 DEF Has
  <1>6. ASSUME NEW m \in Mobile
        PROVE  candidates'[m].byFile + Cardinality(MayAdd(m)') <= Cardinality(Importer)
    <2>1. CASE m \in next.seen
      <3>1. MayAdd(m)' \subseteq MayAdd(m)
        BY <1>4, <2>1 DEF MayAdd
      <3>2. candidates'[m].byFile = candidates[m].byFile /\ candidates[m].byFile \in Nat
        BY <1>3 DEF ImportsInv, ImportsTypeOK, Count
      <3>. QED
        BY <3>1, <3>2, RoomStays
    <2>2. CASE m \notin next.seen
      <3>. PICK T : T = MayAdd(m)'
        OBVIOUS
      <3>1. T \subseteq Importer
        BY DEF MayAdd
      <3>2. candidates'[m].byFile = 0
        BY <1>3, <1>5, <2>2
      <3>. QED
        BY <3>1, <3>2, MayAddSize
    <2>. QED
      BY <2>1, <2>2
  <1>. QED
    BY <1>3, <1>4, <1>5, <1>6 DEF ImportsInv, ImportsTypeOK, RoomLeft, UnseenAreNew, OneEach

LEMMA SavePreserves ==
  ASSUME ImportsInv, NEW i \in Importer, SaveFresh(i)
  PROVE  ImportsInv'
  <1>. DEFINE rows == importing[i].rows
  <1>. DEFINE seen == importing[i].seen
  <1>. DEFINE new(m) == Cardinality({r \in FreshRows(rows, seen) : rows[r] = m})
  <1>1. /\ importing[i].at = "save"
        /\ candidates' = [m \in Mobile |-> [candidates[m] EXCEPT !.byFile = @ + new(m)]]
        /\ overlapped' = (overlapped \/ UnderWay(Importer \ {i}))
        /\ importing' = [importing EXCEPT ![i] = NoImport]
    BY DEF SaveFresh
  <1>2. rows \in Seq(Mobile) /\ seen \subseteq Mobile
    BY DEF ImportsInv, ImportsTypeOK, Import
  <1>3. ASSUME NEW m \in Mobile PROVE new(m) \in {0, 1} /\ (m \in seen => new(m) = 0)
    <2>. HIDE DEF rows, seen
    <2>. QED
      BY <1>2, FreshOnce
  <1>. HIDE DEF new
  <1>4. /\ importing' \in [Importer -> Import] /\ importing'[i].at = "idle"
        /\ \A j \in Importer \ {i} : importing'[j] = importing[j]
    BY <1>1, NoImportTyped DEF ImportsInv, ImportsTypeOK
  <1>5. \A m \in Mobile : candidates[m] \in Count
    BY DEF ImportsInv, ImportsTypeOK
  <1>6. /\ candidates' \in [Mobile -> Count]
        /\ \A m \in Mobile : candidates'[m].byFile = candidates[m].byFile + new(m)
    BY <1>1, <1>3, <1>5 DEF Count
  <1>7. ASSUME ~overlapped' PROVE UnseenAreNew' /\ OneEach'
    <2>1. UnseenAreNew /\ OneEach /\ ~UnderWay(Importer \ {i})
      BY <1>1, <1>7 DEF ImportsInv
    <2>2. \A j \in Importer : importing'[j].at # "save"
      BY <1>4, <2>1 DEF UnderWay
    <2>3. ASSUME NEW m \in Mobile PROVE candidates'[m].byFile <= 1
      <3>1. m \notin seen => candidates[m].byFile = 0
        BY <1>1, <2>1 DEF UnseenAreNew
      <3>2. candidates[m].byFile <= 1 /\ candidates[m].byFile \in Nat
        BY <1>5, <2>1 DEF OneEach, Count
      <3>3. candidates'[m].byFile = candidates[m].byFile + new(m)
        BY <1>6
      <3>. QED
        BY <1>3, <3>1, <3>2, <3>3
    <2>. QED
      BY <2>2, <2>3 DEF UnseenAreNew, OneEach
  <1>8. ASSUME NEW m \in Mobile
        PROVE  candidates'[m].byFile + Cardinality(MayAdd(m)') <= Cardinality(Importer)
    <2>1. CASE m \in seen
      <3>1. MayAdd(m)' \subseteq MayAdd(m)
        BY <1>4 DEF MayAdd
      <3>2. candidates'[m].byFile = candidates[m].byFile /\ candidates[m].byFile \in Nat
        BY <1>3, <1>5, <1>6, <2>1 DEF Count
      <3>. QED
        BY <3>1, <3>2, RoomStays
    <2>2. CASE m \notin seen
      <3>. PICK S, T : S = MayAdd(m) /\ T = MayAdd(m)'
        OBVIOUS
      <3>1. i \in S /\ S \subseteq Importer /\ T = S \ {i}
        BY <1>1, <1>4, <2>2 DEF MayAdd
      <3>2. /\ Cardinality(S) \in Nat /\ Cardinality(Importer) \in Nat
            /\ Cardinality(T) = Cardinality(S) - 1
        BY <3>1, MayAddSize
      <3>3. candidates[m].byFile + Cardinality(S) <= Cardinality(Importer)
        BY DEF ImportsInv, RoomLeft
      <3>4. /\ candidates'[m].byFile = candidates[m].byFile + new(m)
            /\ new(m) \in {0, 1} /\ candidates[m].byFile \in Nat
        BY <1>3, <1>5, <1>6 DEF Count
      <3>. QED
        BY <3>2, <3>3, <3>4
    <2>. QED
      BY <2>1, <2>2
  <1>. QED
    BY <1>4, <1>6, <1>7, <1>8 DEF ImportsInv, ImportsTypeOK, RoomLeft

LEMMA ByHandPreserves ==
  ASSUME ImportsInv, NEW m \in Mobile,
         \/ CreateCandidate(m)
         \/ \E how \in {"byHand", "byFile"} :
              RemoveCandidate(m, how) \/ \E n \in Mobile : UpdateCandidate(m, how, n)
  PROVE  ImportsInv'
  <1>1. candidates[m] \in Count /\ UNCHANGED <<importing, overlapped>>
    BY DEF ImportsInv, ImportsTypeOK, CreateCandidate, RemoveCandidate, UpdateCandidate
  <1>2. ASSUME \A n \in Mobile, how \in {"byHand", "byFile"} : ~UpdateCandidate(m, how, n)
        PROVE  \E row \in Count : candidates' = [candidates EXCEPT ![m] = row] /\ row.byFile <= candidates[m].byFile
    <2>1. CASE CreateCandidate(m)
      <3>1. [candidates[m] EXCEPT !.byHand = @ + 1] \in Count
        BY <1>1 DEF Count
      <3>2. [candidates[m] EXCEPT !.byHand = @ + 1].byFile <= candidates[m].byFile
        BY <1>1 DEF Count
      <3>3. candidates' = [candidates EXCEPT ![m] = [candidates[m] EXCEPT !.byHand = @ + 1]]
        BY <2>1 DEF CreateCandidate, ImportsInv, ImportsTypeOK
      <3>. QED
        BY <3>1, <3>2, <3>3
    <2>2. CASE RemoveCandidate(m, "byHand")
      <3>1. candidates[m].byHand > 0
        BY <2>2 DEF RemoveCandidate
      <3>2. [candidates[m] EXCEPT !.byHand = @ - 1] \in Count
        BY <1>1, <3>1 DEF Count
      <3>3. [candidates[m] EXCEPT !.byHand = @ - 1].byFile <= candidates[m].byFile
        BY <1>1 DEF Count
      <3>4. candidates' = [candidates EXCEPT ![m] = [candidates[m] EXCEPT !.byHand = @ - 1]]
        BY <2>2 DEF RemoveCandidate, ImportsInv, ImportsTypeOK
      <3>. QED
        BY <3>2, <3>3, <3>4
    <2>3. CASE RemoveCandidate(m, "byFile")
      <3>1. candidates[m].byFile > 0
        BY <2>3 DEF RemoveCandidate
      <3>2. [candidates[m] EXCEPT !.byFile = @ - 1] \in Count
        BY <1>1, <3>1 DEF Count
      <3>3. [candidates[m] EXCEPT !.byFile = @ - 1].byFile <= candidates[m].byFile
        BY <1>1, <3>1 DEF Count
      <3>4. candidates' = [candidates EXCEPT ![m] = [candidates[m] EXCEPT !.byFile = @ - 1]]
        BY <2>3 DEF RemoveCandidate, ImportsInv, ImportsTypeOK
      <3>. QED
        BY <3>2, <3>3, <3>4
    <2>. QED
      BY <1>2, <2>1, <2>2, <2>3
  <1>u. ASSUME NEW n \in Mobile, NEW how \in {"byHand", "byFile"}, UpdateCandidate(m, how, n)
        PROVE  /\ candidates' \in [Mobile -> Count]
               /\ \A k \in Mobile : candidates'[k].byFile <= candidates[k].byFile
    <2>1. n # m /\ candidates[m][how] > 0 /\ candidates[n] \in Count
      BY <1>u DEF UpdateCandidate, ImportsInv, ImportsTypeOK
    <2>. DEFINE less == [candidates[m] EXCEPT ![how] = @ - 1]
                more == [candidates[n] EXCEPT !.byHand = @ + 1]
    <2>2. more \in Count /\ more.byFile = candidates[n].byFile
      BY <2>1 DEF Count
    <2>3. less \in Count /\ less.byFile <= candidates[m].byFile
      <3>1. CASE how = "byHand"
        BY <1>1, <2>1, <3>1 DEF Count
      <3>2. CASE how = "byFile"
        BY <1>1, <2>1, <3>2 DEF Count
      <3>. QED
        BY <3>1, <3>2
    <2>4. candidates' = [[candidates EXCEPT ![m] = less] EXCEPT ![n] = more]
      BY <1>u, <2>1 DEF UpdateCandidate, ImportsInv, ImportsTypeOK
    <2>. HIDE DEF less, more
    <2>5. \A k \in Mobile : candidates'[k] = IF k = n THEN more ELSE IF k = m THEN less
                                             ELSE candidates[k]
      BY <2>4 DEF ImportsInv, ImportsTypeOK
    <2>6. \A k \in Mobile : candidates[k] \in Count /\ candidates[k].byFile <= candidates[k].byFile
      BY DEF ImportsInv, ImportsTypeOK, Count
    <2>. QED
      BY <2>1, <2>2, <2>3, <2>4, <2>5, <2>6 DEF ImportsInv, ImportsTypeOK, Count
  <1>3. /\ candidates' \in [Mobile -> Count]
        /\ \A n \in Mobile : candidates'[n].byFile <= candidates[n].byFile
    BY <1>2, <1>u DEF ImportsInv, ImportsTypeOK, Count
  <1>4. \A n \in Mobile : candidates[n].byFile \in Nat /\ candidates'[n].byFile \in Nat
    BY <1>3 DEF ImportsInv, ImportsTypeOK, Count
  <1>5. RoomLeft'
    <2>1. \A n \in Mobile : MayAdd(n)' \subseteq MayAdd(n)
      BY <1>1 DEF MayAdd
    <2>. QED
      BY <1>3, <1>4, <2>1, RoomStays DEF RoomLeft
  <1>6. OneEach => OneEach'
    BY <1>3, <1>4 DEF OneEach
  <1>7. UnseenAreNew => UnseenAreNew'
    BY <1>1, <1>3, <1>4 DEF UnseenAreNew
  <1>. QED
    BY <1>1, <1>3, <1>5, <1>6, <1>7 DEF ImportsInv, ImportsTypeOK

LEMMA ImportsStep ==
  ASSUME ImportsInv, [HrNext]_importVars
  PROVE  ImportsInv'
  <1>1. ASSUME NEW i \in Importer, ImportFails(i) PROVE ImportsInv'
    <2>1. /\ importing' \in [Importer -> Import] /\ UNCHANGED <<candidates, overlapped>>
          /\ \A j \in Importer : importing'[j].at = "save" => importing'[j] = importing[j]
      BY <1>1, NoImportTyped DEF ImportFails, ImportsInv, ImportsTypeOK
    <2>2. \A m \in Mobile : MayAdd(m)' \subseteq MayAdd(m)
      BY <2>1 DEF MayAdd
    <2>3. \A m \in Mobile : candidates'[m].byFile = candidates[m].byFile /\ candidates[m].byFile \in Nat
      BY <2>1 DEF ImportsInv, ImportsTypeOK, Count
    <2>4. RoomLeft'
      BY <2>2, <2>3, RoomStays DEF RoomLeft
    <2>. QED
      BY <2>1, <2>4 DEF ImportsInv, ImportsTypeOK, UnseenAreNew, OneEach
  <1>2. CASE UNCHANGED importVars
    BY <1>2 DEF importVars, ImportsInv, ImportsTypeOK, RoomLeft, MayAdd, UnseenAreNew, OneEach
  <1>. QED
    BY <1>1, <1>2, ReadPreserves, SavePreserves, ByHandPreserves DEF HrNext

(* Whatever files name a number, once or more, whatever failed and was     *)
(* sent again, candidates being created, removed and given other numbers   *)
(* meanwhile (bulkImport, create, update, remove): a number has no more    *)
(* candidates from files than imports can run at once, and one at most if  *)
(* no two of them ran at once.                                             *)
THEOREM FilesImportOnce == HrSpec => []OneImportedPerNumber
  <1>1. ImportsInv => OneImportedPerNumber
    <2>. SUFFICES ASSUME ImportsInv, NEW m \in Mobile
                  PROVE  /\ candidates[m].byFile <= Cardinality(Importer)
                         /\ ~overlapped => candidates[m].byFile <= 1
      BY DEF OneImportedPerNumber
    <2>. PICK S : S = MayAdd(m)
      OBVIOUS
    <2>1. candidates[m].byFile \in Nat
      BY DEF ImportsInv, ImportsTypeOK, Count
    <2>2. S \subseteq Importer /\ candidates[m].byFile + Cardinality(S) <= Cardinality(Importer)
      BY DEF ImportsInv, RoomLeft, MayAdd
    <2>. QED
      BY <2>1, <2>2, MayAddSize DEF ImportsInv, OneEach
  <1>. QED
    BY <1>1, ImportsInitHolds, ImportsStep, PTL DEF HrSpec

==============================================================================
