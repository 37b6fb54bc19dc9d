------------------------------ MODULE Accounts ------------------------------
(***************************************************************************)
(* A staff account as admins edit it (users.service.ts, and                *)
(* setUserPermissions of permissions.service.ts).  No edit touches two.    *)
(*                                                                         *)
(* An edit reads the account, changes its copy and saves it: save reads    *)
(* the row again and UPDATEs the columns in which the copy differs.  The   *)
(* grants follow, and the revocation of the devices (LoggerDevices), each  *)
(* a statement of its own, in no transaction.                              *)
(***************************************************************************)
EXTENDS Naturals

CONSTANTS
  Admin,  \* bound: how many edits run at once
  Key,    \* permissions
  Edit,   \* the edits admins make
  Same    \* a field the body of a request leaves out

VARIABLES
  account,  \* its row of the users table
  grants,   \* its rows of user_permissions
  edit,     \* [Admin -> record]: the edits in flight
  last      \* history: the edit that ended last, until another begins

accountVars == <<account, grants, edit, last>>

(* A password is the number of times it was changed, up to parity.         *)
Account == [role : {"Admin", "Staff"}, department : BOOLEAN, active : BOOLEAN, password : 0..1]
AccountColumn == {"role", "department", "active", "password"}

AccountEdit == [role : {"Admin", "Staff", Same}, department : BOOLEAN \cup {Same},
                active : BOOLEAN \cup {Same}, password : BOOLEAN,
                keys : {Same} \cup {{}} \cup {{k} : k \in Key}]
ASSUME EditAssumption == Edit \subseteq AccountEdit

NoEdit == [at |-> "idle"]
NewAccount == [role |-> "Staff", department |-> TRUE, active |-> TRUE, password |-> 0]
NoWord == [alone |-> FALSE, ended |-> "done", was |-> NewAccount, now |-> NewAccount,
           had |-> {}, gave |-> {}]

AccountsInit ==
  /\ account = NewAccount
  /\ grants = {}
  /\ edit = [a \in Admin |-> NoEdit]
  /\ last = NoWord

-----------------------------------------------------------------------------

Given(field, old) == IF field = Same THEN old ELSE field

(* validateRoleDepartment, where it does not throw.                        *)
DepartmentFor(role, department) == role = "Staff" /\ department

MissesDepartment(role, department) == role = "Staff" /\ ~department

Edited(row, e) ==
  [role |-> Given(e.role, row.role),
   department |-> DepartmentFor(Given(e.role, row.role), Given(e.department, row.department)),
   active |-> Given(e.active, row.active),
   password |-> IF e.password THEN 1 - row.password ELSE row.password]

Editing == {a \in Admin : edit[a].at # "idle"}

(* Another edit, under way or begun later, is company; where an edit       *)
(* started from matters to one that is alone.                              *)
Accompanied(e) == [e EXCEPT !.alone = FALSE, !.was = NewAccount, !.had = {}]

Open(a, copy, e) ==
  LET begun == [at |-> "save", copy |-> copy, dirty |-> {}, edit |-> e,
                alone |-> TRUE, was |-> account, had |-> grants]
  IN /\ edit[a].at = "idle"
     /\ edit' = [b \in Admin |->
          IF b = a THEN IF Editing = {} THEN begun ELSE Accompanied(begun)
          ELSE IF b \in Editing THEN Accompanied(edit[b])
          ELSE edit[b]]
     /\ last' = NoWord
     /\ UNCHANGED <<account, grants>>

Update(a, e) ==
  /\ ~MissesDepartment(Given(e.role, account.role), Given(e.department, account.department))
  /\ Open(a, Edited(account, e), e)

(* delete: a soft one, which saves the account it read.                    *)
Disable(a) ==
  Open(a, [account EXCEPT !.active = FALSE],
       [role |-> Same, department |-> Same, active |-> FALSE, password |-> FALSE,
        keys |-> Same])

Ended(a, how) ==
  LET e == edit[a] IN
  /\ last' = IF e.alone THEN [alone |-> TRUE, ended |-> how, was |-> e.was, now |-> e.copy,
                              had |-> e.had, gave |-> Given(e.edit.keys, e.had)]
             ELSE NoWord
  /\ edit' = [edit EXCEPT ![a] = NoEdit]

(* What remains of an edit: the grants, then the devices, then nothing.    *)
Continue(a, done) ==
  LET e == edit[a].edit
      next == IF done = "saved" /\ e.keys # Same THEN "clear"
              ELSE IF done = "cleared" /\ e.keys # {} THEN "grant"
              ELSE IF e.password THEN "revoke" ELSE "end"
  IN IF next = "end" THEN Ended(a, "done")
     ELSE edit' = [edit EXCEPT ![a].at = next] /\ UNCHANGED last

(* save's own read.                                                        *)
Save(a) ==
  /\ edit[a].at = "save"
  /\ edit' = [edit EXCEPT ![a].at = "write",
       ![a].dirty = {c \in AccountColumn : edit[a].copy[c] # account[c]}]
  /\ UNCHANGED <<account, grants, last>>

Write(a) ==
  /\ edit[a].at = "write"
  /\ account' = [c \in AccountColumn |->
                   IF c \in edit[a].dirty THEN edit[a].copy[c] ELSE account[c]]
  /\ Continue(a, "saved")
  /\ UNCHANGED grants

(* Mutant: the grants there are are not deleted.                           *)
ClearsNothing(a) ==
  /\ edit[a].at = "clear"
  /\ Continue(a, "cleared")
  /\ UNCHANGED <<account, grants>>

(* setUserPermissions: delete, then save.                                  *)
ClearGrants(a) ==
  /\ edit[a].at = "clear"
  /\ grants' = {}
  /\ Continue(a, "cleared")
  /\ UNCHANGED account

Grant(a) ==
  /\ edit[a].at = "grant"
  /\ grants' = grants \cup edit[a].edit.keys
  /\ Continue(a, "granted")
  /\ UNCHANGED account

RevokeDevices(a) ==
  /\ edit[a].at = "revoke"
  /\ Ended(a, "done")
  /\ UNCHANGED <<account, grants>>

EditCrash(a) ==
  /\ edit[a].at # "idle"
  /\ Ended(a, "crashed")
  /\ UNCHANGED <<account, grants>>

AccountsNext ==
  \E a \in Admin :
    \/ Disable(a) \/ \E e \in Edit : Update(a, e)
    \/ Save(a) \/ Write(a) \/ ClearGrants(a) \/ Grant(a) \/ RevokeDevices(a) \/ EditCrash(a)

AccountsSpec == AccountsInit /\ [][AccountsNext]_accountVars

-----------------------------------------------------------------------------

(* An edit that no other overlaps and that does not crash takes effect as  *)
(* a whole; one that crashes leaves the account as it was or as asked, and *)
(* its grants as they were, as asked, or gone.  No stale copy, dirty       *)
(* column or half-written grant of an earlier edit shows through.          *)
EditsTakeEffect ==
  Editing = {} /\ last.alone =>
    /\ account \in {last.now} \cup (IF last.ended = "done" THEN {} ELSE {last.was})
    /\ grants \in {last.gave} \cup (IF last.ended = "done" THEN {} ELSE {last.had, {}})

=============================================================================
