---------------------------- MODULE LoggerDevices ----------------------------
(***************************************************************************)
(* The call logger's device secrets: registerDevice, revokeDevice and      *)
(* revokeAllUserDevices of contact-logs.service.ts, and the guard that     *)
(* admits a device (device-auth.guard.ts).                                 *)
(***************************************************************************)
EXTENDS Integers, Sequences

CONSTANTS
  User,
  Device,
  Holder,     \* [Device -> SUBSET User], who signs in on which phone
  MaxSecret,  \* bound on the secrets issued
  Nobody      \* no row, or no registration under way

ASSUME HolderAssumption == Holder \in [Device -> SUBSET User]
ASSUME MaxSecretAssumption == MaxSecret \in Nat
ASSUME NobodyAssumption == Nobody \notin User

VARIABLES
  active,  \* [User -> BOOLEAN]: users.is_active
  device,  \* [Device -> record]: logger_device_secrets, owner Nobody if no row
  enrol,   \* [Device -> User \cup {Nobody}]: registrations that hash their secret
  knock,   \* devices whose row the guard has read and found good
  issued,  \* [1..n -> User]: history, whom each secret was given to
  dead     \* history: secrets replaced, revoked, or ended by a password change

deviceVars == <<active, device, enrol, knock, issued, dead>>

NoDevice == [owner |-> Nobody, secret |-> 0, revoked |-> FALSE, expired |-> FALSE]

DevicesInit ==
  /\ active = [u \in User |-> TRUE]
  /\ device = [d \in Device |-> NoDevice]
  /\ enrol = [d \in Device |-> Nobody]
  /\ knock = {}
  /\ issued = <<>>
  /\ dead = {}

(* registerDevice: the check of the account, then a hash, then the upsert. *)
Register(d, u) ==
  /\ u \in Holder[d]
  /\ enrol[d] = Nobody
  /\ active[u]
  /\ Len(issued) < MaxSecret
  /\ enrol' = [enrol EXCEPT ![d] = u]
  /\ UNCHANGED <<device, knock, issued, dead>>
  /\ UNCHANGED active

(* ON DUPLICATE KEY UPDATE leaves user_id as it is.                        *)
Upserted(row, u, s) ==
  [owner |-> IF row.owner = Nobody THEN u ELSE row.owner, secret |-> s,
   revoked |-> FALSE, expired |-> FALSE]

Enrol(d) ==
  /\ enrol[d] # Nobody
  /\ issued' = Append(issued, enrol[d])
  /\ device' = [device EXCEPT ![d] = Upserted(@, enrol[d], Len(issued) + 1)]
  /\ dead' = IF device[d].owner = Nobody THEN dead ELSE dead \cup {device[d].secret}
  /\ enrol' = [enrol EXCEPT ![d] = Nobody]
  /\ UNCHANGED knock
  /\ UNCHANGED active

(* revokeDevice: by the owner or an admin; user_id never changes, so that  *)
(* the check holds when the UPDATE runs.                                   *)
RevokeDevice(d) ==
  /\ device[d].owner # Nobody
  /\ device' = [device EXCEPT ![d].revoked = TRUE]
  /\ dead' = dead \cup {device[d].secret}
  /\ UNCHANGED <<enrol, knock, issued>>
  /\ UNCHANGED active

(* Mutant: a device that has expired is passed over.                       *)
RevokeUnexpiredDevices(u) ==
  /\ device' = [d \in Device |-> IF device[d].owner = u /\ ~device[d].expired
                                   THEN [device[d] EXCEPT !.revoked = TRUE] ELSE device[d]]
  /\ dead' = dead \cup {s \in DOMAIN issued : issued[s] = u}
  /\ UNCHANGED <<active, enrol, knock, issued>>

(* update of users.service.ts, when it has saved a new password: it goes   *)
(* by the user_id of the rows, and is meant for every secret the user was  *)
(* given.                                                                  *)
RevokeAllUserDevices(u) ==
  /\ device' = [d \in Device |-> IF device[d].owner = u
                                   THEN [device[d] EXCEPT !.revoked = TRUE] ELSE device[d]]
  /\ dead' = dead \cup {s \in DOMAIN issued : issued[s] = u}
  /\ UNCHANGED <<active, enrol, knock, issued>>

(* An admin disables the account, or enables it again.                     *)
SetActive(u) ==
  /\ active' = [active EXCEPT ![u] = ~@]
  /\ UNCHANGED <<device, enrol, knock, issued, dead>>

Expire(d) ==
  /\ device[d].owner # Nobody
  /\ device' = [device EXCEPT ![d].expired = TRUE]
  /\ UNCHANGED <<enrol, knock, issued, dead>>
  /\ UNCHANGED active

(* DeviceAuthGuard.canActivate: the checks, on one read of the row, while  *)
(* the comparison of the hash takes its time; then the sliding expiry.     *)
Admits(row) ==
  /\ row.owner # Nobody
  /\ active[row.owner]
  /\ ~row.revoked
  /\ ~row.expired

Knock(d) ==
  /\ d \notin knock
  /\ Admits(device[d])
  /\ knock' = knock \cup {d}
  /\ UNCHANGED <<device, enrol, issued, dead>>
  /\ UNCHANGED active

Touch(d) ==
  /\ d \in knock
  /\ knock' = knock \ {d}
  /\ device' = [device EXCEPT ![d].expired = FALSE]
  /\ UNCHANGED <<enrol, issued, dead>>
  /\ UNCHANGED active

DevicesNext ==
  \/ \E u \in User : RevokeAllUserDevices(u) \/ SetActive(u)
  \/ \E d \in Device :
       Enrol(d) \/ RevokeDevice(d) \/ Expire(d) \/ Knock(d) \/ Touch(d)
         \/ \E u \in User : Register(d, u)

DevicesSpec == DevicesInit /\ [][DevicesNext]_deviceVars

-----------------------------------------------------------------------------

DevicesTypeOK ==
  /\ active \in [User -> BOOLEAN]
  /\ device \in [Device -> [owner : User \cup {Nobody}, secret : Nat,
                            revoked : BOOLEAN, expired : BOOLEAN]]
  /\ enrol \in [Device -> User \cup {Nobody}]
  /\ knock \subseteq Device
  /\ issued \in Seq(User)
  /\ dead \subseteq 1..Len(issued)

(* "Password change kills all device sessions" (users.service.ts), "all    *)
(* device secrets die" (contact-logs.service.ts): a secret that was        *)
(* rotated, revoked or ended by its user's password change opens no door   *)
(* again, whatever registration or request of the device was half way.     *)
DeadSecretsStayDead ==
  \A d \in Device : device[d].owner # Nobody /\ ~device[d].revoked
                      => device[d].secret \notin dead

=============================================================================
