------------------------------ MODULE HrImport ------------------------------
(***************************************************************************)
(* HR candidates come in by spreadsheet (bulkImport of hr.service.ts) and  *)
(* one by one (create); an edit may give one another number (update).  The *)
(* import looks for the numbers it already has; no unique key does.        *)
(***************************************************************************)
EXTENDS Naturals, Sequences, FiniteSets

CONSTANTS
  Mobile,    \* normalised numbers
  MaxRows,   \* bound on the rows of a file
  Importer,  \* bound: how many imports run at once
  MaxByHand  \* bound on the candidates created one by one

ASSUME MaxRowsAssumption == MaxRows \in Nat
ASSUME ImporterAssumption == IsFiniteSet(Importer)
ASSUME MaxByHandAssumption == MaxByHand \in Nat

VARIABLES
  candidates,  \* [Mobile -> [byHand, byFile : Nat]]: how many have the number, and
               \* whether staff or a file gave it to them
  importing,   \* [Importer -> record]: imports under way
  overlapped   \* history: an import ended while another was under way

importVars == <<candidates, importing, overlapped>>

File == UNION {[1..n -> Mobile] : n \in 1..MaxRows}

NoImport == [at |-> "idle", rows |-> <<>>, seen |-> {}]

HrInit ==
  /\ candidates = [m \in Mobile |-> [byHand |-> 0, byFile |-> 0]]
  /\ importing = [i \in Importer |-> NoImport]
  /\ overlapped = FALSE

-----------------------------------------------------------------------------

UnderWay(S) == \E i \in S : importing[i].at # "idle"

Has(m) == candidates[m].byHand + candidates[m].byFile > 0

(* The existing candidates are read in the transaction that adds the new.  *)
ReadExisting(i, rows) ==
  /\ importing[i].at = "idle"
  /\ importing' = [importing EXCEPT
       ![i] = [at |-> "save", rows |-> rows, seen |-> {m \in Mobile : Has(m)}]]
  /\ UNCHANGED <<candidates, overlapped>>

(* Mutant: the file is not compared with itself.                           *)
FreshToTheTable(rows, seen) == {r \in DOMAIN rows : rows[r] \notin seen}

(* The rows whose number was not seen, nor comes earlier in the file.      *)
FreshRows(rows, seen) ==
  {r \in DOMAIN rows : rows[r] \notin seen /\ \A q \in 1..(r - 1) : rows[q] # rows[r]}

SaveFresh(i) ==
  LET rows  == importing[i].rows
      fresh == FreshRows(rows, importing[i].seen)
  IN /\ importing[i].at = "save"
     /\ candidates' = [m \in Mobile |-> [candidates[m] EXCEPT
          !.byFile = @ + Cardinality({r \in fresh : rows[r] = m})]]
     /\ overlapped' = (overlapped \/ UnderWay(Importer \ {i}))
     /\ importing' = [importing EXCEPT ![i] = NoImport]

(* Rolled back; the file may be sent again.                                *)
ImportFails(i) ==
  /\ importing[i].at = "save"
  /\ importing' = [importing EXCEPT ![i] = NoImport]
  /\ UNCHANGED <<candidates, overlapped>>

CreateCandidate(m) ==
  /\ candidates[m].byHand < MaxByHand
  /\ candidates' = [candidates EXCEPT ![m].byHand = @ + 1]
  /\ UNCHANGED <<importing, overlapped>>

(* One UPDATE, whoever else has the number.                                *)
UpdateCandidate(m, how, n) ==
  /\ candidates[m][how] > 0 /\ n # m
  /\ candidates[n].byHand < MaxByHand
  /\ candidates' = [candidates EXCEPT ![m][how] = @ - 1, ![n].byHand = @ + 1]
  /\ UNCHANGED <<importing, overlapped>>

RemoveCandidate(m, how) ==
  /\ candidates[m][how] > 0
  /\ candidates' = [candidates EXCEPT ![m][how] = @ - 1]
  /\ UNCHANGED <<importing, overlapped>>

HrNext ==
  \/ \E i \in Importer : SaveFresh(i) \/ ImportFails(i) \/ \E rows \in File : ReadExisting(i, rows)
  \/ \E m \in Mobile :
       \/ CreateCandidate(m)
       \/ \E how \in {"byHand", "byFile"} :
            RemoveCandidate(m, how) \/ \E n \in Mobile : UpdateCandidate(m, how, n)

HrSpec == HrInit /\ [][HrNext]_importVars

-----------------------------------------------------------------------------

(* Whatever files name a number, once or more, whatever failed and was     *)
(* sent again, and whoever is created, removed or given another number     *)
(* meanwhile: no more candidates have the number from files than imports   *)
(* can run at once, and no more than one if they ran one after the other.  *)
OneImportedPerNumber ==
  \A m \in Mobile : /\ candidates[m].byFile <= Cardinality(Importer)
                    /\ ~overlapped => candidates[m].byFile <= 1

=============================================================================
