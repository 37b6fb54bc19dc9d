-------------------------- MODULE MCEnquiryEvents --------------------------
(* Instances of EnquiryEvents for TLC. *)
EXTENDS EnquiryEvents, TLC

Symmetry == Permutations(LeadId) \union Permutations(Mobile)
=============================================================================
