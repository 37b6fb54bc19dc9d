--------------------------- MODULE MCLeadRouting ---------------------------
(* Instances of LeadRouting for TLC. *)
EXTENDS LeadRouting, TLC

Symmetry == Permutations(Staff) \union Permutations(Request)
=============================================================================
