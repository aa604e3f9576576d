------------------------------ MODULE MCRoster ------------------------------
(* Roster on small sets; Roster.cfg gives the constants.                   *)
EXTENDS Roster, TLC

Symmetry == Permutations(Requests) \cup Permutations(Idents)
              \cup Permutations(Handles) \cup Permutations(Waits)
=============================================================================
