----------------------------- MODULE MCDelivery -----------------------------
(* Delivery on small sets; the cfg files give the constants.               *)
EXTENDS Delivery, TLC

Symmetry == Permutations(Participants) \cup Permutations(Requests) \cup Permutations(Waits)
=============================================================================
