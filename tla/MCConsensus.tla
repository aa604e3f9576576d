---------------------------- MODULE MCConsensus ----------------------------
(* Consensus on small sets; the cfg files give the constants.              *)
EXTENDS Consensus, TLC

Symmetry == Permutations(Participants) \cup Permutations(Requests)
=============================================================================
