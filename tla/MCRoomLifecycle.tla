-------------------------- MODULE MCRoomLifecycle --------------------------
(* RoomLifecycle on small sets; the cfg files give the constants.          *)
EXTENDS RoomLifecycle, TLC

Symmetry == Permutations(Requests) \cup Permutations(Participants)
=============================================================================
