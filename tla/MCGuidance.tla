----------------------------- MODULE MCGuidance -----------------------------
(* Guidance on a small instance; the cfg files give the constants.         *)
EXTENDS Guidance, TLC
=============================================================================
