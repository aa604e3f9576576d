---------------------------- MODULE MCInstaller ----------------------------
(* Installer on small sets; the cfg file gives the constants.              *)
EXTENDS Installer, TLC

Symmetry == Permutations(Runs)
=============================================================================
