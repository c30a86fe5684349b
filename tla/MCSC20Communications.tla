------------------------ MODULE MCSC20Communications ------------------------
(* Instances of SC20Communications for TLC.                                *)
EXTENDS SC20Communications, TLC

Symmetry == Permutations(Runs) \cup Permutations(Certificates)
=============================================================================
