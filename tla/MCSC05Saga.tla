----------------------------- MODULE MCSC05Saga -----------------------------
(* Instances of SC05Saga for TLC.                                          *)
EXTENDS SC05Saga, TLC

TaskSymmetry == Permutations(Tasks)
=============================================================================
