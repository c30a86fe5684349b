---------------------------- MODULE MCSC04Triage ----------------------------
(* Instances of SC04Triage for TLC.                                        *)
EXTENDS SC04Triage

TwoDocuments == <<"a", "b">>
=============================================================================
