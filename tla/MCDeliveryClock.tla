--------------------------- MODULE MCDeliveryClock ---------------------------
(* An instance of DeliveryClock for TLC.                                   *)
EXTENDS DeliveryClock, TLC

WorkerSymmetry == Permutations(Workers)
=============================================================================
