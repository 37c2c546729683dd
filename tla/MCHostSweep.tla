---------------------------- MODULE MCHostSweep ----------------------------
(* HostSweep on small instances.                                             *)
EXTENDS HostSweep, TLC

(* Processes and VMIDs are interchangeable, names are ordered; used by       *)
(* safety runs only.                                                         *)
Symmetry == Permutations(Proc) \cup Permutations(Id)
=============================================================================
