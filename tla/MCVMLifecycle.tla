--------------------------- MODULE MCVMLifecycle ---------------------------
(* VMLifecycle on small instances.                                           *)
EXTENDS VMLifecycle, TLC

(* Processes and pids are interchangeable; used by safety runs only.         *)
Symmetry == Permutations(Proc) \cup Permutations(Pid)
=============================================================================
