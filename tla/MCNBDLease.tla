---------------------------- MODULE MCNBDLease ----------------------------
(* NBDLease on small instances.                                              *)
EXTENDS NBDLease, TLC

(* CLIs and images are interchangeable, devices are ordered.                 *)
Symmetry == Permutations(Proc) \cup Permutations(Image)
=============================================================================
