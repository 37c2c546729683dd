---------------------------- MODULE MCSnapshots ----------------------------
(* Snapshots on small instances.                                             *)
EXTENDS SnapshotRefinement, TLC

(* VM names and tags are interchangeable.                                    *)
Symmetry == Permutations(VM) \cup Permutations(Tag)
=============================================================================
