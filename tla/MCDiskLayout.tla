---------------------------- MODULE MCDiskLayout ----------------------------
(* DiskLayout on small instances.                                            *)
EXTENDS DiskLayout

CONSTANTS b1, b2, f

(* --storage 2 fits the first blob and would shrink the second.              *)
MCSizeOf == (b1 :> 1) @@ (b2 :> 3) @@ (f :> 1)

(* No disk, one, two, and an automatic name before an explicit data1; clones *)
(* of clones add up to the limit of four.                                    *)
MCSpecLists == {<< >>, <<Unnamed>>, <<Unnamed, 1>>, <<2>>}

Symmetry == Permutations(VM) \cup Permutations(Ident)
=============================================================================
