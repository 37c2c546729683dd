--------------------------- MODULE SnapshotRefinement ---------------------------
(***************************************************************************)
(* Snapshots, with one qemu-img run per image, implements AtomicSnapshot.  *)
(*                                                                         *)
(* A restore has happened as soon as it has reverted its first disk, and a *)
(* snapshot when vm.json lists it.  A tag is spoiled once an image carries *)
(* it that vm.json does not list and no snapshot is about to list or to    *)
(* take back; listing it later makes some state of it.                     *)
(***************************************************************************)
EXTENDS Snapshots

reverting == {v \in VM : pc[v] = "apply" /\ at[v] > 1}

(* The disks whose newest snapshot the one under way has made.               *)
Made(v) == {d \in Disk : d <= created[v] /\ (pc[v] = "undo" => at[v] <= d)}

(* What the disks hold under each tag.                                       *)
held ==
    [v \in VM |-> [t \in Tag |-> [d \in Disk |->
        IF HasTag(points[v][d], t)
        THEN points[v][d][Oldest(points[v][d], t)].holds ELSE None]]]
stray ==
    [v \in VM |-> {t \in Tag : \E d \in Disk : \E i \in 1 .. Len(points[v][d]) :
                                  /\ points[v][d][i].tag = t
                                  /\ ~(i = Len(points[v][d]) /\ d \in Made(v))}]

Contents == [Disk -> 0 .. MaxWrites]
ASSUME ContentsAssumption == None \notin Contents

Atomic == INSTANCE AtomicSnapshot WITH
    State <- Contents,
    Spoiled <- << >>,
    CleanFailures <- Faults = {},
    disks <- [v \in VM |-> IF ~exists[v] THEN None
                           ELSE IF v \in reverting THEN held[v][tag[v]] ELSE content[v]],
    saved <- [v \in VM |-> [t \in Tag |-> IF t \in Recorded(v) THEN held[v][t]
                                         ELSE IF t \in stray[v] THEN << >> ELSE None]],
    restoring <- [v \in VM |-> IF v \in reverting THEN tag[v] ELSE None]

(* Whatever fails, a tag that vm.json lists names one state of the whole VM, *)
(* and a restore of it that ends well brings the whole VM back to that state *)
(* (commands.go:88, "Revert a VM to a snapshot").  It is the state in which  *)
(* the snapshot was taken, unless an earlier failure or a clone left the tag *)
(* on an image.  Where only SnapCreate and SnapApply fail (Faults = {}), a   *)
(* snapshot that fails leaves no tag (snapshot.go:129, "tags every image or  *)
(* rolls back the ones already tagged").  A SnapDelete that fails is only    *)
(* logged and leaves one, so with other faults this is not promised.         *)
SnapshotsAtomic == Atomic!Spec
=============================================================================
