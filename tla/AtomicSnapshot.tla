--------------------------- MODULE AtomicSnapshot ---------------------------
(***************************************************************************)
(* What `vm snapshot` and `vm restore` promise of stopped VMs: all images  *)
(* of a VM are one state, a tag names one such state, and a snapshot or a  *)
(* restore that fails before the first revert has changed nothing.  A tag  *)
(* that an earlier failure left on some images, or that a clone's copied   *)
(* images brought along, is Spoiled: what a snapshot or a restore of it    *)
(* does, nobody knows.  The other tags and the disks do not suffer by it.  *)
(* Snapshots implements this with one qemu-img run per image.              *)
(***************************************************************************)
CONSTANTS
    VM, Tag, State, None, Spoiled,
    CleanFailures   \* a snapshot that fails always takes its tags back

VARIABLES
    disks,      \* what the images of each VM hold, or None before it exists
    saved,      \* the state of each tag, or None, or Spoiled
    restoring   \* the tag a restore has begun to bring back, or None

vars == <<disks, saved, restoring>>

Init ==
    /\ disks = [v \in VM |-> None]
    /\ saved = [v \in VM |-> [t \in Tag |-> None]]
    /\ restoring = [v \in VM |-> None]

Ready(v) == disks[v] # None /\ restoring[v] = None
Becomes(v, d) == d \in State /\ disks' = [disks EXCEPT ![v] = d]

(* T is what a clone's images bring along, and empty for create and run.     *)
Create(v, T) ==
    /\ disks[v] = None
    /\ Becomes(v, disks'[v])
    /\ saved' = [saved EXCEPT ![v] = [t \in Tag |-> IF t \in T THEN Spoiled ELSE None]]
    /\ UNCHANGED restoring

(* The guest runs; it does not while a restore is under way.                 *)
Write(v) ==
    /\ Ready(v)
    /\ Becomes(v, disks'[v])
    /\ UNCHANGED <<saved, restoring>>

Snapshot(v, t) ==
    /\ Ready(v)
    /\ \E s \in State :
        /\ saved[v][t] = Spoiled \/ (saved[v][t] = None /\ s = disks[v])
        /\ saved' = [saved EXCEPT ![v][t] = s]
    /\ UNCHANGED <<disks, restoring>>

(* A snapshot fails and leaves its tag somewhere.                            *)
Spoil(v, t) ==
    /\ ~CleanFailures /\ Ready(v)
    /\ saved[v][t] = None
    /\ saved' = [saved EXCEPT ![v][t] = Spoiled]
    /\ UNCHANGED <<disks, restoring>>

Restore(v, t) ==
    /\ Ready(v)
    /\ \E s \in State :
        /\ saved[v][t] \in {s, Spoiled}
        /\ Becomes(v, s)
    /\ \E r \in {t, None} : restoring' = [restoring EXCEPT ![v] = r]
    /\ UNCHANGED saved

Done(v) ==
    /\ restoring[v] # None /\ restoring' = [restoring EXCEPT ![v] = None]
    /\ UNCHANGED <<disks, saved>>

(* The one thing that is not atomic, and is reported: an image cannot be     *)
(* reverted (snapshot.go:111, "disks may be inconsistent").                  *)
Break(v) ==
    /\ restoring[v] # None /\ restoring' = [restoring EXCEPT ![v] = None]
    /\ Becomes(v, disks'[v])
    /\ UNCHANGED saved

Next ==
    \E v \in VM :
        \/ \E T \in SUBSET Tag : Create(v, T)
        \/ Write(v) \/ Done(v) \/ Break(v)
        \/ \E t \in Tag : Snapshot(v, t) \/ Spoil(v, t) \/ Restore(v, t)

Spec == Init /\ [][Next]_vars
=============================================================================
