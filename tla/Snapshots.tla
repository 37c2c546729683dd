----------------------------- MODULE Snapshots -----------------------------
(***************************************************************************)
(* Offline snapshots: `vm snapshot` and `vm restore` work on every qcow2   *)
(* image of a stopped VM, one `qemu-img snapshot` per image, and vm.json   *)
(* lists the tags.  A clone copies some images of its source, and with     *)
(* them the source's snapshots (cmd/vm/snapshot.go, cmd/vm/clone.go).      *)
(*                                                                         *)
(* One operation at a time works on a VM (withVMLock, see VMLifecycle), so *)
(* the control state is kept per VM.                                       *)
(***************************************************************************)
EXTENDS Naturals, Sequences

CONSTANTS
    VM,         \* VM names
    Disks,      \* images of a VM, in the order of imagesToSnapshot; 1 is the system disk
    Tag,        \* snapshot tags
    Faults,     \* "crash": the CLI is killed; "interrupt": Ctrl-C ends the context
                \* and every qemu-img run under it; "undo": a SnapDelete of the
                \* rollback fails; "save": vm.json cannot be written
    MaxWrites,  \* bound: how often guests run and write their disks
    MaxPoints,  \* bound: snapshots on one disk
    None

ASSUME DisksAssumption == Disks \in Nat \ {0}
ASSUME BoundAssumption == MaxWrites \in Nat /\ MaxPoints \in Nat
ASSUME FaultAssumption == Faults \subseteq {"crash", "interrupt", "undo", "save"}
ASSUME NoneAssumption == None \notin Tag

Disk == 1 .. Disks

VARIABLES
    content,  \* what each disk of each VM holds: 0 is the image, then the write that filled it
    points,   \* the internal snapshots of each disk, oldest first
    rec,      \* the Snapshots list of vm.json
    exists,   \* the VM has a vm.json
    clock,    \* writes so far
    pc, tag,  \* the operation under each VM's flock, and its tag
    at,       \* the disk it has reached
    created,  \* snapshotAllOrNothing: how many disks it tagged
    taken     \* history: the disks when the snapshot of a recorded tag succeeded

job == <<pc, tag, at, created>>
vars == <<content, points, rec, exists, clock, job, taken>>

Recorded(v) == {rec[v][i] : i \in 1 .. Len(rec[v])}

(* SnapExists; qemu-img works on the oldest snapshot of that name.           *)
HasTag(ps, t) == \E i \in 1 .. Len(ps) : ps[i].tag = t
Oldest(ps, t) == CHOOSE i \in 1 .. Len(ps) : ps[i].tag = t /\ \A j \in 1 .. i - 1 : ps[j].tag # t
Without(ps, i) == SubSeq(ps, 1, i - 1) \o SubSeq(ps, i + 1, Len(ps))

Goto(v, l, d) == pc' = [pc EXCEPT ![v] = l] /\ at' = [at EXCEPT ![v] = d]

Return(v) ==
    /\ Goto(v, "idle", 0)
    /\ tag' = [tag EXCEPT ![v] = None]
    /\ created' = [created EXCEPT ![v] = 0]

Init ==
    /\ content = [v \in VM |-> [d \in Disk |-> 0]]
    /\ points = [v \in VM |-> [d \in Disk |-> <<>>]]
    /\ rec = [v \in VM |-> <<>>] /\ exists = [v \in VM |-> FALSE]
    /\ clock = 0
    /\ pc = [v \in VM |-> "idle"] /\ tag = [v \in VM |-> None]
    /\ at = [v \in VM |-> 0] /\ created = [v \in VM |-> 0]
    /\ taken = [v \in VM |-> [t \in Tag |-> content[v]]]

-----------------------------------------------------------------------------
Create(v) ==
    /\ ~exists[v] /\ pc[v] = "idle"
    /\ exists' = [exists EXCEPT ![v] = TRUE]
    /\ UNCHANGED <<content, points, rec, clock, job, taken>>

(* start, some writes of the guest, stop.                                    *)
Use(v) ==
    /\ exists[v] /\ pc[v] = "idle" /\ clock < MaxWrites
    /\ clock' = clock + 1
    /\ content' = [content EXCEPT ![v] = [d \in Disk |-> clock']]
    /\ UNCHANGED <<points, rec, exists, job, taken>>

(* clone: a new overlay on the shared base, but whole files for the OVMF     *)
(* variables and the data disks.  Until saveRec there is only a stray dir,   *)
(* which the next create replaces.                                           *)
Clone(s, v) ==
    /\ exists[s] /\ pc[s] = "idle" /\ ~exists[v] /\ pc[v] = "idle"
    /\ content' = [content EXCEPT ![v] = [content[s] EXCEPT ![1] = 0]]
    /\ points' = [points EXCEPT ![v] = [points[s] EXCEPT ![1] = <<>>]]
    /\ exists' = [exists EXCEPT ![v] = TRUE]
    /\ UNCHANGED <<rec, clock, job, taken>>

-----------------------------------------------------------------------------
(* snapshot                                                                  *)

Snapshot(v) ==
    /\ exists[v] /\ pc[v] = "idle"
    /\ UNCHANGED <<content, points, rec, exists, clock, created, taken>>
    /\ \E t \in Tag :
        \/ /\ t \notin Recorded(v)
           /\ \A d \in Disk : Len(points[v][d]) < MaxPoints
           /\ tag' = [tag EXCEPT ![v] = t]
           /\ Goto(v, "create", 1)
        \/ /\ t \in Recorded(v)                            \* already has this snapshot
           /\ UNCHANGED <<pc, tag, at>>

Tagged(v) ==
    [points EXCEPT ![v][at[v]] = Append(@, [tag |-> tag[v], holds |-> content[v][at[v]]])]

(* SnapCreate on one image; the first failure starts the rollback.  One that *)
(* Ctrl-C kills may have written the tag.                                    *)
TagDisk_ignoresError(v) ==
    /\ pc[v] = "create"
    /\ points' \in {points, Tagged(v)}
    /\ created' = [created EXCEPT ![v] = at[v]]
    /\ IF at[v] = Disks THEN Goto(v, "save", 0) ELSE Goto(v, "create", at[v] + 1)
    /\ UNCHANGED <<content, rec, exists, clock, tag, taken>>
TagDisk(v) ==
    /\ pc[v] = "create"
    /\ UNCHANGED <<content, rec, exists, clock, tag, taken>>
    /\ \/ /\ points' = Tagged(v)
          /\ created' = [created EXCEPT ![v] = at[v]]
          /\ IF at[v] = Disks THEN Goto(v, "save", 0) ELSE Goto(v, "create", at[v] + 1)
       \/ /\ \/ UNCHANGED points
             \/ "interrupt" \in Faults /\ points' = Tagged(v)
          /\ Goto(v, "undo", 1)
          /\ UNCHANGED created

(* SnapDelete on every image tagged so far, under the same context; one that *)
(* fails is a warning.                                                       *)
Undo_keepsFirst(v) ==
    /\ pc[v] = "undo"
    /\ UNCHANGED <<content, rec, exists, clock, taken>>
    /\ \/ at[v] > created[v] /\ Return(v) /\ UNCHANGED points
       \/ /\ at[v] <= created[v]
          /\ points' = IF at[v] = 1 THEN points
                       ELSE [points EXCEPT ![v][at[v]] = Without(@, Oldest(@, tag[v]))]
          /\ Goto(v, "undo", at[v] + 1)
          /\ UNCHANGED <<tag, created>>
Undo(v) ==
    /\ pc[v] = "undo"
    /\ UNCHANGED <<content, rec, exists, clock, taken>>
    /\ \/ at[v] > created[v] /\ Return(v) /\ UNCHANGED points
       \/ /\ at[v] <= created[v]
          /\ \/ points' = [points EXCEPT ![v][at[v]] = Without(@, Oldest(@, tag[v]))]
             \/ Faults \cap {"undo", "interrupt"} # {} /\ UNCHANGED points
          /\ Goto(v, "undo", at[v] + 1)
          /\ UNCHANGED <<tag, created>>

Save(v) ==
    /\ pc[v] = "save"
    /\ UNCHANGED <<content, points, exists, clock>>
    /\ \/ /\ rec' = [rec EXCEPT ![v] = Append(@, tag[v])]
          /\ taken' = [taken EXCEPT ![v][tag[v]] = content[v]]
       \/ "save" \in Faults /\ UNCHANGED <<rec, taken>>
    /\ Return(v)

-----------------------------------------------------------------------------
(* restore                                                                   *)

(* The tag is the flag's or the newest recorded one.  SnapExists on every    *)
(* image comes before the first SnapApply and refuses, or fails.             *)
Restore_checksSystemDisk(v) ==
    /\ exists[v] /\ pc[v] = "idle"
    /\ \E t \in Tag :
        /\ HasTag(points[v][1], t)
        /\ tag' = [tag EXCEPT ![v] = t]
    /\ Goto(v, "apply", 1)
    /\ UNCHANGED <<content, points, rec, exists, clock, created, taken>>
Restore_emptyTag(v) ==
    /\ exists[v] /\ pc[v] = "idle"
    /\ UNCHANGED <<content, points, rec, exists, clock, created, taken>>
    /\ \E t \in Tag \cup {None} :
        /\ t = None => rec[v] = <<>>
        /\ t # None => \A d \in Disk : HasTag(points[v][d], t)
        /\ tag' = [tag EXCEPT ![v] = t]
    /\ Goto(v, "apply", 1)
Restore(v) ==
    /\ exists[v] /\ pc[v] = "idle"
    /\ UNCHANGED <<content, points, rec, exists, clock, created, taken>>
    /\ \/ /\ \E t \in Tag :
              /\ \A d \in Disk : HasTag(points[v][d], t)
              /\ tag' = [tag EXCEPT ![v] = t]
          /\ Goto(v, "apply", 1)
       \/ UNCHANGED <<pc, tag, at>>

Apply(v) ==
    /\ pc[v] = "apply"
    /\ UNCHANGED <<points, rec, exists, clock, created, taken>>
    /\ \/ /\ LET ps == points[v][at[v]] IN
             /\ HasTag(ps, tag[v])
             /\ content' = [content EXCEPT ![v][at[v]] = ps[Oldest(ps, tag[v])].holds]
          /\ IF at[v] = Disks THEN Goto(v, "resave", 0) ELSE Goto(v, "apply", at[v] + 1)
          /\ UNCHANGED tag
       \/ /\ Goto(v, "mixed", 0)                            \* failed mid-apply
          /\ UNCHANGED <<content, tag>>

(* saveRec of an unchanged list, or the error of a failed apply.             *)
EndRestore(v) ==
    /\ pc[v] \in {"resave", "mixed"}
    /\ Return(v)
    /\ UNCHANGED <<content, points, rec, exists, clock, taken>>

-----------------------------------------------------------------------------
Crash(v) ==
    /\ "crash" \in Faults /\ pc[v] # "idle"
    /\ Return(v)
    /\ UNCHANGED <<content, points, rec, exists, clock, taken>>

Next ==
    \E v \in VM :
        \/ Create(v) \/ Use(v) \/ \E s \in VM : Clone(s, v)
        \/ Snapshot(v) \/ TagDisk(v) \/ Undo(v) \/ Save(v)
        \/ Restore(v) \/ Apply(v) \/ EndRestore(v) \/ Crash(v)

Spec == Init /\ [][Next]_vars

-----------------------------------------------------------------------------
(* Properties                                                                *)

(* Every variable keeps its type (vm.json's snapshot list and the images).   *)
TypeOK ==
    /\ content \in [VM -> [Disk -> 0 .. MaxWrites]]
    /\ \A v \in VM : \A d \in Disk :
        points[v][d] \in Seq([tag : Tag, holds : 0 .. MaxWrites]) /\ Len(points[v][d]) <= MaxPoints
    /\ \A v \in VM : rec[v] \in Seq(Tag)
    /\ exists \in [VM -> BOOLEAN]
    /\ clock \in 0 .. MaxWrites
    /\ pc \in [VM -> {"idle", "create", "undo", "save", "apply", "resave", "mixed"}]
    /\ tag \in [VM -> Tag \cup {None}]
    /\ \A v \in VM : pc[v] # "idle" => tag[v] \in Tag
    /\ at \in [VM -> 0 .. Disks + 1]
    /\ created \in [VM -> 0 .. Disks]
    /\ taken \in [VM -> [Tag -> [Disk -> 0 .. MaxWrites]]]

(* Every tag vm.json lists is on every disk, whatever failed or died, so     *)
(* that a restore of a listed tag is never refused: snapshot.go:35-45.       *)
RecordedEverywhere ==
    \A v \in VM : \A t \in Recorded(v) : \A d \in Disk : HasTag(points[v][d], t)

(* A restore that succeeds leaves all disks as they were when the snapshot   *)
(* of that tag was taken: commands.go:88, "Revert a VM to a snapshot".       *)
RestoreReturnsToSnapshot ==
    \A v \in VM : pc[v] = "resave" /\ tag[v] \in Recorded(v) => content[v] = taken[v][tag[v]]

=============================================================================
