--------------------------- MODULE SnapshotsProofs ---------------------------
(***************************************************************************)
(* Theorems about Snapshots, for any number of VMs and disks, any tags and *)
(* any faults: what vm.json lists is on every disk, and Snapshots          *)
(* implements AtomicSnapshot.                                              *)
(*                                                                         *)
(* SnapInv is inductive.  It follows one snapshot or restore over the      *)
(* disks: which of them carry the tag by now, and that a tag about to be   *)
(* taken back is not one that vm.json lists.  HalfInv adds what such an    *)
(* operation has left on the images so far: the snapshots it has made hold *)
(* what the images hold, and the images it has reverted hold what the tag  *)
(* saved.  The steps that AtomicSnapshot sees are then the save of the     *)
(* record, the first and the last image of a restore, and the failures     *)
(* that leave a tag or a mixture behind.                                   *)
(***************************************************************************)
EXTENDS SnapshotRefinement, SequenceTheorems, WellFoundedInduction, TLAPS

Point == [tag : Tag, holds : 0 .. MaxWrites]

(* The types in two halves, and that images and records are kept per VM.     *)
Labels == {"idle", "create", "undo", "save", "apply", "resave", "mixed"}
ControlTypes ==
    /\ pc \in [VM -> Labels] /\ tag \in [VM -> Tag \cup {None}]
    /\ \A v \in VM : pc[v] # "idle" => tag[v] \in Tag
    /\ at \in [VM -> 0 .. Disks + 1] /\ created \in [VM -> 0 .. Disks]
DataTypes ==
    /\ content \in [VM -> [Disk -> 0 .. MaxWrites]]
    /\ points \in [VM -> [Disk -> Seq(Point)]]
    /\ \A v \in VM : \A d \in Disk : Len(points[v][d]) <= MaxPoints
    /\ rec \in [VM -> Seq(Tag)] /\ exists \in [VM -> BOOLEAN] /\ clock \in 0 .. MaxWrites
    /\ taken \in [VM -> [Tag -> [Disk -> 0 .. MaxWrites]]]

On(v, d) == HasTag(points[v][d], tag[v])

Listed(v) == \A t \in Recorded(v) : \A d \in Disk : HasTag(points[v][d], t)

Tagging == {"create", "undo", "save"}

Sound(v) ==
    /\ Listed(v)
    /\ ~exists[v] => pc[v] = "idle" /\ rec[v] = << >>
    /\ pc[v] \notin Tagging => created[v] = 0
    /\ pc[v] \in Tagging => tag[v] \notin Recorded(v)
    /\ pc[v] = "create" =>
        /\ at[v] \in Disk /\ created[v] = at[v] - 1
        /\ \A d \in Disk : d < at[v] => On(v, d)
        /\ \A d \in Disk : d >= at[v] => Len(points[v][d]) < MaxPoints
    /\ pc[v] = "undo" =>
        at[v] >= 1 /\ \A d \in Disk : d >= at[v] /\ d <= created[v] => On(v, d)
    /\ pc[v] = "save" => created[v] = Disks /\ \A d \in Disk : On(v, d)
    /\ pc[v] = "apply" => at[v] \in Disk /\ \A d \in Disk : On(v, d)

SnapInv == ControlTypes /\ DataTypes /\ \A v \in VM : Sound(v)

-----------------------------------------------------------------------------
(* One image of one VM changes.                                              *)
LEMMA Update2 ==
    ASSUME NEW A, NEW B, NEW S, NEW f \in [A -> [B -> S]], NEW a \in A, NEW b \in B, NEW x \in S,
           NEW g, g = [f EXCEPT ![a][b] = x]
    PROVE  /\ g \in [A -> [B -> S]] /\ g[a][b] = x
           /\ \A c \in B : c # b => g[a][c] = f[a][c]
           /\ \A c \in A : c # a => g[c] = f[c]
OBVIOUS

(* Snapshots on one image                                                    *)

(* qemu-img works on the oldest of the snapshots that carry the tag.         *)
LEMMA OldestPoint ==
    ASSUME NEW ps \in Seq(Point), NEW t, HasTag(ps, t)
    PROVE  /\ Oldest(ps, t) \in 1 .. Len(ps)
           /\ ps[Oldest(ps, t)].tag = t
           /\ \A j \in 1 .. Oldest(ps, t) - 1 : ps[j].tag # t
<1> DEFINE T == {i \in 1 .. Len(ps) : ps[i].tag = t}
           R == {ss \in Nat \X Nat : ss[1] < ss[2]}
<1>1. T \subseteq Nat /\ T # {}
  BY DEF HasTag
<1>2. IsWellFoundedOn(R, Nat)
  BY NatLessThanWellFounded DEF OpToRel
<1>3. PICK i \in T : \A j \in T : ~ (<<j, i>> \in R)
  <2> HIDE DEF T, R
  <2> QED
    BY <1>1, <1>2, WFMin
<1>4. Len(ps) \in Nat
  BY LenProperties
<1>5. \A j \in 1 .. i - 1 : ps[j].tag # t
  <2>1. i \in 1 .. Len(ps) /\ ps[i].tag = t
    BY <1>3
  <2>2. ASSUME NEW j \in 1 .. i - 1, ps[j].tag = t PROVE FALSE
    <3>1. j \in T /\ j < i
      BY <1>4, <2>1, <2>2
    <3> QED
      BY <1>1, <1>3, <3>1
  <2> QED
    BY <2>2
<1> QED
  BY <1>3, <1>5 DEF Oldest

(* SnapCreate adds one snapshot, and keeps the others.                       *)
LEMMA AppendPoint ==
    ASSUME NEW ps \in Seq(Point), NEW x \in Point
    PROVE  /\ Append(ps, x) \in Seq(Point) /\ Len(Append(ps, x)) = Len(ps) + 1
           /\ \A t : HasTag(Append(ps, x), t) <=> HasTag(ps, t) \/ t = x.tag
<1>1. /\ Append(ps, x) \in Seq(Point) /\ Len(Append(ps, x)) = Len(ps) + 1 /\ Len(ps) \in Nat
      /\ \A i \in 1 .. Len(ps) : Append(ps, x)[i] = ps[i]
      /\ Append(ps, x)[Len(ps) + 1] = x
  BY AppendProperties, LenProperties
<1> QED
  BY <1>1 DEF HasTag

(* SnapDelete removes one snapshot, and keeps the others in their order.     *)
LEMMA WithoutPoint ==
    ASSUME NEW ps \in Seq(Point), NEW i \in 1 .. Len(ps)
    PROVE  /\ Without(ps, i) \in Seq(Point) /\ Len(Without(ps, i)) = Len(ps) - 1
           /\ \A j \in 1 .. Len(ps) - 1 : Without(ps, i)[j] = IF j < i THEN ps[j] ELSE ps[j + 1]
<1> DEFINE a == SubSeq(ps, 1, i - 1)
           b == SubSeq(ps, i + 1, Len(ps))
<1>0. Len(ps) \in Nat
  BY LenProperties
<1>1. a \in Seq(Point) /\ Len(a) = i - 1 /\ \A j \in 1 .. i - 1 : a[j] = ps[j]
  BY <1>0, SubSeqProperties
<1>2. b \in Seq(Point) /\ Len(b) = Len(ps) - i /\ \A j \in 1 .. Len(ps) - i : b[j] = ps[i + j]
  BY <1>0, SubSeqProperties
<1> HIDE DEF a, b
<1>3. /\ a \o b \in Seq(Point) /\ Len(a \o b) = Len(a) + Len(b)
      /\ \A j \in 1 .. Len(a) + Len(b) :
            (a \o b)[j] = IF j <= Len(a) THEN a[j] ELSE b[j - Len(a)]
  BY <1>1, <1>2, ConcatProperties
<1>4. Without(ps, i) = a \o b
  BY DEF Without, a, b
<1>5. ASSUME NEW j \in 1 .. Len(ps) - 1
      PROVE  Without(ps, i)[j] = IF j < i THEN ps[j] ELSE ps[j + 1]
  <2>1. CASE j < i
    BY <1>0, <1>1, <1>2, <1>3, <1>4, <2>1
  <2>2. CASE j >= i
    <3>1. j - Len(a) \in 1 .. Len(ps) - i /\ i + (j - Len(a)) = j + 1
      BY <1>0, <1>1, <2>2
    <3> QED
      <4>1. b[j - Len(a)] = ps[j + 1]
        BY <1>2, <3>1
      <4> QED
        BY <1>0, <1>1, <1>2, <1>3, <1>4, <2>2, <4>1
  <2> QED
    BY <1>0, <2>1, <2>2
<1>6. Without(ps, i) \in Seq(Point) /\ Len(Without(ps, i)) = Len(ps) - 1
  BY <1>0, <1>1, <1>2, <1>3, <1>4
<1> QED
  BY <1>5, <1>6

(* The other tags stay.                                                      *)
LEMMA WithoutTag ==
    ASSUME NEW ps \in Seq(Point), NEW s, HasTag(ps, s), NEW t, t # s, HasTag(ps, t)
    PROVE  HasTag(Without(ps, Oldest(ps, s)), t)
<1> DEFINE i == Oldest(ps, s)
<1>1. i \in 1 .. Len(ps) /\ ps[i].tag = s
  BY OldestPoint
<1>2. PICK j \in 1 .. Len(ps) : ps[j].tag = t
  BY DEF HasTag
<1> HIDE DEF i
<1>3. Len(ps) \in Nat
  BY LenProperties
<1>4. /\ Len(Without(ps, i)) = Len(ps) - 1
      /\ \A k \in 1 .. Len(ps) - 1 : Without(ps, i)[k] = IF k < i THEN ps[k] ELSE ps[k + 1]
  BY <1>1, WithoutPoint
<1>5. CASE j < i
  <2>1. j \in 1 .. Len(Without(ps, i)) /\ Without(ps, i)[j] = ps[j]
    BY <1>1, <1>2, <1>3, <1>4, <1>5
  <2> QED
    BY <1>2, <2>1 DEF HasTag, i
<1>6. CASE j > i
  <2>1. j - 1 \in 1 .. Len(Without(ps, i)) /\ Without(ps, i)[j - 1] = ps[j]
    BY <1>1, <1>2, <1>3, <1>4, <1>6
  <2> QED
    BY <1>2, <2>1 DEF HasTag, i
<1> QED
  BY <1>1, <1>2, <1>5, <1>6 DEF i

-----------------------------------------------------------------------------
(* One lemma per operation                                                   *)

(* What an operation does not work on stays sound.                           *)
Same(v) ==
    /\ points'[v] = points[v] /\ rec'[v] = rec[v] /\ exists'[v] = exists[v]
    /\ pc'[v] = pc[v] /\ tag'[v] = tag[v] /\ at'[v] = at[v] /\ created'[v] = created[v]

(* A VM that a step does not touch stays sound.                              *)
LEMMA SameSound == ASSUME NEW v \in VM, Sound(v), Same(v) PROVE Sound(v)'
BY DEF Same, Sound, Listed, Recorded, On

(* What an operation that has ended worked on is sound.                      *)
LEMMA IdleSound ==
    ASSUME NEW v \in VM, Sound(v), pc'[v] = "idle", created'[v] = 0,
           points'[v] = points[v], rec'[v] = rec[v], exists'[v] = exists[v]
    PROVE  Sound(v)'
BY DEF Sound, Listed, Recorded, Tagging

(* What is listed stays on every disk if no disk loses a listed tag.         *)
LEMMA ListedStays ==
    ASSUME NEW v \in VM, Listed(v), rec'[v] = rec[v],
           \A t \in Recorded(v) : \A d \in Disk :
               HasTag(points[v][d], t) => HasTag(points'[v][d], t)
    PROVE  Listed(v)' /\ Recorded(v)' = Recorded(v)
BY DEF Listed, Recorded

(* An operation goes on to its next step.                                    *)
LEMMA GotoTypes ==
    ASSUME ControlTypes, NEW v \in VM, NEW l \in Labels, NEW d \in 0 .. Disks + 1, Goto(v, l, d)
    PROVE  /\ pc' \in [VM -> Labels] /\ pc'[v] = l /\ at' \in [VM -> 0 .. Disks + 1] /\ at'[v] = d
           /\ \A w \in VM : w # v => pc'[w] = pc[w] /\ at'[w] = at[w]
BY DEF Goto, ControlTypes

(* An operation ends.                                                        *)
LEMMA ReturnTypes ==
    ASSUME ControlTypes, NEW v \in VM, Return(v)
    PROVE  /\ ControlTypes' /\ pc'[v] = "idle" /\ created'[v] = 0
           /\ \A w \in VM : w # v => /\ pc'[w] = pc[w] /\ at'[w] = at[w]
                                     /\ tag'[w] = tag[w] /\ created'[w] = created[w]
BY DisksAssumption DEF Return, Goto, ControlTypes, Labels

(* Any tag but the one that is taken back.                                   *)
LEMMA UndoPoints ==
    ASSUME NEW ps \in Seq(Point), NEW s, HasTag(ps, s)
    PROVE  /\ Without(ps, Oldest(ps, s)) \in Seq(Point)
           /\ Len(Without(ps, Oldest(ps, s))) = Len(ps) - 1
           /\ \A t : t # s /\ HasTag(ps, t) => HasTag(Without(ps, Oldest(ps, s)), t)
BY OldestPoint, WithoutPoint, WithoutTag

(* create.                                                                   *)
LEMMA CreateInv == ASSUME SnapInv, NEW v \in VM, Create(v) PROVE SnapInv'
<1> USE DEF Create, job, Goto
<1>1. ControlTypes'
  BY DEF SnapInv, ControlTypes, Labels
<1>2. DataTypes'
  BY DEF SnapInv, DataTypes
<1>3. Sound(v)'
  <2>1. pc'[v] = "idle" /\ created'[v] = 0 /\ exists'[v]
    BY DEF SnapInv, DataTypes, Sound, Tagging
  <2>2. Listed(v)'
    BY ListedStays DEF SnapInv, Sound
  <2> QED
    BY <2>1, <2>2 DEF Sound, Tagging
<1>4. ASSUME NEW w \in VM, w # v PROVE Same(w)
  BY <1>4 DEF SnapInv, ControlTypes, DataTypes, Same
<1> QED
  BY <1>1, <1>2, <1>3, <1>4, SameSound DEF SnapInv

(* start, stop: the guest writes its disks.                                  *)
LEMMA UseInv == ASSUME SnapInv, NEW v \in VM, Use(v) PROVE SnapInv'
<1> USE DEF Use, job
<1>1. ControlTypes'
  BY DEF SnapInv, ControlTypes, Labels
<1>2. DataTypes'
  <2>1. clock' \in 0 .. MaxWrites
    BY BoundAssumption DEF SnapInv, DataTypes
  <2>2. content' \in [VM -> [Disk -> 0 .. MaxWrites]]
    BY <2>1 DEF SnapInv, DataTypes
  <2> QED
    BY <2>1, <2>2 DEF SnapInv, DataTypes
<1>3. Sound(v)'
  BY SameSound DEF SnapInv, Same
<1>4. ASSUME NEW w \in VM, w # v PROVE Same(w)
  BY <1>4 DEF SnapInv, ControlTypes, DataTypes, Same
<1> QED
  BY <1>1, <1>2, <1>3, <1>4, SameSound DEF SnapInv

(* clone: a VM without a record gets copies of images, and lists no tag.     *)
LEMMA CloneInv == ASSUME SnapInv, NEW s \in VM, NEW v \in VM, Clone(s, v) PROVE SnapInv'
<1> USE DEF Clone, job
<1>1. ControlTypes'
  BY DEF SnapInv, ControlTypes, Labels
<1>2. DataTypes'
  <2>1. 1 \in Disk
    BY DisksAssumption DEF Disk
  <2>2. [content[s] EXCEPT ![1] = 0] \in [Disk -> 0 .. MaxWrites]
    BY BoundAssumption, <2>1 DEF SnapInv, DataTypes
  <2>3. << >> \in Seq(Point) /\ Len(<< >>) <= MaxPoints
    BY BoundAssumption
  <2>4. /\ [points[s] EXCEPT ![1] = << >>] \in [Disk -> Seq(Point)]
        /\ \A d \in Disk : Len([points[s] EXCEPT ![1] = << >>][d]) <= MaxPoints
    BY <2>1, <2>3 DEF SnapInv, DataTypes
  <2> QED
    BY <2>2, <2>4 DEF SnapInv, DataTypes
<1>3. Sound(v)'
  <2>1. rec'[v] = << >> /\ pc'[v] = "idle" /\ created'[v] = 0 /\ exists'[v]
    BY DEF SnapInv, Sound, DataTypes, Tagging
  <2>2. Recorded(v)' = {}
    BY <2>1 DEF Recorded
  <2> QED
    BY <2>1, <2>2 DEF Sound, Listed
<1>4. ASSUME NEW w \in VM, w # v PROVE Same(w)
  BY <1>4 DEF SnapInv, ControlTypes, DataTypes, Same
<1> QED
  BY <1>1, <1>2, <1>3, <1>4, SameSound DEF SnapInv

(* A snapshot begins with a tag that is not listed.                          *)
LEMMA SnapshotInv == ASSUME SnapInv, NEW v \in VM, Snapshot(v) PROVE SnapInv'
<1> USE DEF Snapshot, job, Goto
<1>1. ControlTypes'
  <2>1. CASE UNCHANGED <<pc, tag, at>>
    BY <2>1 DEF SnapInv, ControlTypes
  <2>2. ASSUME NEW t \in Tag, tag' = [tag EXCEPT ![v] = t], Goto(v, "create", 1) PROVE ControlTypes'
    BY <2>2, DisksAssumption DEF SnapInv, ControlTypes, Labels, Goto
  <2> QED
    BY <2>1, <2>2
<1>2. DataTypes'
  BY DEF SnapInv, DataTypes
<1>3. Sound(v)'
  <2>1. CASE UNCHANGED <<pc, tag, at>>
    BY <2>1, SameSound DEF SnapInv, Same
  <2>2. ASSUME NEW t \in Tag \ Recorded(v), \A d \in Disk : Len(points[v][d]) < MaxPoints,
               tag' = [tag EXCEPT ![v] = t], Goto(v, "create", 1)
        PROVE  Sound(v)'
    <3>1. pc'[v] = "create" /\ at'[v] = 1 /\ tag'[v] = t /\ created'[v] = 0
      BY <2>2 DEF SnapInv, ControlTypes, Sound, Goto, Tagging
    <3>2. 1 \in Disk /\ \A d \in Disk : ~(d < 1)
      BY DisksAssumption DEF Disk
    <3>3. Listed(v)' /\ Recorded(v)' = Recorded(v) /\ exists'[v]
      BY ListedStays DEF SnapInv, Sound
    <3>4. created'[v] = at'[v] - 1
      BY <3>1
    <3>5. /\ \A d \in Disk : d < at'[v] => On(v, d)'
          /\ \A d \in Disk : d >= at'[v] => Len(points'[v][d]) < MaxPoints
      BY <2>2, <3>1, <3>2
    <3> QED
      BY <2>2, <3>1, <3>2, <3>3, <3>4, <3>5 DEF Sound
  <2> QED
    BY <2>1, <2>2
<1>4. ASSUME NEW w \in VM, w # v PROVE Same(w)
  BY <1>4 DEF SnapInv, ControlTypes, DataTypes, Same
<1> QED
  BY <1>1, <1>2, <1>3, <1>4, SameSound DEF SnapInv

(* SnapCreate on one image, or the rollback begins.                          *)
LEMMA TagDiskInv == ASSUME SnapInv, NEW v \in VM, TagDisk(v) PROVE SnapInv'
<1> USE DEF TagDisk, job, Goto
<1> DEFINE ps == points[v][at[v]]
           x == [tag |-> tag[v], holds |-> content[v][at[v]]]
<1>a. /\ at[v] \in Disk /\ created[v] = at[v] - 1 /\ Len(ps) < MaxPoints /\ Len(ps) \in Nat
      /\ ps \in Seq(Point) /\ x \in Point /\ x.tag = tag[v]
  <2>1. at[v] \in Disk /\ created[v] = at[v] - 1 /\ tag[v] \in Tag
    BY DEF SnapInv, ControlTypes, Sound
  <2>2. at[v] >= at[v]
    BY <2>1 DEF Disk
  <2>3. Len(ps) < MaxPoints /\ ps \in Seq(Point) /\ content[v][at[v]] \in 0 .. MaxWrites
    BY <2>1, <2>2 DEF SnapInv, DataTypes, Sound
  <2> QED
    BY <2>1, <2>3, LenProperties DEF Point
<1>b. /\ Append(ps, x) \in Seq(Point) /\ Len(Append(ps, x)) = Len(ps) + 1
      /\ \A t : HasTag(Append(ps, x), t) <=> HasTag(ps, t) \/ t = tag[v]
  BY <1>a, AppendPoint
<1>c. \/ /\ points' = [points EXCEPT ![v][at[v]] = Append(ps, x)]
         /\ created' = [created EXCEPT ![v] = at[v]]
         /\ IF at[v] = Disks THEN Goto(v, "save", 0) ELSE Goto(v, "create", at[v] + 1)
      \/ /\ points' \in {points, [points EXCEPT ![v][at[v]] = Append(ps, x)]}
         /\ Goto(v, "undo", 1) /\ UNCHANGED created
  BY DEF Tagged
<1>1. ControlTypes'
  <2>1. at[v] # Disks => at[v] + 1 \in 0 .. Disks + 1
    BY <1>a, DisksAssumption DEF Disk
  <2>2. at[v] \in 0 .. Disks /\ 1 \in 0 .. Disks + 1 /\ 0 \in 0 .. Disks + 1
    BY <1>a, DisksAssumption DEF Disk
  <2>3. pc[v] # "idle" /\ tag' = tag
    OBVIOUS
  <2> HIDE DEF TagDisk, ps, x
  <2>4. CASE Goto(v, "undo", 1) /\ UNCHANGED created
    BY <2>2, <2>3, <2>4 DEF SnapInv, ControlTypes, Labels, Goto
  <2>5. CASE Goto(v, "save", 0) /\ created' = [created EXCEPT ![v] = at[v]]
    BY <2>2, <2>3, <2>5 DEF SnapInv, ControlTypes, Labels, Goto
  <2>6. CASE /\ at[v] # Disks /\ Goto(v, "create", at[v] + 1)
             /\ created' = [created EXCEPT ![v] = at[v]]
    BY <2>1, <2>2, <2>3, <2>6 DEF SnapInv, ControlTypes, Labels, Goto
  <2> QED
    BY <1>c, <2>4, <2>5, <2>6
<1>2. DataTypes'
  <2> HIDE DEF ps, x
  <2>1. Append(ps, x) \in Seq(Point) /\ Len(Append(ps, x)) <= MaxPoints
    BY <1>a, <1>b, BoundAssumption
  <2>2. CASE points' = [points EXCEPT ![v][at[v]] = Append(ps, x)]
    <3>1. /\ points' \in [VM -> [Disk -> Seq(Point)]] /\ points'[v][at[v]] = Append(ps, x)
          /\ \A d \in Disk : d # at[v] => points'[v][d] = points[v][d]
          /\ \A w \in VM : w # v => points'[w] = points[w]
      BY <1>a, <2>1, <2>2, Update2 DEF SnapInv, DataTypes
    <3>2. \A w \in VM : \A d \in Disk : Len(points'[w][d]) <= MaxPoints
      BY <2>1, <3>1 DEF SnapInv, DataTypes
    <3> QED
      BY <3>1, <3>2 DEF SnapInv, DataTypes
  <2>3. CASE UNCHANGED points
    BY <2>3 DEF SnapInv, DataTypes
  <2> QED
    BY <1>c, <2>2, <2>3
<1>3. Sound(v)'
  <2>1. CASE /\ points' \in {points, [points EXCEPT ![v][at[v]] = Append(ps, x)]}
             /\ Goto(v, "undo", 1) /\ UNCHANGED created
    <3> HIDE DEF ps, x
    <3>1. pc'[v] = "undo" /\ at'[v] = 1
      BY <2>1 DEF SnapInv, ControlTypes, Goto
    <3>2. at'[v] >= 1 /\ \A d \in Disk : d <= created[v] => d < at[v]
      BY <1>a, <3>1 DEF Disk
    <3>5. \A d \in Disk : \A t : HasTag(points[v][d], t) => HasTag(points'[v][d], t)
      <4>1. \A d \in Disk : points'[v][d] = points[v][d]
                             \/ (d = at[v] /\ points'[v][d] = Append(ps, x))
        <5> HIDE DEF TagDisk
        <5>1. CASE points' = points  BY <5>1
        <5>2. CASE points' = [points EXCEPT ![v][at[v]] = Append(ps, x)]
          BY <1>a, <5>2 DEF SnapInv, DataTypes
        <5> QED
          BY <2>1, <5>1, <5>2
      <4> QED
        BY <1>b, <4>1 DEF ps
    <3>3. Listed(v)' /\ Recorded(v)' = Recorded(v) /\ exists'[v] /\ tag' = tag
      BY <3>5, ListedStays DEF SnapInv, Sound
    <3>4. \A d \in Disk : d <= created'[v] => On(v, d)'
      BY <2>1, <3>2, <3>3, <3>5 DEF SnapInv, Sound, On
    <3> QED
      BY <3>1, <3>2, <3>3, <3>4 DEF SnapInv, Sound, Tagging
  <2>2. CASE /\ points' = [points EXCEPT ![v][at[v]] = Append(ps, x)]
             /\ created' = [created EXCEPT ![v] = at[v]]
             /\ IF at[v] = Disks THEN Goto(v, "save", 0) ELSE Goto(v, "create", at[v] + 1)
    <3> HIDE DEF ps, x
    <3>1. /\ points'[v][at[v]] = Append(ps, x) /\ created'[v] = at[v]
          /\ \A d \in Disk : d # at[v] => points'[v][d] = points[v][d]
      BY <1>a, <2>2 DEF SnapInv, DataTypes, ControlTypes
    <3>2. \A d \in Disk : \A t : HasTag(points[v][d], t) => HasTag(points'[v][d], t)
      BY <1>a, <1>b, <3>1 DEF ps
    <3>0. Listed(v)' /\ Recorded(v)' = Recorded(v) /\ exists'[v] /\ tag' = tag
      BY <3>2, ListedStays DEF SnapInv, Sound
    <3>3. \A d \in Disk : d <= at[v] => On(v, d)'
      <4>1. \A d \in Disk : d <= at[v] /\ d # at[v] => d < at[v]
        BY <1>a DEF Disk
      <4> QED
        <5> SUFFICES ASSUME NEW d \in Disk, d <= at[v] PROVE HasTag(points'[v][d], tag[v])
          BY <3>0 DEF On
        <5>1. CASE d = at[v]
          BY <1>b, <3>1, <5>1
        <5>2. CASE d # at[v]
          BY <3>2, <4>1, <5>2 DEF SnapInv, Sound, On
        <5> QED
          BY <5>1, <5>2
    <3>4. CASE at[v] = Disks /\ Goto(v, "save", 0)
      <4>1. pc'[v] = "save" /\ \A d \in Disk : d <= at[v]
        BY <3>4, DisksAssumption DEF SnapInv, ControlTypes, Goto, Disk
      <4> QED
        BY <1>a, <3>0, <3>1, <3>3, <3>4, <4>1 DEF SnapInv, Sound, Tagging
    <3>5. CASE at[v] # Disks /\ Goto(v, "create", at[v] + 1)
      <4>1. pc'[v] = "create" /\ at'[v] = at[v] + 1 /\ at'[v] \in Disk
        BY <1>a, <3>5, DisksAssumption DEF SnapInv, ControlTypes, Goto, Disk
      <4>2. \A d \in Disk : (d < at'[v] => d <= at[v]) /\ (d >= at'[v] => d >= at[v] /\ d # at[v])
        BY <1>a, <4>1 DEF Disk
      <4>3. \A d \in Disk : d >= at'[v] => Len(points'[v][d]) < MaxPoints
        BY <3>1, <4>2 DEF SnapInv, Sound
      <4>4. created'[v] = at'[v] - 1
        BY <1>a, <3>1, <4>1 DEF Disk
      <4> QED
        BY <3>0, <3>3, <4>1, <4>2, <4>3, <4>4 DEF SnapInv, Sound, Tagging
    <3> QED
      BY <2>2, <3>4, <3>5
  <2> QED
    BY <1>c, <2>1, <2>2
<1>4. ASSUME NEW w \in VM, w # v PROVE Same(w)
  <2>1. points'[w] = points[w]
    BY <1>4, <1>c DEF SnapInv, DataTypes
  <2> QED
    BY <1>4, <1>c, <2>1 DEF SnapInv, ControlTypes, Goto, Same
<1> QED
  BY <1>1, <1>2, <1>3, <1>4, SameSound DEF SnapInv

(* SnapDelete takes back a tag that is not listed.                           *)
LEMMA UndoInv == ASSUME SnapInv, NEW v \in VM, Undo(v) PROVE SnapInv'
<1> USE DEF Undo, job
<1> DEFINE ps == points[v][at[v]]
           rest == Without(ps, Oldest(ps, tag[v]))
<1>a. CASE at[v] > created[v] /\ Return(v) /\ UNCHANGED points
  <2>1. ControlTypes' /\ DataTypes'
    BY <1>a, ReturnTypes DEF SnapInv, DataTypes
  <2>2. Sound(v)'
    BY <1>a, ReturnTypes, IdleSound DEF SnapInv
  <2>3. ASSUME NEW w \in VM, w # v PROVE Same(w)
    BY <1>a, <2>3, ReturnTypes DEF SnapInv, Same
  <2> QED
    BY <2>1, <2>2, <2>3, SameSound DEF SnapInv
<1>b. CASE /\ at[v] <= created[v] /\ points' \in {points, [points EXCEPT ![v][at[v]] = rest]}
           /\ Goto(v, "undo", at[v] + 1) /\ UNCHANGED <<tag, created>>
  <2>0. at[v] \in Disk /\ On(v, at[v]) /\ ps \in Seq(Point) /\ at[v] + 1 \in 0 .. Disks + 1
    <3>1. at[v] >= 1 /\ at[v] \in 0 .. Disks + 1 /\ created[v] \in 0 .. Disks
      BY <1>b DEF SnapInv, ControlTypes, Sound
    <3>2. at[v] \in Disk /\ at[v] + 1 \in 0 .. Disks + 1 /\ at[v] >= at[v]
      BY <1>b, <3>1, DisksAssumption DEF Disk
    <3> QED
      BY <1>b, <3>2 DEF SnapInv, DataTypes, Sound
  <2>1. /\ rest \in Seq(Point) /\ Len(rest) <= Len(ps)
        /\ \A t : t # tag[v] /\ HasTag(ps, t) => HasTag(rest, t)
    BY <2>0, UndoPoints, LenProperties DEF On
  <2> HIDE DEF rest
  <2>2. /\ points' \in [VM -> [Disk -> Seq(Point)]]
        /\ \A w \in VM \ {v} : points'[w] = points[w]
        /\ \A d \in Disk : d # at[v] => points'[v][d] = points[v][d]
        /\ points'[v][at[v]] \in {ps, rest}
    <3>1. CASE points' = points
      BY <2>0, <3>1 DEF SnapInv, DataTypes
    <3>2. CASE points' = [points EXCEPT ![v][at[v]] = rest]
      BY <2>0, <2>1, <3>2 DEF SnapInv, DataTypes
    <3> QED
      BY <1>b, <3>1, <3>2
  <2>3. Len(rest) <= MaxPoints
    BY <2>0, <2>1, BoundAssumption, LenProperties DEF SnapInv, DataTypes
  <2>4. DataTypes'
    BY <2>0, <2>2, <2>3 DEF SnapInv, DataTypes
  <2>5. ControlTypes' /\ pc'[v] = "undo" /\ at'[v] = at[v] + 1
    BY <1>b, <2>0 DEF SnapInv, ControlTypes, Labels, Goto
  <2>6. \A d \in Disk : \A t : t # tag[v] /\ HasTag(points[v][d], t) => HasTag(points'[v][d], t)
    BY <2>1, <2>2
  <2>7. \A d \in Disk : d >= at'[v] => d >= at[v] /\ d # at[v]
    BY <2>0, <2>5 DEF Disk
  <2>8. at'[v] >= 1
    BY <2>0, <2>5 DEF Disk
  <2>9. Sound(v)'
    <3>1. tag'[v] = tag[v] /\ created'[v] = created[v] /\ rec' = rec /\ exists'[v]
      BY <1>b DEF SnapInv, Sound
    <3>2. tag[v] \notin Recorded(v) /\ Listed(v)
      BY DEF SnapInv, Sound, Tagging
    <3>3. Listed(v)' /\ Recorded(v)' = Recorded(v)
      BY <2>6, <3>1, <3>2, ListedStays
    <3>4. \A d \in Disk : d >= at'[v] /\ d <= created'[v] => On(v, d)'
      BY <2>2, <2>7, <3>1 DEF SnapInv, Sound, On
    <3> QED
      BY <2>5, <2>8, <3>1, <3>2, <3>3, <3>4 DEF Sound, Tagging
  <2>10. ASSUME NEW w \in VM, w # v PROVE Same(w)
    BY <1>b, <2>2, <2>10 DEF SnapInv, ControlTypes, Goto, Same
  <2> QED
    BY <2>4, <2>5, <2>9, <2>10, SameSound DEF SnapInv
<1> QED
  BY <1>a, <1>b

(* The tag is listed once every image carries it.                            *)
LEMMA SaveInv == ASSUME SnapInv, NEW v \in VM, Save(v) PROVE SnapInv'
<1> USE DEF Save, job
<1>1. ControlTypes'
  BY ReturnTypes DEF SnapInv
<1>2. DataTypes'
  <2>1. content[v] \in [Disk -> 0 .. MaxWrites] /\ tag[v] \in Tag
    BY DEF SnapInv, ControlTypes, DataTypes
  <2>2. Append(rec[v], tag[v]) \in Seq(Tag)
    BY <2>1, AppendProperties DEF SnapInv, DataTypes
  <2>3. taken' = taken \/ taken' = [taken EXCEPT ![v][tag[v]] = content[v]]
    OBVIOUS
  <2>4. taken' \in [VM -> [Tag -> [Disk -> 0 .. MaxWrites]]]
    <3>1. taken \in [VM -> [Tag -> [Disk -> 0 .. MaxWrites]]]
      BY DEF SnapInv, DataTypes
    <3>2. CASE taken' = [taken EXCEPT ![v][tag[v]] = content[v]]
      <4> HIDE DEF Save
      <4> QED
        BY <2>1, <3>1, <3>2, Update2
    <3> QED
      BY <2>3, <3>1, <3>2
  <2>5. rec' \in [VM -> Seq(Tag)]
    BY <2>2 DEF SnapInv, DataTypes
  <2> QED
    BY <2>4, <2>5 DEF SnapInv, DataTypes
<1>3. Sound(v)'
  <2>1. pc'[v] = "idle" /\ created'[v] = 0 /\ points' = points /\ exists' = exists
    BY ReturnTypes DEF SnapInv
  <2>2. Recorded(v)' \subseteq Recorded(v) \cup {tag[v]}
    <3>1. CASE UNCHANGED rec
      BY <3>1 DEF Recorded
    <3>2. CASE rec' = [rec EXCEPT ![v] = Append(@, tag[v])]
      <4>1. rec[v] \in Seq(Tag) /\ tag[v] \in Tag /\ rec'[v] = Append(rec[v], tag[v])
        BY <3>2 DEF SnapInv, ControlTypes, DataTypes
      <4>2. /\ Len(rec'[v]) = Len(rec[v]) + 1 /\ rec'[v][Len(rec[v]) + 1] = tag[v]
            /\ \A i \in 1 .. Len(rec[v]) : rec'[v][i] = rec[v][i]
        BY <4>1, AppendProperties
      <4>3. Len(rec[v]) \in Nat
        BY <4>1, LenProperties
      <4> QED
        BY <4>2, <4>3 DEF Recorded
    <3> QED
      BY <3>1, <3>2
  <2>3. \A d \in Disk : On(v, d)
    BY DEF SnapInv, Sound
  <2>4. exists[v]
    BY DEF SnapInv, Sound
  <2>5. Listed(v)'
    BY <2>1, <2>2, <2>3 DEF SnapInv, Sound, Listed, On
  <2> QED
    BY <2>1, <2>4, <2>5 DEF Sound, Tagging
<1>4. ASSUME NEW w \in VM, w # v PROVE Same(w)
  BY <1>4, ReturnTypes DEF SnapInv, DataTypes, Same
<1> QED
  BY <1>1, <1>2, <1>3, <1>4, SameSound DEF SnapInv

(* SnapExists on every image.                                                *)
LEMMA RestoreInv == ASSUME SnapInv, NEW v \in VM, Restore(v) PROVE SnapInv'
<1> USE DEF Restore, job, Goto
<1>1. ControlTypes'
  <2>1. CASE UNCHANGED <<pc, tag, at>>
    BY <2>1 DEF SnapInv, ControlTypes
  <2>2. ASSUME NEW t \in Tag, tag' = [tag EXCEPT ![v] = t], Goto(v, "apply", 1) PROVE ControlTypes'
    BY <2>2, DisksAssumption DEF SnapInv, ControlTypes, Labels, Goto
  <2> QED
    BY <2>1, <2>2
<1>2. DataTypes'
  BY DEF SnapInv, DataTypes
<1>3. Sound(v)'
  <2>1. CASE UNCHANGED <<pc, tag, at>>
    BY <2>1, SameSound DEF SnapInv, Same
  <2>2. ASSUME NEW t \in Tag, \A d \in Disk : HasTag(points[v][d], t),
               tag' = [tag EXCEPT ![v] = t], Goto(v, "apply", 1)
        PROVE  Sound(v)'
    <3>1. pc'[v] = "apply" /\ at'[v] = 1 /\ tag'[v] = t
      BY <2>2 DEF SnapInv, ControlTypes, Goto
    <3>2. 1 \in Disk
      BY DisksAssumption DEF Disk
    <3>3. Listed(v)' /\ exists'[v]
      BY ListedStays DEF SnapInv, Sound
    <3>4. \A d \in Disk : On(v, d)'
      BY <2>2, <3>1 DEF On
    <3>5. created'[v] = 0
      BY DEF SnapInv, Sound, Tagging
    <3> QED
      BY <3>1, <3>2, <3>3, <3>4, <3>5 DEF Sound, Tagging
  <2> QED
    BY <2>1, <2>2
<1>4. ASSUME NEW w \in VM, w # v PROVE Same(w)
  BY <1>4 DEF SnapInv, ControlTypes, DataTypes, Same
<1> QED
  BY <1>1, <1>2, <1>3, <1>4, SameSound DEF SnapInv

(* SnapApply on one image.                                                   *)
LEMMA ApplyInv == ASSUME SnapInv, NEW v \in VM, Apply(v) PROVE SnapInv'
<1> USE DEF Apply, job, Goto
<1> DEFINE ps == points[v][at[v]]
           c == ps[Oldest(ps, tag[v])].holds
<1>a. at[v] \in Disk /\ ps \in Seq(Point)
  BY DEF SnapInv, DataTypes, Sound
<1>b. HasTag(ps, tag[v]) => c \in 0 .. MaxWrites
  <2> SUFFICES ASSUME HasTag(ps, tag[v]) PROVE c \in 0 .. MaxWrites
    OBVIOUS
  <2>1. Oldest(ps, tag[v]) \in 1 .. Len(ps)
    BY <1>a, OldestPoint
  <2>2. ps[Oldest(ps, tag[v])] \in Point
    BY <1>a, <2>1, ElementOfSeq
  <2> QED
    BY <2>2 DEF Point
<1>c. \/ /\ HasTag(ps, tag[v]) /\ content' = [content EXCEPT ![v][at[v]] = c]
         /\ IF at[v] = Disks THEN Goto(v, "resave", 0) ELSE Goto(v, "apply", at[v] + 1)
         /\ UNCHANGED tag
      \/ Goto(v, "mixed", 0) /\ UNCHANGED <<content, tag>>
  OBVIOUS
<1>1. ControlTypes'
  <2>1. /\ at[v] # Disks => at[v] + 1 \in 0 .. Disks + 1
        /\ 0 \in 0 .. Disks + 1
    BY <1>a, DisksAssumption DEF Disk
  <2> QED
    BY <1>c, <2>1 DEF SnapInv, ControlTypes, Labels, Goto
<1>2. DataTypes'
  <2> HIDE DEF c, ps
  <2>1. content' \in [VM -> [Disk -> 0 .. MaxWrites]]
    <3>1. content \in [VM -> [Disk -> 0 .. MaxWrites]]
      BY DEF SnapInv, DataTypes
    <3>2. CASE HasTag(ps, tag[v]) /\ content' = [content EXCEPT ![v][at[v]] = c]
      <4> HIDE DEF Apply
      <4> QED
        BY <1>a, <1>b, <3>1, <3>2, Update2
    <3> QED
      BY <1>c, <3>1, <3>2
  <2> QED
    BY <2>1 DEF SnapInv, DataTypes
<1>3. Sound(v)'
  <2>1. pc'[v] \in {"resave", "mixed"} \/ (pc'[v] = "apply" /\ at[v] # Disks /\ at'[v] = at[v] + 1)
    BY <1>c DEF SnapInv, ControlTypes, Goto
  <2>2. at[v] # Disks => at[v] + 1 \in Disk
    BY <1>a, DisksAssumption DEF Disk
  <2> QED
    <3>1. Listed(v)' /\ exists'[v] /\ tag' = tag
      BY ListedStays DEF SnapInv, Sound
    <3>2. pc'[v] = "apply" => at'[v] \in Disk /\ \A d \in Disk : On(v, d)'
      BY <2>1, <2>2, <3>1 DEF SnapInv, Sound, On
    <3> QED
      BY <2>1, <3>1, <3>2 DEF SnapInv, Sound, Tagging
<1>4. ASSUME NEW w \in VM, w # v PROVE Same(w)
  BY <1>4 DEF SnapInv, ControlTypes, DataTypes, Same
<1> QED
  BY <1>1, <1>2, <1>3, <1>4, SameSound DEF SnapInv

(* saveRec, or the error of a failed apply.                                  *)
LEMMA EndRestoreInv == ASSUME SnapInv, NEW v \in VM, EndRestore(v) PROVE SnapInv'
<1> USE DEF EndRestore, job
<1>1. ControlTypes'
  BY ReturnTypes DEF SnapInv
<1>2. DataTypes'
  BY DEF SnapInv, DataTypes
<1>3. Sound(v)'
  BY ReturnTypes, IdleSound DEF SnapInv
<1>4. ASSUME NEW w \in VM, w # v PROVE Same(w)
  BY <1>4, ReturnTypes DEF SnapInv, DataTypes, Same
<1> QED
  BY <1>1, <1>2, <1>3, <1>4, SameSound DEF SnapInv

(* A killed CLI.                                                             *)
LEMMA CrashInv == ASSUME SnapInv, NEW v \in VM, Crash(v) PROVE SnapInv'
<1> USE DEF Crash, job
<1>1. ControlTypes'
  BY ReturnTypes DEF SnapInv
<1>2. DataTypes'
  BY DEF SnapInv, DataTypes
<1>3. Sound(v)'
  BY ReturnTypes, IdleSound DEF SnapInv
<1>4. ASSUME NEW w \in VM, w # v PROVE Same(w)
  BY <1>4, ReturnTypes DEF SnapInv, DataTypes, Same
<1> QED
  BY <1>1, <1>2, <1>3, <1>4, SameSound DEF SnapInv

-----------------------------------------------------------------------------
(* SnapInv holds at first: there is no VM.                                   *)
LEMMA InitInv == ASSUME Init PROVE SnapInv
<1> USE DEF Init
<1>1. ControlTypes
  BY DisksAssumption DEF ControlTypes, Labels
<1>2. DataTypes
  BY BoundAssumption DEF DataTypes
<1>3. ASSUME NEW v \in VM PROVE Sound(v)
  BY DEF Sound, Listed, Recorded
<1> QED
  BY <1>1, <1>2, <1>3 DEF SnapInv

(* No operation on a VM, no clone and no crash breaks it.                    *)
LEMMA NextInv == ASSUME SnapInv, [Next]_vars PROVE SnapInv'
<1>1. ASSUME NEW v \in VM, NEW s \in VM, Clone(s, v) PROVE SnapInv'
  BY <1>1, CloneInv
<1>2. ASSUME NEW v \in VM,
             \/ Create(v) \/ Use(v) \/ Snapshot(v) \/ TagDisk(v) \/ Undo(v) \/ Save(v)
             \/ Restore(v) \/ Apply(v) \/ EndRestore(v) \/ Crash(v)
      PROVE  SnapInv'
  BY <1>2, CreateInv, UseInv, SnapshotInv, TagDiskInv, UndoInv, SaveInv,
     RestoreInv, ApplyInv, EndRestoreInv, CrashInv
<1>3. CASE UNCHANGED vars
  <2>1. ControlTypes' /\ DataTypes' /\ \A v \in VM : Same(v)
    BY <1>3 DEF SnapInv, vars, job, ControlTypes, DataTypes, Same
  <2> QED
    BY <2>1, SameSound DEF SnapInv
<1> QED
  BY <1>1, <1>2, <1>3 DEF Next

(* The invariant holds in every state of every behaviour, under any faults   *)
(* (snapshot and restore, cmd/vm/snapshot.go).                               *)
THEOREM SnapCorrect == Spec => []SnapInv
<1>1. Init => SnapInv
  BY InitInv
<1>2. SnapInv /\ [Next]_vars => SnapInv'
  BY NextInv
<1> QED
  BY <1>1, <1>2, PTL DEF Spec

(* Every variable keeps its type (vm.json's snapshot list and the images).   *)
THEOREM SnapTypes == Spec => []TypeOK
<1>1. SnapInv => TypeOK
  <2> SUFFICES ASSUME SnapInv PROVE TypeOK
    OBVIOUS
  <2>1. \A v \in VM : rec[v] \in Seq(Tag)
    BY DEF SnapInv, DataTypes
  <2>2. \A v \in VM : \A d \in Disk :
            points[v][d] \in Seq([tag : Tag, holds : 0 .. MaxWrites]) /\ Len(points[v][d]) <= MaxPoints
    BY ZenonT(60) DEF SnapInv, DataTypes, Point
  <2> QED
    BY <2>1, <2>2 DEF SnapInv, ControlTypes, DataTypes, Labels, TypeOK
<1> QED
  BY <1>1, SnapCorrect, PTL

(* Every tag that vm.json lists is on every disk, whatever failed or died    *)
(* (snapshotAllOrNothing; snapshot.go:35-45).                                *)
THEOREM ListedEverywhere == Spec => []RecordedEverywhere
<1>1. SnapInv => RecordedEverywhere
  BY DEF SnapInv, Sound, Listed, RecordedEverywhere
<1> QED
  BY <1>1, SnapCorrect, PTL

-----------------------------------------------------------------------------
(* The refinement                                                            *)

(* What a step on another VM leaves alone.                                   *)
Untouched(v) == Same(v) /\ content'[v] = content[v]

(* What an image held when it first got the tag, its newest snapshot, and    *)
(* what is on it besides that.                                               *)
Holds(ps, t) == ps[Oldest(ps, t)].holds
Newest(ps, x) == Len(ps) > 0 /\ ps[Len(ps)] = x
Older(ps, t) == \E i \in 1 .. Len(ps) - 1 : ps[i].tag = t

(* What a snapshot and a restore under way have done to v's images so far:   *)
(* the newest snapshot of those that have been tagged holds what they hold   *)
(* now, and those that have been reverted hold what the tag saved.           *)
Half(v) ==
    /\ ~exists[v] => \A d \in Disk : points[v][d] = << >>
    /\ \A d \in Made(v) : Newest(points[v][d], [tag |-> tag[v], holds |-> content[v][d]])
    /\ pc[v] = "apply" =>
        \A d \in Disk : d < at[v] => content[v][d] = Holds(points[v][d], tag[v])

HalfInv == SnapInv /\ \A v \in VM : Half(v)

(* The one snapshot of a name before which there is none is the oldest.      *)
LEMMA FirstOldest ==
    ASSUME NEW ps \in Seq(Point), NEW t, NEW i \in 1 .. Len(ps), ps[i].tag = t,
           \A j \in 1 .. i - 1 : ps[j].tag # t
    PROVE  HasTag(ps, t) /\ Oldest(ps, t) = i
<1>1. HasTag(ps, t)  BY DEF HasTag
<1>2. /\ Oldest(ps, t) \in 1 .. Len(ps) /\ ps[Oldest(ps, t)].tag = t
      /\ \A j \in 1 .. Oldest(ps, t) - 1 : ps[j].tag # t
  BY <1>1, OldestPoint
<1> HIDE DEF Oldest
<1>3. Len(ps) \in Nat  BY LenProperties
<1>4. ~(Oldest(ps, t) < i)  BY <1>2, <1>3
<1>5. ~(i < Oldest(ps, t))  BY <1>2, <1>3
<1>6. QED  BY <1>1, <1>2, <1>3, <1>4, <1>5

(* SnapCreate leaves the other snapshots alone.                              *)
LEMMA AppendHolds ==
    ASSUME NEW ps \in Seq(Point), NEW x \in Point
    PROVE  /\ Newest(Append(ps, x), x)
           /\ \A t : Older(Append(ps, x), t) <=> HasTag(ps, t)
           /\ \A t : HasTag(ps, t) => Holds(Append(ps, x), t) = Holds(ps, t)
<1> DEFINE qs == Append(ps, x)
<1>1. /\ qs \in Seq(Point) /\ Len(qs) = Len(ps) + 1 /\ Len(ps) \in Nat
      /\ \A i \in 1 .. Len(ps) : qs[i] = ps[i]
      /\ qs[Len(ps) + 1] = x
  BY AppendProperties, LenProperties
<1> HIDE DEF qs
<1>2. Newest(qs, x) /\ \A t : Older(qs, t) <=> HasTag(ps, t)  BY <1>1 DEF Newest, Older, HasTag
<1>3. ASSUME NEW t, HasTag(ps, t) PROVE Holds(qs, t) = Holds(ps, t)
  <2>1. /\ Oldest(ps, t) \in 1 .. Len(ps) /\ ps[Oldest(ps, t)].tag = t
        /\ \A j \in 1 .. Oldest(ps, t) - 1 : ps[j].tag # t
    BY <1>3, OldestPoint
  <2>2. PICK i \in 1 .. Len(ps) : i = Oldest(ps, t)  BY <2>1
  <2>3. /\ i \in 1 .. Len(qs) /\ qs[i] = ps[i]
        /\ \A j \in 1 .. i - 1 : j \in 1 .. Len(ps) /\ qs[j] = ps[j]
    BY <1>1
  <2>4. Oldest(qs, t) = i
    <3>1. qs[i].tag = t /\ \A j \in 1 .. i - 1 : qs[j].tag # t  BY <2>1, <2>2, <2>3
    <3>2. QED  BY <1>1, <2>3, <3>1, FirstOldest
  <2>5. QED  BY <2>2, <2>3, <2>4 DEF Holds
<1>4. QED  BY <1>2, <1>3 DEF qs

(* SnapDelete leaves the snapshots of other tags alone, and of those of its  *)
(* own as many as there were besides the newest.                             *)
LEMMA WithoutHolds ==
    ASSUME NEW ps \in Seq(Point), NEW s, HasTag(ps, s)
    PROVE  /\ Len(ps) > 0 /\ ps[Len(ps)].tag = s =>
                \A t : HasTag(Without(ps, Oldest(ps, s)), t) <=> Older(ps, t)
           /\ \A t : t # s /\ HasTag(ps, t) =>
                Holds(Without(ps, Oldest(ps, s)), t) = Holds(ps, t)
<1> DEFINE o == Oldest(ps, s)
           qs == Without(ps, o)
<1>1. o \in 1 .. Len(ps) /\ ps[o].tag = s /\ Len(ps) \in Nat
  BY OldestPoint, LenProperties
<1>2. /\ qs \in Seq(Point) /\ Len(qs) = Len(ps) - 1
      /\ \A j \in 1 .. Len(ps) - 1 : qs[j] = IF j < o THEN ps[j] ELSE ps[j + 1]
  BY <1>1, WithoutPoint
<1> HIDE DEF qs, o
<1>3. ASSUME Len(ps) > 0, ps[Len(ps)].tag = s, NEW t PROVE HasTag(qs, t) <=> Older(ps, t)
  <2>1. ASSUME HasTag(qs, t) PROVE Older(ps, t)
    <3>1. PICK j \in 1 .. Len(ps) - 1 : qs[j].tag = t  BY <1>2, <2>1 DEF HasTag
    <3>2. CASE j < o  BY <1>1, <1>2, <3>1, <3>2 DEF Older
    <3>3. CASE ~(j < o) /\ j + 1 < Len(ps)
      <4>1. j + 1 \in 1 .. Len(ps) - 1 /\ ps[j + 1].tag = t  BY <1>1, <1>2, <3>1, <3>3
      <4>2. QED  BY <4>1 DEF Older
    <3>4. CASE ~(j < o) /\ ~(j + 1 < Len(ps))
      <4>1. j + 1 = Len(ps) /\ o \in 1 .. Len(ps) - 1  BY <1>1, <3>4
      <4>2. t = s  BY <1>2, <1>3, <3>1, <3>4, <4>1
      <4>3. QED  BY <1>1, <4>1, <4>2 DEF Older
    <3>5. QED  BY <3>2, <3>3, <3>4
  <2>2. ASSUME Older(ps, t) PROVE HasTag(qs, t)
    <3>1. PICK i \in 1 .. Len(ps) - 1 : ps[i].tag = t  BY <2>2 DEF Older
    <3>2. CASE i < o
      <4>1. i \in 1 .. Len(qs) /\ qs[i].tag = t  BY <1>1, <1>2, <3>1, <3>2
      <4>2. QED  BY <4>1 DEF HasTag
    <3>3. CASE i > o
      <4>1. i - 1 \in 1 .. Len(qs) /\ qs[i - 1].tag = t  BY <1>1, <1>2, <3>1, <3>3
      <4>2. QED  BY <4>1 DEF HasTag
    <3>4. CASE i = o
      <4>1. Len(ps) - 1 \in 1 .. Len(qs) /\ qs[Len(ps) - 1] = ps[Len(ps)]
        BY <1>1, <1>2, <3>1, <3>4
      <4>2. t = s  BY <1>1, <3>1, <3>4
      <4>3. QED  BY <1>3, <4>1, <4>2 DEF HasTag
    <3>5. QED  BY <1>1, <3>2, <3>3, <3>4
  <2>3. QED  BY <2>1, <2>2
<1>4. ASSUME NEW t, t # s, HasTag(ps, t) PROVE Holds(qs, t) = Holds(ps, t)
  <2>1. /\ Oldest(ps, t) \in 1 .. Len(ps) /\ ps[Oldest(ps, t)].tag = t
        /\ \A j \in 1 .. Oldest(ps, t) - 1 : ps[j].tag # t
    BY <1>4, OldestPoint
  <2>2. PICK i \in 1 .. Len(ps) : i = Oldest(ps, t)  BY <2>1
  <2>3. i # o  BY <1>1, <1>4, <2>1, <2>2
  <2>4. PICK k \in 1 .. Len(qs) : k = IF i < o THEN i ELSE i - 1  BY <1>1, <1>2, <2>3
  <2>5. qs[k] = ps[i] /\ \A j \in 1 .. k - 1 : qs[j].tag # t
    <3>1. qs[k] = ps[i]  BY <1>1, <1>2, <2>3, <2>4
    <3>2. ASSUME NEW j \in 1 .. k - 1 PROVE qs[j].tag # t
      <4>1. CASE j < o
        <5>0. /\ j \in Nat /\ i \in Nat /\ o \in Nat /\ j < o /\ j <= k - 1
              /\ k = IF i < o THEN i ELSE i - 1
          BY <1>1, <2>4, <4>1
        <5>1. j \in 1 .. i - 1  BY <5>0
        <5>2. j \in 1 .. Len(ps) - 1  BY <1>1, <5>0
        <5>3. qs[j] = ps[j]  BY <1>2, <4>1, <5>2
        <5>4. QED  BY <2>1, <2>2, <5>1, <5>3
      <4>2. CASE ~(j < o)
        <5>1. j + 1 \in 1 .. i - 1 /\ qs[j] = ps[j + 1]  BY <1>1, <1>2, <2>3, <2>4, <4>2
        <5>2. QED  BY <2>1, <2>2, <5>1
      <4>3. QED  BY <4>1, <4>2
    <3>3. QED  BY <3>1, <3>2
  <2>6. Oldest(qs, t) = k  BY <1>2, <2>1, <2>2, <2>5, FirstOldest
  <2>7. QED  BY <2>2, <2>5, <2>6 DEF Holds
<1>5. QED  BY <1>3, <1>4 DEF qs, o

-----------------------------------------------------------------------------
(* HalfInv is inductive.                                                     *)

(* The tags of vm.json are those of the list.                                *)
LEMMA RecordedSame == ASSUME NEW v \in VM, rec'[v] = rec[v] PROVE Recorded(v)' = Recorded(v)
  BY DEF Recorded

(* Outside a snapshot none is under way.                                     *)
LEMMA NoneMade ==
    ASSUME NEW v \in VM
    PROVE  (created[v] = 0 => Made(v) = {}) /\ (created'[v] = 0 => Made(v)' = {})
  BY DisksAssumption DEF Made, Disk

(* Half speaks of the state of v only.                                       *)
LEMMA HalfSame == ASSUME NEW v \in VM, Half(v), Untouched(v) PROVE Half(v)'
  BY DEF Half, Made, Untouched, Same

(* Where neither a snapshot nor a restore is under way.                      *)
LEMMA HalfIdle ==
    ASSUME NEW v \in VM, exists'[v], pc'[v] # "apply", created'[v] = 0
    PROVE  Half(v)'
  BY NoneMade DEF Half

(* The operation is over, or has not begun.                                  *)
LEMMA OutsideHalf ==
    ASSUME HalfInv, SnapInv', NEW v \in VM,
           \/ Create(v) \/ Use(v) \/ Save(v) \/ EndRestore(v) \/ Crash(v)
           \/ \E s \in VM : Clone(s, v)
    PROVE  Half(v)'
<1>1. pc'[v] = "idle"
  BY DEF Create, Use, Save, EndRestore, Crash, Clone, Return, Goto, job, HalfInv, SnapInv,
         ControlTypes
<1>2. created'[v] = 0  BY <1>1 DEF SnapInv, Sound, Tagging
<1>3. exists'[v]
  <2>1. CASE Create(v) \/ \E s \in VM : Clone(s, v)
    BY <2>1 DEF Create, Clone, HalfInv, SnapInv, DataTypes
  <2>2. CASE Use(v)  BY <2>2 DEF Use
  <2>3. CASE Save(v) \/ EndRestore(v) \/ Crash(v)
    <3>1. pc[v] # "idle" /\ exists' = exists  BY <2>3 DEF Save, EndRestore, Crash
    <3>2. QED  BY <3>1 DEF HalfInv, SnapInv, Sound
  <2>4. QED  BY <2>1, <2>2, <2>3
<1>4. QED  BY <1>1, <1>2, <1>3, HalfIdle

(* snapshot, before the first image.                                         *)
LEMMA SnapshotHalf == ASSUME HalfInv, NEW v \in VM, Snapshot(v) PROVE Half(v)'
<1>1. /\ pc[v] = "idle" /\ exists[v] /\ created[v] = 0
      /\ UNCHANGED <<points, rec, content, created, exists>>
  BY DEF Snapshot, HalfInv, SnapInv, Sound, Tagging
<1>2. CASE UNCHANGED <<pc, tag, at>>  BY <1>1, <1>2, HalfSame DEF HalfInv, Untouched, Same
<1>3. CASE Goto(v, "create", 1)
  <2>1. pc'[v] = "create"  BY <1>3 DEF Goto, HalfInv, SnapInv, ControlTypes
  <2>2. QED  BY <1>1, <2>1, HalfIdle
<1>4. QED  BY <1>2, <1>3 DEF Snapshot

(* restore, before the first image.                                          *)
LEMMA RestoreHalf == ASSUME HalfInv, NEW v \in VM, Restore(v) PROVE Half(v)'
<1>1. /\ pc[v] = "idle" /\ exists[v] /\ created[v] = 0
      /\ UNCHANGED <<points, rec, content, created, exists>>
  BY DEF Restore, HalfInv, SnapInv, Sound, Tagging
<1>2. CASE UNCHANGED <<pc, tag, at>>  BY <1>1, <1>2, HalfSame DEF HalfInv, Untouched, Same
<1>3. CASE Goto(v, "apply", 1)
  <2>1. at'[v] = 1 /\ \A d \in Disk : ~(d < 1)
    BY <1>3, DisksAssumption DEF Goto, HalfInv, SnapInv, ControlTypes, Disk
  <2>2. QED  BY <1>1, <2>1, NoneMade DEF Half
<1>4. QED  BY <1>2, <1>3 DEF Restore

(* The images of one VM, and one image among them.                           *)
LEMMA OneImage ==
    ASSUME SnapInv, NEW v \in VM, NEW d \in Disk, NEW ps,
           points' = [points EXCEPT ![v][d] = ps]
    PROVE  points'[v][d] = ps /\ \A e \in Disk : e # d => points'[v][e] = points[v][e]
  BY DEF SnapInv, DataTypes

(* What TagDisk works on.                                                    *)
LEMMA TagDiskFacts ==
    ASSUME HalfInv, NEW v \in VM, TagDisk(v)
    PROVE  /\ pc[v] = "create" /\ at[v] \in Disk /\ created[v] = at[v] - 1 /\ exists[v]
           /\ points[v][at[v]] \in Seq(Point) /\ tag[v] \in Tag \ Recorded(v)
           /\ [tag |-> tag[v], holds |-> content[v][at[v]]] \in Point
           /\ at[v] \notin Made(v) /\ UNCHANGED <<content, rec, tag, exists>>
<1>1. /\ pc[v] = "create" /\ at[v] \in Disk /\ created[v] = at[v] - 1 /\ exists[v]
      /\ tag[v] \in Tag \ Recorded(v) /\ UNCHANGED <<content, rec, tag, exists>>
  BY DEF TagDisk, HalfInv, SnapInv, ControlTypes, Sound, Tagging
<1>2. points[v][at[v]] \in Seq(Point) /\ content[v][at[v]] \in 0 .. MaxWrites
  BY <1>1 DEF HalfInv, SnapInv, DataTypes
<1>3. at[v] \notin Made(v)  BY <1>1, DisksAssumption DEF Made, Disk
<1>4. QED  BY <1>1, <1>2, <1>3 DEF Point

(* The images that have been tagged after it.                                *)
LEMMA TagDiskMade ==
    ASSUME HalfInv, NEW v \in VM, TagDisk(v)
    PROVE  \/ /\ points' = Tagged(v) /\ Made(v)' = Made(v) \cup {at[v]}
              /\ pc'[v] \in {"create", "save"}
           \/ /\ points' = points \/ (Faults # {} /\ points' = Tagged(v))
              /\ Made(v)' = Made(v) /\ pc'[v] = "undo"
<1>1. /\ pc[v] = "create" /\ at[v] \in Disk /\ created[v] = at[v] - 1
  BY TagDiskFacts
<1>2. Made(v) = {d \in Disk : d <= at[v] - 1}  BY <1>1 DEF Made
<1>3. CASE /\ points' = Tagged(v) /\ created' = [created EXCEPT ![v] = at[v]]
           /\ IF at[v] = Disks THEN Goto(v, "save", 0) ELSE Goto(v, "create", at[v] + 1)
  <2>1. created'[v] = at[v] /\ pc'[v] \in {"create", "save"}
    BY <1>3 DEF Goto, HalfInv, SnapInv, ControlTypes
  <2>2. Made(v)' = {d \in Disk : d <= at[v]}  BY <2>1 DEF Made
  <2>3. Made(v)' = Made(v) \cup {at[v]}  BY <1>1, <1>2, <2>2, DisksAssumption DEF Disk
  <2>4. QED  BY <1>3, <2>1, <2>3
<1>4. CASE /\ points' = points \/ ("interrupt" \in Faults /\ points' = Tagged(v))
           /\ Goto(v, "undo", 1) /\ UNCHANGED created
  <2>1. created'[v] = at[v] - 1 /\ pc'[v] = "undo" /\ at'[v] = 1
    BY <1>1, <1>4 DEF Goto, HalfInv, SnapInv, ControlTypes
  <2>2. Made(v)' = {d \in Disk : d <= at[v] - 1 /\ 1 <= d}  BY <2>1 DEF Made
  <2>3. Made(v)' = Made(v)  BY <1>2, <2>2, DisksAssumption DEF Disk
  <2>4. QED  BY <1>4, <2>1, <2>3
<1>5. QED  BY <1>3, <1>4 DEF TagDisk

(* SnapCreate on one image.                                                  *)
LEMMA TagDiskHalf == ASSUME HalfInv, NEW v \in VM, TagDisk(v) PROVE Half(v)'
<1> DEFINE ps == points[v][at[v]]
           x == [tag |-> tag[v], holds |-> content[v][at[v]]]
<1>1. /\ at[v] \in Disk /\ exists'[v] /\ ps \in Seq(Point) /\ x \in Point
      /\ at[v] \notin Made(v) /\ UNCHANGED <<content, tag>>
  BY TagDiskFacts
<1>2. Half(v) /\ SnapInv  BY DEF HalfInv
<1>3. pc'[v] # "apply"  BY TagDiskMade
<1>4. /\ \A d \in Disk : d # at[v] => points'[v][d] = points[v][d]
      /\ points' = Tagged(v) => points'[v][at[v]] = Append(ps, x)
  <2>1. CASE points' = points /\ points' # Tagged(v)  BY <2>1
  <2>2. CASE points' = Tagged(v)
    <3> DEFINE qs == Append(ps, x)
    <3>1. points' = [points EXCEPT ![v][at[v]] = qs]  BY <2>2 DEF Tagged
    <3> HIDE DEF qs
    <3>2. points'[v][at[v]] = qs /\ \A d \in Disk : d # at[v] => points'[v][d] = points[v][d]
      BY <1>1, <1>2, <3>1, OneImage
    <3>3. QED  BY <3>2 DEF qs
  <2>3. QED  BY <2>1, <2>2, TagDiskMade
<1>5. ASSUME NEW d \in Made(v)' PROVE Newest(points'[v][d], [tag |-> tag'[v], holds |-> content'[v][d]])
  <2>1. CASE d \in Made(v)
    <3>1. d \in Disk /\ d # at[v]  BY <1>1, <2>1 DEF Made
    <3>2. QED  BY <1>1, <1>2, <1>4, <2>1, <3>1 DEF Half
  <2>2. CASE d \notin Made(v)
    <3>1. d = at[v] /\ points' = Tagged(v)  BY <1>5, <2>2, TagDiskMade
    <3>2. Newest(Append(ps, x), x)  BY <1>1, AppendHolds
    <3>3. QED  BY <1>1, <1>4, <3>1, <3>2
  <2>3. QED  BY <2>1, <2>2
<1>6. QED  BY <1>1, <1>3, <1>5 DEF Half

(* What Undo works on: the newest snapshot of an image is the one it made.   *)
LEMMA UndoFacts ==
    ASSUME HalfInv, NEW v \in VM, Undo(v)
    PROVE  /\ exists[v] /\ pc[v] = "undo" /\ tag[v] \in Tag \ Recorded(v)
           /\ UNCHANGED <<content, rec, exists>>
           /\ \/ at[v] > created[v] /\ Return(v) /\ points' = points /\ Made(v) = {}
              \/ /\ \/ points' = [points EXCEPT ![v][at[v]] =
                                  Without(points[v][at[v]], Oldest(points[v][at[v]], tag[v]))]
                    \/ Faults # {} /\ points' = points
                 /\ pc'[v] = "undo" /\ tag'[v] = tag[v]
                 /\ at[v] \in Made(v) /\ Made(v)' = Made(v) \ {at[v]}
                 /\ points[v][at[v]] \in Seq(Point) /\ HasTag(points[v][at[v]], tag[v])
<1>1. /\ exists[v] /\ pc[v] = "undo" /\ tag[v] \in Tag \ Recorded(v)
      /\ UNCHANGED <<content, rec, exists>>
      /\ at[v] >= 1 /\ at[v] \in Nat /\ created[v] \in 0 .. Disks
  BY DisksAssumption DEF Undo, HalfInv, SnapInv, ControlTypes, Sound, Tagging
<1>2. Made(v) = {d \in Disk : d <= created[v] /\ at[v] <= d}  BY <1>1 DEF Made
<1>3. CASE at[v] > created[v] /\ Return(v) /\ points' = points
  BY <1>1, <1>2, <1>3, DisksAssumption DEF Disk
<1>4. CASE /\ at[v] <= created[v] /\ Goto(v, "undo", at[v] + 1) /\ UNCHANGED <<tag, created>>
           /\ \/ points' = [points EXCEPT ![v][at[v]] =
                               Without(points[v][at[v]], Oldest(points[v][at[v]], tag[v]))]
              \/ Faults # {} /\ points' = points
  <2>1. pc'[v] = "undo" /\ at'[v] = at[v] + 1 /\ created'[v] = created[v] /\ tag'[v] = tag[v]
    BY <1>4 DEF Goto, HalfInv, SnapInv, ControlTypes
  <2>2. at[v] \in Disk  BY <1>1, <1>4, DisksAssumption DEF Disk
  <2>3. at[v] \in Made(v)  BY <1>1, <1>2, <1>4, <2>2
  <2>4. Made(v)' = {d \in Disk : d <= created[v] /\ at[v] + 1 <= d}  BY <2>1 DEF Made
  <2>5. Made(v)' = Made(v) \ {at[v]}  BY <1>1, <1>2, <2>4, DisksAssumption DEF Disk
  <2>6. points[v][at[v]] \in Seq(Point)  BY <2>2 DEF HalfInv, SnapInv, DataTypes
  <2>7. HasTag(points[v][at[v]], tag[v])
    <3>1. Sound(v)  BY DEF HalfInv, SnapInv
    <3>2. at[v] >= at[v]  BY <1>1
    <3>3. QED  BY <1>1, <1>4, <2>2, <3>1, <3>2 DEF Sound, On
  <2>8. QED  BY <1>1, <1>4, <2>1, <2>3, <2>5, <2>6, <2>7
<1>5. QED  BY <1>3, <1>4 DEF Undo

(* SnapDelete on one image, or the end of the rollback.                      *)
LEMMA UndoHalf == ASSUME HalfInv, SnapInv', NEW v \in VM, Undo(v) PROVE Half(v)'
<1>1. exists'[v] /\ UNCHANGED <<content, rec>>  BY UndoFacts
<1>2. CASE Return(v)
  <2>1. pc'[v] = "idle" /\ created'[v] = 0  BY <1>2, ReturnTypes DEF HalfInv, SnapInv
  <2>2. QED  BY <1>1, <2>1, HalfIdle
<1>3. CASE ~Return(v)
  <2>1. /\ pc'[v] = "undo" /\ tag'[v] = tag[v]
        /\ at[v] \in Made(v) /\ Made(v)' = Made(v) \ {at[v]}
    BY <1>3, UndoFacts
  <2>2. at[v] \in Disk /\ SnapInv /\ Half(v)  BY <2>1 DEF Made, HalfInv
  <2>3. \A d \in Disk : d # at[v] => points'[v][d] = points[v][d]
    <3> DEFINE qs == Without(points[v][at[v]], Oldest(points[v][at[v]], tag[v]))
    <3>1. points' = [points EXCEPT ![v][at[v]] = qs] \/ points' = points  BY <1>3, UndoFacts
    <3> HIDE DEF qs
    <3>2. CASE points' = [points EXCEPT ![v][at[v]] = qs]  BY <2>2, <3>2, OneImage
    <3>3. QED  BY <3>1, <3>2
  <2>4. QED
    <3>1. ASSUME NEW d \in Made(v)'
          PROVE  Newest(points'[v][d], [tag |-> tag'[v], holds |-> content'[v][d]])
      <4>1. d \in Made(v) /\ d # at[v] /\ d \in Disk  BY <2>1 DEF Made
      <4>2. QED  BY <1>1, <2>1, <2>2, <2>3, <4>1 DEF Half
    <3>2. QED  BY <1>1, <2>1, <3>1 DEF Half
<1>4. QED  BY <1>2, <1>3

(* SnapApply on one image.                                                   *)
LEMMA ApplyHalf == ASSUME HalfInv, NEW v \in VM, Apply(v) PROVE Half(v)'
<1>1. /\ pc[v] = "apply" /\ UNCHANGED <<points, rec, exists, created>> /\ at[v] \in Disk
      /\ exists[v] /\ created[v] = 0
  BY DEF Apply, HalfInv, SnapInv, Sound, Tagging
<1>2. Half(v)  BY DEF HalfInv
<1>3. CASE pc'[v] \in {"mixed", "resave"}  BY <1>1, <1>3, HalfIdle
<1>4. CASE pc'[v] \notin {"mixed", "resave"}
  <2>1. /\ pc'[v] = "apply" /\ at'[v] = at[v] + 1 /\ tag'[v] = tag[v]
        /\ content' = [content EXCEPT ![v][at[v]] = Holds(points[v][at[v]], tag[v])]
    BY <1>4 DEF Apply, Goto, Holds, HalfInv, SnapInv, ControlTypes
  <2>2. /\ content'[v][at[v]] = Holds(points[v][at[v]], tag[v])
        /\ \A d \in Disk : d # at[v] => content'[v][d] = content[v][d]
    BY <1>1, <2>1 DEF HalfInv, SnapInv, DataTypes
  <2>3. \A d \in Disk : d < at[v] + 1 => d = at[v] \/ d < at[v]
    BY <1>1, DisksAssumption DEF Disk
  <2>4. QED  BY <1>1, <1>2, <2>1, <2>2, <2>3, NoneMade DEF Half
<1>5. QED  BY <1>3, <1>4

(* Each step works on one VM.                                                *)
Steps(v) ==
    \/ Create(v) \/ Use(v) \/ (\E s \in VM : Clone(s, v))
    \/ Snapshot(v) \/ TagDisk(v) \/ Undo(v) \/ Save(v)
    \/ Restore(v) \/ Apply(v) \/ EndRestore(v) \/ Crash(v)

Apart(v) == \A u \in VM : u # v => Untouched(u)

(* The actor of a step, and whom the step leaves alone.                      *)
LEMMA OneActs == ASSUME SnapInv, Next PROVE \E v \in VM : Apart(v) /\ Steps(v)
<1>1. PICK v \in VM : Steps(v)  BY DEF Next, Steps
<1>2. ASSUME NEW u \in VM, u # v PROVE Untouched(u)
  <2> USE DEF Untouched, Same, Goto, Return, job, SnapInv, ControlTypes, DataTypes
  <2>1. CASE Create(v) \/ Use(v) \/ \E s \in VM : Clone(s, v)
    BY <1>2, <2>1 DEF Create, Use, Clone
  <2>2. CASE Snapshot(v) \/ Restore(v)  BY <1>2, <2>2 DEF Snapshot, Restore
  <2>3. CASE TagDisk(v)  BY <1>2, <2>3 DEF TagDisk, Tagged
  <2>4. CASE Undo(v)  BY <1>2, <2>4 DEF Undo
  <2>5. CASE Save(v)  BY <1>2, <2>5 DEF Save
  <2>6. CASE Apply(v)  BY <1>2, <2>6 DEF Apply
  <2>7. CASE EndRestore(v) \/ Crash(v)  BY <1>2, <2>7 DEF EndRestore, Crash
  <2>8. QED  BY <1>1, <2>1, <2>2, <2>3, <2>4, <2>5, <2>6, <2>7 DEF Steps
<1>3. QED  BY <1>1, <1>2 DEF Apart

(* No step breaks the invariant.                                             *)
LEMMA HalfNext == HalfInv /\ [Next]_vars => HalfInv'
<1> SUFFICES ASSUME HalfInv, [Next]_vars PROVE HalfInv'  OBVIOUS
<1>1. SnapInv'  BY NextInv DEF HalfInv
<1>2. ASSUME NEW u \in VM PROVE Half(u)'
  <2>0. Half(u)  BY DEF HalfInv
  <2>1. CASE UNCHANGED vars  BY <2>0, <2>1, HalfSame DEF vars, job, Untouched, Same
  <2>2. CASE Next
    <3>1. PICK v \in VM : Apart(v) /\ Steps(v)  BY <2>2, OneActs DEF HalfInv
    <3>2. CASE u # v  BY <2>0, <3>1, <3>2, HalfSame DEF Apart
    <3>3. CASE u = v
      BY <1>1, <3>1, <3>3, OutsideHalf, SnapshotHalf, TagDiskHalf, UndoHalf, RestoreHalf,
         ApplyHalf
         DEF Steps
    <3>4. QED  BY <3>2, <3>3
  <2>3. QED  BY <2>1, <2>2
<1>3. QED  BY <1>1, <1>2 DEF HalfInv

-----------------------------------------------------------------------------
(* What AtomicSnapshot sees of the images.                                   *)

DisksNow == [v \in VM |-> IF ~exists[v] THEN None
                          ELSE IF v \in reverting THEN held[v][tag[v]] ELSE content[v]]
SavedNow == [v \in VM |-> [t \in Tag |-> IF t \in Recorded(v) THEN held[v][t]
                                         ELSE IF t \in stray[v] THEN << >> ELSE None]]
RestoringNow == [v \in VM |-> IF v \in reverting THEN tag[v] ELSE None]

(* The tags an image carries besides the snapshot under way.                 *)
Stains(v, d, t) == IF d \in Made(v) THEN Older(points[v][d], t) ELSE HasTag(points[v][d], t)

Straying == \A v \in VM : \A t \in Tag : t \in stray[v] <=> \E d \in Disk : Stains(v, d, t)

(* A tag on all images holds one state of the whole VM.                      *)
Whole ==
    \A v \in VM : \A t \in Tag :
        (\A d \in Disk : HasTag(points[v][d], t)) =>
            /\ held[v][t] \in Contents
            /\ held[v][t] = [d \in Disk |-> Holds(points[v][d], t)]

(* A tag is stray where an image carries it besides the newest snapshot.     *)
LEMMA StrayIs == SnapInv => Straying
<1> SUFFICES ASSUME SnapInv, NEW v \in VM, NEW t \in Tag
             PROVE  t \in stray[v] <=> \E d \in Disk : Stains(v, d, t)
  BY DEF Straying
<1> DEFINE Found(d) == \E i \in 1 .. Len(points[v][d]) :
                          points[v][d][i].tag = t /\ ~(i = Len(points[v][d]) /\ d \in Made(v))
<1>1. t \in stray[v] <=> \E d \in Disk : Found(d)  BY DEF stray
<1>2. ASSUME NEW d \in Disk PROVE Found(d) <=> Stains(v, d, t)
  <2>1. Len(points[v][d]) \in Nat
    <3>1. points[v][d] \in Seq(Point)  BY DEF SnapInv, DataTypes
    <3>2. QED  BY <3>1, LenProperties
  <2>2. CASE d \in Made(v)
    <3>1. \A i \in 1 .. Len(points[v][d]) :
            i # Len(points[v][d]) <=> i \in 1 .. Len(points[v][d]) - 1
      BY <2>1
    <3>2. \A i \in 1 .. Len(points[v][d]) - 1 : i \in 1 .. Len(points[v][d])  BY <2>1
    <3>3. QED  BY <2>2, <3>1, <3>2 DEF Stains, Older
  <2>3. CASE d \notin Made(v)  BY <2>3 DEF Stains, HasTag
  <2>4. QED  BY <2>2, <2>3
<1> HIDE DEF Found
<1>3. QED  BY <1>1, <1>2

(* Each image has its part in it.                                            *)
LEMMA HeldWhole == SnapInv => Whole
<1> SUFFICES ASSUME SnapInv, NEW v \in VM, NEW t \in Tag, \A d \in Disk : HasTag(points[v][d], t)
             PROVE  /\ held[v][t] \in Contents
                    /\ held[v][t] = [d \in Disk |-> Holds(points[v][d], t)]
  BY DEF Whole
<1>1. \A d \in Disk : points[v][d] \in Seq(Point)  BY DEF SnapInv, DataTypes
<1>2. ASSUME NEW d \in Disk PROVE Holds(points[v][d], t) \in 0 .. MaxWrites
  <2>1. Oldest(points[v][d], t) \in 1 .. Len(points[v][d])  BY <1>1, OldestPoint
  <2>2. points[v][d][Oldest(points[v][d], t)] \in Point  BY <1>1, <2>1, ElementOfSeq
  <2>3. QED  BY <2>2 DEF Holds, Point
<1>3. held[v][t] = [d \in Disk |-> Holds(points[v][d], t)]  BY DEF held, Holds
<1>4. QED  BY <1>2, <1>3 DEF Contents

(* A listed tag is a tag, and on every image.                                *)
LEMMA RecordedTags ==
    ASSUME SnapInv, NEW v \in VM, NEW t \in Recorded(v)
    PROVE  t \in Tag /\ \A d \in Disk : HasTag(points[v][d], t)
<1>1. rec[v] \in Seq(Tag)  BY DEF SnapInv, DataTypes
<1>2. t \in Tag  BY <1>1 DEF Recorded
<1>3. QED  BY <1>2 DEF SnapInv, Sound, Listed

(* What AtomicSnapshot sees of a VM that a step leaves alone.                *)
LEMMA SeesSame ==
    ASSUME NEW u \in VM, Untouched(u)
    PROVE  /\ DisksNow'[u] = DisksNow[u] /\ SavedNow'[u] = SavedNow[u]
           /\ RestoringNow'[u] = RestoringNow[u]
<1>1. Recorded(u)' = Recorded(u) /\ Made(u)' = Made(u)
  BY DEF Untouched, Same, Recorded, Made
<1>2. held'[u] = held[u] /\ stray'[u] = stray[u] /\ (u \in reverting' <=> u \in reverting)
  BY <1>1 DEF Untouched, Same, held, stray, reverting
<1>3. QED  BY <1>1, <1>2 DEF DisksNow, SavedNow, RestoringNow, Untouched, Same

(* What it sees of the VM that a step works on is all that may change.       *)
LEMMA SeesOne ==
    ASSUME NEW v \in VM, Apart(v)
    PROVE  /\ DisksNow' = [DisksNow EXCEPT ![v] = DisksNow'[v]]
           /\ SavedNow' = [SavedNow EXCEPT ![v] = SavedNow'[v]]
           /\ RestoringNow' = [RestoringNow EXCEPT ![v] = RestoringNow'[v]]
<1>1. \A u \in VM : u # v =>
        /\ DisksNow'[u] = DisksNow[u] /\ SavedNow'[u] = SavedNow[u]
        /\ RestoringNow'[u] = RestoringNow[u]
  BY SeesSame DEF Apart
<1>2. /\ DisksNow = [u \in VM |-> DisksNow[u]]
      /\ DisksNow' = [u \in VM |-> DisksNow'[u]]
      /\ SavedNow = [u \in VM |-> SavedNow[u]]
      /\ SavedNow' = [u \in VM |-> SavedNow'[u]]
      /\ RestoringNow = [u \in VM |-> RestoringNow[u]]
      /\ RestoringNow' = [u \in VM |-> RestoringNow'[u]]
  BY Zenon DEF DisksNow, SavedNow, RestoringNow
<1>3. QED  BY <1>1, <1>2

(* A tag a step leaves as it is, listed or stray or neither.                 *)
Kept(v, t) ==
    /\ t \in Recorded(v)' <=> t \in Recorded(v)
    /\ t \in Recorded(v) => \A d \in Disk : Holds(points'[v][d], t) = Holds(points[v][d], t)
    /\ t \notin Recorded(v) => (t \in stray'[v] <=> t \in stray[v])

LEMMA SavedKept ==
    ASSUME SnapInv, SnapInv', NEW v \in VM, NEW t \in Tag, Kept(v, t)
    PROVE  SavedNow'[v][t] = SavedNow[v][t]
<1>1. Whole /\ Whole'  BY HeldWhole, PTL
<1>2. CASE t \in Recorded(v)
  <2>1. t \in Recorded(v)'  BY <1>2 DEF Kept
  <2>2. \A d \in Disk : HasTag(points[v][d], t) /\ HasTag(points'[v][d], t)
    BY <1>2, <2>1 DEF SnapInv, Sound, Listed
  <2>3. held[v][t] = [d \in Disk |-> Holds(points[v][d], t)]  BY <1>1, <2>2 DEF Whole
  <2>4. held'[v][t] = [d \in Disk |-> Holds(points'[v][d], t)]  BY <1>1, <2>2 DEF Whole
  <2>5. QED  BY <1>2, <2>1, <2>3, <2>4 DEF Kept, SavedNow
<1>3. CASE t \notin Recorded(v)  BY <1>3 DEF Kept, SavedNow
<1>4. QED  BY <1>2, <1>3

(* AtomicSnapshot sees no change of the tags of v.                           *)
LEMMA SavedStays ==
    ASSUME SnapInv, SnapInv', NEW v \in VM, Apart(v), \A t \in Tag : Kept(v, t)
    PROVE  SavedNow' = SavedNow
<1>1. \A t \in Tag : SavedNow'[v][t] = SavedNow[v][t]  BY SavedKept
<1>2. SavedNow'[v] = SavedNow[v]  BY <1>1 DEF SavedNow
<1>3. SavedNow = [SavedNow EXCEPT ![v] = SavedNow[v]]  BY DEF SavedNow
<1>4. QED  BY <1>2, <1>3, SeesOne

(* A step that takes no listed tag from an image and leaves no image another *)
(* tag.                                                                      *)
LEMMA ImagesKept ==
    ASSUME SnapInv, SnapInv', NEW v \in VM, rec'[v] = rec[v], NEW t \in Tag,
           t \in Recorded(v) => \A d \in Disk : Holds(points'[v][d], t) = Holds(points[v][d], t),
           \A d \in Disk : Stains(v, d, t)' <=> Stains(v, d, t)
    PROVE  Kept(v, t)
<1>1. Straying /\ Straying'  BY StrayIs, PTL
<1>2. t \in stray[v] <=> \E d \in Disk : Stains(v, d, t)  BY <1>1 DEF Straying
<1>3. t \in stray'[v] <=> \E d \in Disk : Stains(v, d, t)'  BY <1>1 DEF Straying
<1>4. Recorded(v)' = Recorded(v)  BY RecordedSame
<1>5. QED  BY <1>2, <1>3, <1>4 DEF Kept

(* A step that may leave the tag of a snapshot under way on an image, for    *)
(* good: something failed.                                                   *)
Leaves(v) ==
    /\ Faults # {} /\ exists[v] /\ tag[v] \in Tag \ Recorded(v) /\ rec'[v] = rec[v]
    /\ tag[v] \in stray[v] => tag[v] \in stray'[v]
    /\ \A t \in Tag : t # tag[v] => Kept(v, t)

(* The snapshot gives up images it has tagged.                               *)
LEMMA DropsStray ==
    ASSUME HalfInv, SnapInv', NEW v \in VM, points'[v] = points[v],
           Made(v)' \subseteq Made(v), NEW t \in Tag
    PROVE  /\ t \in stray[v] => t \in stray'[v]
           /\ t # tag[v] => (t \in stray'[v] <=> t \in stray[v])
<1>1. SnapInv /\ Half(v)  BY DEF HalfInv
<1>2. Straying /\ Straying'  BY <1>1, StrayIs, PTL
<1>3. ASSUME NEW d \in Disk
      PROVE  (Stains(v, d, t) => Stains(v, d, t)') /\ (t # tag[v] => (Stains(v, d, t)' => Stains(v, d, t)))
  <2>1. Len(points[v][d]) \in Nat
    <3>1. points[v][d] \in Seq(Point)  BY <1>1 DEF SnapInv, DataTypes
    <3>2. QED  BY <3>1, LenProperties
  <2>2. Older(points[v][d], t) => HasTag(points[v][d], t)  BY <2>1 DEF Older, HasTag
  <2>3. CASE d \in Made(v) /\ d \notin Made(v)'
    <3>1. Newest(points[v][d], [tag |-> tag[v], holds |-> content[v][d]])  BY <1>1, <2>3 DEF Half
    <3>2. t # tag[v] /\ HasTag(points[v][d], t) => Older(points[v][d], t)
      BY <2>1, <3>1 DEF Newest, HasTag, Older
    <3>3. QED  BY <2>2, <2>3, <3>2 DEF Stains
  <2>4. CASE d \in Made(v) <=> d \in Made(v)'  BY <2>4 DEF Stains
  <2>5. QED  BY <2>3, <2>4
<1>4. t \in stray[v] <=> \E d \in Disk : Stains(v, d, t)  BY <1>2 DEF Straying
<1>5. t \in stray'[v] <=> \E d \in Disk : Stains(v, d, t)'  BY <1>2 DEF Straying
<1>6. QED  BY <1>3, <1>4, <1>5

LEMMA DropsKept ==
    ASSUME HalfInv, SnapInv', NEW v \in VM, points'[v] = points[v], rec'[v] = rec[v],
           Made(v)' \subseteq Made(v), NEW t \in Tag
    PROVE  /\ t # tag[v] => Kept(v, t)
           /\ t \in stray[v] => t \in stray'[v]
  BY DropsStray, RecordedSame DEF Kept

(* The images and the snapshot under way stay as they are.                   *)
LEMMA IdleKept ==
    ASSUME HalfInv, SnapInv', NEW v \in VM, points'[v] = points[v], rec'[v] = rec[v],
           Made(v)' = Made(v), NEW t \in Tag
    PROVE  Kept(v, t)
<1>1. SnapInv  BY DEF HalfInv
<1>2. QED  BY <1>1, ImagesKept DEF Stains

(* SnapCreate on one image, the tag of a snapshot under way.                 *)
LEMMA TagDiskKept ==
    ASSUME HalfInv, SnapInv', NEW v \in VM, TagDisk(v)
    PROVE  Leaves(v) \/ \A t \in Tag : Kept(v, t)
<1> DEFINE ps == points[v][at[v]]
           x == [tag |-> tag[v], holds |-> content[v][at[v]]]
           qs == Append(ps, x)
<1>1. /\ at[v] \in Disk /\ exists[v] /\ ps \in Seq(Point) /\ x \in Point /\ at[v] \notin Made(v)
      /\ tag[v] \in Tag \ Recorded(v) /\ rec'[v] = rec[v]
  BY TagDiskFacts
<1>2. SnapInv  BY DEF HalfInv
<1>3. CASE points' = points /\ Made(v)' = Made(v)  BY <1>1, <1>3, IdleKept
<1>4. CASE points' = Tagged(v)
  <2>1. points'[v][at[v]] = qs /\ \A d \in Disk : d # at[v] => points'[v][d] = points[v][d]
    <3>1. points' = [points EXCEPT ![v][at[v]] = qs]  BY <1>4 DEF Tagged
    <3> HIDE DEF qs
    <3>2. QED  BY <1>1, <1>2, <3>1, OneImage
  <2>2. \A t : /\ Older(qs, t) <=> HasTag(ps, t)
               /\ HasTag(ps, t) => Holds(qs, t) = Holds(ps, t)
               /\ HasTag(qs, t) <=> HasTag(ps, t) \/ t = tag[v]
    <3>1. x.tag = tag[v]  OBVIOUS
    <3> HIDE DEF ps, x
    <3>2. QED  BY <1>1, <3>1, AppendHolds, AppendPoint
  <2>3. ASSUME NEW t \in Recorded(v)
        PROVE  \A d \in Disk : Holds(points'[v][d], t) = Holds(points[v][d], t)
    <3>1. HasTag(ps, t)  BY <1>1, <1>2, RecordedTags
    <3> HIDE DEF qs
    <3>2. QED  BY <2>1, <2>2, <3>1
  <2> HIDE DEF qs
  <2>4. CASE Made(v)' = Made(v) \cup {at[v]}
    <3>1. ASSUME NEW t \in Tag, NEW d \in Disk PROVE Stains(v, d, t)' <=> Stains(v, d, t)
      <4>1. CASE d = at[v]  BY <1>1, <2>1, <2>2, <2>4, <4>1 DEF Stains
      <4>2. CASE d # at[v]  BY <2>1, <2>4, <4>2 DEF Stains
      <4>3. QED  BY <4>1, <4>2
    <3>2. QED  BY <1>1, <1>2, <2>3, <3>1, ImagesKept
  <2>5. CASE Faults # {} /\ Made(v)' = Made(v)
    <3>1. ASSUME NEW t \in Tag, NEW d \in Disk
          PROVE  /\ Stains(v, d, t) => Stains(v, d, t)'
                 /\ t # tag[v] => (Stains(v, d, t)' <=> Stains(v, d, t))
      <4>1. CASE d = at[v]  BY <1>1, <2>1, <2>2, <2>5, <4>1 DEF Stains
      <4>2. CASE d # at[v]  BY <2>1, <2>5, <4>2 DEF Stains
      <4>3. QED  BY <4>1, <4>2
    <3>2. \A t \in Tag : t # tag[v] => Kept(v, t)  BY <1>1, <1>2, <2>3, <3>1, ImagesKept
    <3>3. tag[v] \in stray[v] => tag[v] \in stray'[v]
      <4>1. Straying /\ Straying'  BY <1>2, StrayIs, PTL
      <4>2. tag[v] \in stray[v] <=> \E d \in Disk : Stains(v, d, tag[v])
        BY <1>1, <4>1 DEF Straying
      <4>3. \A t \in Tag : t \in stray'[v] <=> \E d \in Disk : Stains(v, d, t)'
        BY <4>1 DEF Straying
      <4>4. QED  BY <1>1, <3>1, <4>2, <4>3
    <3>4. QED  BY <1>1, <2>5, <3>2, <3>3 DEF Leaves
  <2>6. QED  BY <2>4, <2>5, <1>3, TagDiskMade
<1>5. QED  BY <1>3, <1>4, TagDiskMade

(* SnapDelete on one image, of the tag of the snapshot that gave up.         *)
LEMMA UndoKept ==
    ASSUME HalfInv, SnapInv', NEW v \in VM, Undo(v)
    PROVE  Leaves(v) \/ \A t \in Tag : Kept(v, t)
<1> DEFINE ps == points[v][at[v]]
           qs == Without(ps, Oldest(ps, tag[v]))
<1>1. SnapInv /\ Half(v) /\ exists[v] /\ tag[v] \in Tag \ Recorded(v) /\ rec'[v] = rec[v]
  BY UndoFacts DEF HalfInv
<1>2. CASE Return(v) /\ points' = points /\ Made(v) = {}
  <2>1. created'[v] = 0  BY <1>1, <1>2, ReturnTypes DEF SnapInv
  <2>2. Made(v)' = Made(v)  BY <1>2, <2>1, NoneMade
  <2>3. QED  BY <1>1, <1>2, <2>2, IdleKept
<1>3. CASE Made(v)' = Made(v) \ {at[v]} /\ Faults # {} /\ points' = points
  <2>1. /\ \A t \in Tag : t # tag[v] => Kept(v, t)
        /\ tag[v] \in stray[v] => tag[v] \in stray'[v]
    BY <1>1, <1>3, DropsKept
  <2>2. QED  BY <1>1, <1>3, <2>1 DEF Leaves
<1>4. CASE /\ points' = [points EXCEPT ![v][at[v]] = qs]
           /\ at[v] \in Made(v) /\ Made(v)' = Made(v) \ {at[v]}
           /\ ps \in Seq(Point) /\ HasTag(ps, tag[v])
  <2>1. at[v] \in Disk  BY <1>4 DEF Made
  <2>2. points'[v][at[v]] = qs /\ \A d \in Disk : d # at[v] => points'[v][d] = points[v][d]
    <3> HIDE DEF qs
    <3>1. QED  BY <1>1, <1>4, <2>1, OneImage
  <2>3. Len(ps) > 0 /\ ps[Len(ps)].tag = tag[v]
    <3>1. Newest(ps, [tag |-> tag[v], holds |-> content[v][at[v]]])
      BY <1>1, <1>4, <2>1, Zenon DEF Half
    <3>2. QED  BY <3>1 DEF Newest
  <2>4. /\ \A t : HasTag(qs, t) <=> Older(ps, t)
        /\ \A t : t # tag[v] /\ HasTag(ps, t) => Holds(qs, t) = Holds(ps, t)
    <3> HIDE DEF ps
    <3>1. QED  BY <1>4, <2>3, WithoutHolds
  <2>5. ASSUME NEW t \in Recorded(v)
        PROVE  \A d \in Disk : Holds(points'[v][d], t) = Holds(points[v][d], t)
    <3>1. HasTag(ps, t) /\ t # tag[v]  BY <1>1, <2>1, RecordedTags
    <3> HIDE DEF qs
    <3>2. QED  BY <2>2, <2>4, <3>1
  <2> HIDE DEF qs
  <2>6. ASSUME NEW t \in Tag, NEW d \in Disk PROVE Stains(v, d, t)' <=> Stains(v, d, t)
    <3>1. CASE d = at[v]  BY <1>4, <2>2, <2>4, <3>1 DEF Stains
    <3>2. CASE d # at[v]  BY <1>4, <2>2, <3>2 DEF Stains
    <3>3. QED  BY <3>1, <3>2
  <2>7. QED  BY <1>1, <2>5, <2>6, ImagesKept
<1>5. QED  BY <1>2, <1>3, <1>4, UndoFacts

(* What ends without another look at the images: a record that cannot be     *)
(* saved, a restore, a killed CLI.                                           *)
LEMMA EndsKept ==
    ASSUME HalfInv, SnapInv', NEW v \in VM, points'[v] = points[v], rec'[v] = rec[v],
           pc'[v] = "idle", pc[v] \in Tagging => Faults # {}, pc[v] # "idle"
    PROVE  /\ Leaves(v) \/ \A t \in Tag : Kept(v, t)
           /\ pc[v] \notin Tagging => \A t \in Tag : Kept(v, t)
<1>1. SnapInv /\ Sound(v)  BY DEF HalfInv, SnapInv
<1>2. Made(v)' = {}
  <2>1. created'[v] = 0  BY DEF SnapInv, Sound, Tagging
  <2>2. QED  BY <2>1, NoneMade
<1>3. CASE pc[v] \in Tagging
  <2>1. exists[v] /\ tag[v] \in Tag \ Recorded(v)
    BY <1>1, <1>3 DEF Sound, SnapInv, ControlTypes, Tagging
  <2>2. /\ \A t \in Tag : t # tag[v] => Kept(v, t)
        /\ tag[v] \in stray[v] => tag[v] \in stray'[v]
    BY <1>2, <2>1, DropsKept
  <2>3. QED  BY <1>3, <2>1, <2>2 DEF Leaves
<1>4. CASE pc[v] \notin Tagging
  <2>1. created[v] = 0  BY <1>1, <1>4 DEF Sound
  <2>2. Made(v)' = Made(v)  BY <1>2, <2>1, NoneMade
  <2>3. QED  BY <2>2, IdleKept
<1>5. QED  BY <1>3, <1>4

-----------------------------------------------------------------------------
(* Which step of AtomicSnapshot each step is.                                *)

(* A VM, and what no state of it is.                                         *)
LEMMA StateNotNone == ASSUME SnapInv, NEW v \in VM PROVE content[v] \in Contents /\ content[v] # None
<1>1. content[v] \in Contents  BY DEF SnapInv, DataTypes, Contents
<1>2. QED  BY <1>1, ContentsAssumption

(* No restore is bringing disks of v back, before or after.                  *)
Calm(v) ==
    /\ v \notin reverting /\ v \notin reverting'
    /\ exists'[v] = exists[v] /\ content'[v] = content[v]

LEMMA CalmSees ==
    ASSUME NEW v \in VM, Apart(v), Calm(v)
    PROVE  DisksNow' = DisksNow /\ RestoringNow' = RestoringNow
<1>1. DisksNow'[v] = DisksNow[v] /\ RestoringNow'[v] = RestoringNow[v]
  BY DEF Calm, DisksNow, RestoringNow
<1>2. /\ DisksNow = [DisksNow EXCEPT ![v] = DisksNow[v]]
      /\ RestoringNow = [RestoringNow EXCEPT ![v] = RestoringNow[v]]
  BY DEF DisksNow, RestoringNow
<1>3. QED  BY <1>1, <1>2, SeesOne

(* A step that AtomicSnapshot does not see.                                  *)
LEMMA Unseen ==
    ASSUME SnapInv, SnapInv', NEW v \in VM, Apart(v), Calm(v), \A t \in Tag : Kept(v, t)
    PROVE  UNCHANGED Atomic!vars
<1>1. DisksNow' = DisksNow /\ RestoringNow' = RestoringNow /\ SavedNow' = SavedNow
  BY CalmSees, SavedStays
<1>2. QED  BY <1>1 DEF Atomic!vars, DisksNow, SavedNow, RestoringNow

(* A snapshot that has failed, and whose tag may have stayed on an image.    *)
LEMMA LeavesSpoils ==
    ASSUME SnapInv, SnapInv', NEW v \in VM, Apart(v), Calm(v), Leaves(v)
    PROVE  (\E t \in Tag : Atomic!Spoil(v, t)) \/ UNCHANGED Atomic!vars
<1>0. PICK t \in Tag : t = tag[v]  BY DEF Leaves
<1>1. /\ Faults # {} /\ exists[v] /\ t \notin Recorded(v) /\ Recorded(v)' = Recorded(v)
      /\ t \in stray[v] => t \in stray'[v]
      /\ \A s \in Tag : s # t => Kept(v, s)
  BY <1>0, RecordedSame DEF Leaves
<1>2. CASE t \in stray[v] \/ t \notin stray'[v]
  <2>1. Kept(v, t)  BY <1>1, <1>2 DEF Kept
  <2>2. QED  BY <1>1, <2>1, Unseen
<1>3. CASE t \notin stray[v] /\ t \in stray'[v]
  <2>1. DisksNow' = DisksNow /\ RestoringNow' = RestoringNow  BY CalmSees
  <2>2. DisksNow[v] # None /\ RestoringNow[v] = None
    BY <1>1, StateNotNone DEF Calm, DisksNow, RestoringNow
  <2>3. SavedNow[v][t] = None /\ SavedNow'[v][t] = << >>  BY <1>1, <1>3 DEF SavedNow
  <2>4. SavedNow' = [SavedNow EXCEPT ![v][t] = << >>]
    <3>1. \A s \in Tag : s # t => SavedNow'[v][s] = SavedNow[v][s]  BY <1>1, SavedKept
    <3>2. /\ SavedNow'[v] = [s \in Tag |-> SavedNow'[v][s]]
          /\ SavedNow[v] = [s \in Tag |-> SavedNow[v][s]] /\ DOMAIN SavedNow = VM
      BY DEF SavedNow
    <3>3. SavedNow'[v] = [SavedNow[v] EXCEPT ![t] = << >>]  BY <2>3, <3>1, <3>2
    <3>4. QED  BY <3>2, <3>3, SeesOne
  <2>5. Atomic!Spoil(v, t)
    BY <1>1, <2>1, <2>2, <2>3, <2>4
       DEF Atomic!Spoil, Atomic!Ready, DisksNow, SavedNow, RestoringNow
  <2>6. QED  BY <2>5
<1>4. QED  BY <1>2, <1>3

(* create, run and clone: a VM is there, with the tags its copied images     *)
(* brought along.                                                            *)
LEMMA CreateCreates ==
    ASSUME SnapInv, SnapInv', NEW v \in VM, Apart(v), Create(v) \/ \E s \in VM : Clone(s, v)
    PROVE  \E T \in SUBSET Tag : Atomic!Create(v, T)
<1>1. ~exists[v] /\ exists'[v] /\ pc[v] = "idle" /\ pc'[v] = "idle" /\ rec'[v] = rec[v]
  BY DEF Create, Clone, job, SnapInv, DataTypes
<1>2. Recorded(v)' = {}
  <2>1. rec'[v] = << >>  BY <1>1 DEF SnapInv, Sound
  <2>2. 1 .. Len(<< >>) = {}  BY EmptySeq
  <2>3. QED  BY <2>1, <2>2, Zenon DEF Recorded
<1>3. v \notin reverting /\ v \notin reverting'  BY <1>1 DEF reverting
<1>4. DisksNow[v] = None /\ DisksNow'[v] \in Contents
  BY <1>1, <1>3 DEF DisksNow, SnapInv, DataTypes, Contents
<1>5. RestoringNow' = RestoringNow
  <2>1. RestoringNow[v] = None /\ RestoringNow'[v] = None  BY <1>3 DEF RestoringNow
  <2>2. RestoringNow = [RestoringNow EXCEPT ![v] = RestoringNow[v]]  BY DEF RestoringNow
  <2>3. QED  BY <2>1, <2>2, SeesOne
<1>6. PICK T \in SUBSET Tag : T = stray'[v]  BY DEF stray
<1>7. SavedNow' = [SavedNow EXCEPT ![v] = [t \in Tag |-> IF t \in T THEN << >> ELSE None]]
  <2>1. SavedNow'[v] = [t \in Tag |-> IF t \in T THEN << >> ELSE None]
    BY <1>2, <1>6 DEF SavedNow
  <2>2. QED  BY <2>1, SeesOne
<1>8. DisksNow' = [DisksNow EXCEPT ![v] = DisksNow'[v]]  BY SeesOne
<1>9. Atomic!Create(v, T)
  BY <1>4, <1>5, <1>7, <1>8
     DEF Atomic!Create, Atomic!Becomes, DisksNow, SavedNow, RestoringNow
<1>10. QED  BY <1>9

(* start, some writes and stop.                                              *)
LEMMA UseWrites ==
    ASSUME HalfInv, HalfInv', NEW v \in VM, Apart(v), Use(v)
    PROVE  Atomic!Write(v)
<1>1. exists[v] /\ pc[v] = "idle" /\ UNCHANGED <<points, rec, exists, pc, at, tag, created>>
  BY DEF Use, job
<1>2. v \notin reverting /\ v \notin reverting'  BY <1>1 DEF reverting
<1>3. SavedNow' = SavedNow
  <2>1. Made(v)' = Made(v)  BY <1>1 DEF Made
  <2>2. \A t \in Tag : Kept(v, t)  BY <1>1, <2>1, IdleKept DEF HalfInv
  <2>3. QED  BY <2>2, SavedStays DEF HalfInv
<1>4. DisksNow[v] # None /\ DisksNow'[v] \in Contents
  <2>1. content'[v] \in Contents  BY DEF Contents, HalfInv, SnapInv, DataTypes
  <2>2. QED  BY <1>1, <1>2, <2>1, StateNotNone DEF DisksNow, HalfInv
<1>5. RestoringNow[v] = None /\ RestoringNow' = RestoringNow
  <2>1. RestoringNow[v] = None /\ RestoringNow'[v] = None  BY <1>2 DEF RestoringNow
  <2>2. RestoringNow = [RestoringNow EXCEPT ![v] = RestoringNow[v]]  BY DEF RestoringNow
  <2>3. QED  BY <2>1, <2>2, SeesOne
<1>6. DisksNow' = [DisksNow EXCEPT ![v] = DisksNow'[v]]  BY SeesOne
<1>7. QED
  BY <1>3, <1>4, <1>5, <1>6
     DEF Atomic!Write, Atomic!Ready, Atomic!Becomes, DisksNow, SavedNow, RestoringNow

(* The checks before the first image is touched, one image of a snapshot or  *)
(* of its rollback, a record that cannot be saved, and the end of a restore: *)
(* at most a tag is left behind.                                             *)
LEMMA CalmSteps ==
    ASSUME HalfInv, HalfInv', NEW v \in VM, Apart(v),
           \/ Snapshot(v) \/ Restore(v) \/ TagDisk(v) \/ Undo(v) \/ EndRestore(v)
           \/ Save(v) /\ UNCHANGED rec /\ Faults # {}
           \/ Crash(v) /\ v \notin reverting
    PROVE  (\E t \in Tag : Atomic!Spoil(v, t)) \/ UNCHANGED Atomic!vars
<1>1. SnapInv /\ SnapInv' /\ Sound(v)  BY DEF HalfInv, SnapInv
<1>2. Calm(v)
  <2>1. /\ pc[v] # "apply" \/ v \notin reverting
        /\ pc'[v] = "apply" => at'[v] = 1 \/ (pc[v] = "idle" /\ pc'[v] = pc[v])
        /\ UNCHANGED <<content, exists>>
    BY <1>1 DEF Snapshot, Restore, TagDisk, Undo, EndRestore, Save, Crash, Return, Goto, SnapInv,
                ControlTypes
  <2>2. QED  BY <2>1 DEF Calm, reverting
<1>3. Leaves(v) \/ \A t \in Tag : Kept(v, t)
  <2>1. CASE Snapshot(v) \/ Restore(v)
    <3>1. UNCHANGED <<points, rec, created>> /\ created[v] = 0
      BY <1>1, <2>1 DEF Snapshot, Restore, Sound, Tagging
    <3>2. Made(v)' = Made(v)  BY <3>1, NoneMade
    <3>3. QED  BY <1>1, <3>1, <3>2, IdleKept
  <2>2. CASE TagDisk(v) \/ Undo(v)  BY <1>1, <2>2, TagDiskKept, UndoKept
  <2>3. CASE EndRestore(v) \/ (Save(v) /\ UNCHANGED rec /\ Faults # {}) \/ Crash(v)
    <3>1. /\ UNCHANGED <<points, rec>> /\ pc'[v] = "idle" /\ pc[v] # "idle"
          /\ pc[v] \in Tagging => Faults # {}
      BY <1>1, <2>3, ReturnTypes DEF EndRestore, Save, Crash, Tagging, SnapInv
    <3>2. QED  BY <1>1, <3>1, EndsKept
  <2>4. QED  BY <2>1, <2>2, <2>3
<1>4. QED  BY <1>1, <1>2, <1>3, Unseen, LeavesSpoils

(* saveRec lists the tag that every image has by now.                        *)
LEMMA SaveLists ==
    ASSUME SnapInv, NEW v \in VM, rec' = [rec EXCEPT ![v] = Append(@, tag[v])], tag[v] \in Tag
    PROVE  Recorded(v)' = Recorded(v) \cup {tag[v]}
<1>1. rec'[v] = Append(rec[v], tag[v]) /\ rec[v] \in Seq(Tag)  BY DEF SnapInv, DataTypes
<1>2. /\ Len(rec'[v]) = Len(rec[v]) + 1 /\ Len(rec[v]) \in Nat
      /\ \A i \in 1 .. Len(rec[v]) : rec'[v][i] = rec[v][i]
      /\ rec'[v][Len(rec[v]) + 1] = tag[v]
  BY <1>1, AppendProperties, LenProperties
<1>3. QED  BY <1>2, SMTT(30) DEF Recorded

(* A tag that no image carried before holds what the images hold now.        *)
LEMMA SavedNew ==
    ASSUME HalfInv, NEW v \in VM, pc[v] = "save"
    PROVE  /\ held[v][tag[v]] \in Contents
           /\ tag[v] \notin stray[v] => held[v][tag[v]] = content[v]
<1>0. PICK t \in Tag : t = tag[v]  BY DEF HalfInv, SnapInv, ControlTypes
<1>1. /\ SnapInv /\ Half(v) /\ Made(v) = Disk
      /\ \A d \in Disk : HasTag(points[v][d], t)
  <2>1. created[v] = Disks /\ \A d \in Disk : HasTag(points[v][d], t)
    BY <1>0 DEF HalfInv, SnapInv, Sound, On
  <2>2. Made(v) = Disk  BY <2>1, DisksAssumption DEF Made, Disk
  <2>3. QED  BY <2>1, <2>2 DEF HalfInv
<1>2. Whole /\ Straying  BY <1>1, HeldWhole, StrayIs
<1>3. held[v][t] \in Contents /\ held[v][t] = [d \in Disk |-> Holds(points[v][d], t)]
  BY <1>1, <1>2 DEF Whole
<1>4. ASSUME t \notin stray[v], NEW d \in Disk PROVE Holds(points[v][d], t) = content[v][d]
  <2>1. PICK ps \in Seq(Point) : ps = points[v][d]  BY <1>1 DEF SnapInv, DataTypes
  <2>2. ~Older(ps, t)
    <3>1. ~Stains(v, d, t)  BY <1>2, <1>4 DEF Straying
    <3>2. QED  BY <1>1, <2>1, <3>1 DEF Stains
  <2>3. Len(ps) > 0 /\ ps[Len(ps)].tag = t /\ ps[Len(ps)].holds = content[v][d]
    <3>1. Newest(points[v][d], [tag |-> tag[v], holds |-> content[v][d]])
      BY <1>1, Zenon DEF Half
    <3>2. QED  BY <1>0, <2>1, <3>1 DEF Newest
  <2>4. Len(ps) \in Nat  BY LenProperties
  <2>5. PICK i \in 1 .. Len(ps) : i = Len(ps)  BY <2>3, <2>4
  <2>6. \A j \in 1 .. i - 1 : ps[j].tag # t  BY <2>2, <2>5 DEF Older
  <2>7. Oldest(ps, t) = i  BY <2>3, <2>5, <2>6, FirstOldest
  <2>8. QED  BY <2>1, <2>3, <2>5, <2>7 DEF Holds
<1>5. content[v] = [d \in Disk |-> content[v][d]]  BY <1>1 DEF SnapInv, DataTypes
<1>6. QED  BY <1>0, <1>3, <1>4, <1>5

(* saveRec makes the snapshot.                                               *)
LEMMA SaveSnapshots ==
    ASSUME HalfInv, HalfInv', NEW v \in VM, Apart(v), Save(v),
           rec' = [rec EXCEPT ![v] = Append(@, tag[v])]
    PROVE  \E t \in Tag : Atomic!Snapshot(v, t)
<1>0. PICK t \in Tag : t = tag[v]  BY DEF Save, HalfInv, SnapInv, ControlTypes
<1>1. /\ pc[v] = "save" /\ pc'[v] = "idle" /\ UNCHANGED <<points, content, exists>>
      /\ t \notin Recorded(v) /\ exists[v] /\ created'[v] = 0
  BY <1>0, ReturnTypes DEF Save, HalfInv, SnapInv, Sound, Tagging
<1>2. SnapInv /\ SnapInv'  BY DEF HalfInv
<1>3. Recorded(v)' = Recorded(v) \cup {t}  BY <1>0, <1>2, SaveLists
<1>4. Calm(v)  BY <1>1 DEF Calm, reverting
<1>5. DisksNow' = DisksNow /\ RestoringNow' = RestoringNow  BY <1>4, CalmSees
<1>6. DisksNow[v] = content[v] /\ DisksNow[v] # None /\ RestoringNow[v] = None
  BY <1>1, <1>2, <1>4, StateNotNone DEF Calm, DisksNow, RestoringNow
<1>7. PICK h \in Contents : h = held[v][t] /\ (t \notin stray[v] => h = content[v])
  BY <1>0, <1>1, SavedNew
<1>8. SavedNow[v][t] = IF t \in stray[v] THEN << >> ELSE None  BY <1>1 DEF SavedNow
<1>9. SavedNow' = [SavedNow EXCEPT ![v][t] = h]
  <2>1. SavedNow'[v][t] = h
    <3>1. held' = held  BY <1>1 DEF held
    <3>2. QED  BY <1>3, <1>7, <3>1 DEF SavedNow
  <2>2. ASSUME NEW s \in Tag, s # t PROVE SavedNow'[v][s] = SavedNow[v][s]
    <3>1. Made(v)' \subseteq Made(v)  BY <1>1, NoneMade
    <3>2. s \in stray'[v] <=> s \in stray[v]  BY <1>0, <1>1, <1>2, <2>2, <3>1, DropsStray
    <3>3. Kept(v, s)  BY <1>1, <1>3, <2>2, <3>2 DEF Kept
    <3>4. QED  BY <1>2, <3>3, SavedKept
  <2>3. /\ SavedNow'[v] = [s \in Tag |-> SavedNow'[v][s]]
        /\ SavedNow[v] = [s \in Tag |-> SavedNow[v][s]] /\ DOMAIN SavedNow = VM
    BY DEF SavedNow
  <2>4. SavedNow'[v] = [SavedNow[v] EXCEPT ![t] = h]  BY <2>1, <2>2, <2>3
  <2>5. QED  BY <2>3, <2>4, SeesOne
<1>10. Atomic!Snapshot(v, t)
  <2>1. SavedNow[v][t] = << >> \/ (SavedNow[v][t] = None /\ h = DisksNow[v])
    BY <1>6, <1>7, <1>8
  <2>2. QED
    BY <1>5, <1>6, <1>9, <2>1
       DEF Atomic!Snapshot, Atomic!Ready, DisksNow, SavedNow, RestoringNow
<1>11. QED  BY <1>10

(* What AtomicSnapshot sees of a restore: its tag is saved, or stray.        *)
LEMMA ApplyFacts ==
    ASSUME HalfInv, HalfInv', NEW v \in VM, Apart(v), Apply(v), NEW t \in Tag, t = tag[v],
           NEW h, h = [d \in Disk |-> Holds(points[v][d], t)]
    PROVE  /\ pc[v] = "apply" /\ at[v] \in Disk /\ t # None
           /\ \A d \in Disk : d < at[v] => content[v][d] = h[d]
           /\ h \in Contents /\ held'[v][t] = h
           /\ SavedNow' = SavedNow /\ SavedNow[v][t] \in {h, << >>}
           /\ DisksNow[v] = (IF at[v] > 1 THEN h ELSE content[v]) /\ DisksNow[v] # None
           /\ RestoringNow[v] = IF at[v] > 1 THEN t ELSE None
           /\ content'[v] \in Contents
           /\ DisksNow'[v] = (IF v \in reverting' THEN held'[v][tag'[v]] ELSE content'[v])
           /\ RestoringNow'[v] = (IF v \in reverting' THEN tag'[v] ELSE None)
<1>1. SnapInv /\ SnapInv' /\ Sound(v) /\ Half(v)  BY DEF HalfInv, SnapInv
<1>2. /\ pc[v] = "apply" /\ at[v] \in Disk /\ exists[v] /\ exists'[v] /\ created[v] = 0
      /\ UNCHANGED <<points, rec, created>> /\ t # None
      /\ \A d \in Disk : HasTag(points[v][d], t)
  BY <1>1, NoneAssumption DEF Apply, Sound, Tagging, On
<1>3. \A d \in Disk : d < at[v] => content[v][d] = h[d]  BY <1>1, <1>2 DEF Half
<1>4. Whole /\ Straying  BY <1>1, HeldWhole, StrayIs
<1>5. held[v][t] = h /\ h \in Contents  BY <1>2, <1>4 DEF Whole
<1>6. held' = held  BY <1>2 DEF held
<1>7. SavedNow' = SavedNow
  <2>1. Made(v)' = Made(v)  BY <1>2, NoneMade
  <2>2. \A s \in Tag : Kept(v, s)  BY <1>1, <1>2, <2>1, IdleKept
  <2>3. QED  BY <1>1, <2>2, SavedStays
<1>8. SavedNow[v][t] \in {h, << >>}
  <2>1. CASE t \in Recorded(v)  BY <1>5, <2>1 DEF SavedNow
  <2>2. CASE t \notin Recorded(v)
    <3>1. Made(v) = {} /\ 1 \in Disk  BY <1>2, NoneMade, DisksAssumption DEF Disk
    <3>2. Stains(v, 1, t)  BY <1>2, <3>1 DEF Stains
    <3>3. t \in stray[v]  BY <1>4, <3>1, <3>2 DEF Straying
    <3>4. QED  BY <2>2, <3>3 DEF SavedNow
  <2>3. QED  BY <2>1, <2>2
<1>9. v \in reverting <=> at[v] > 1  BY <1>2 DEF reverting
<1>10. h # None  BY <1>5, ContentsAssumption
<1>11. /\ DisksNow[v] = (IF at[v] > 1 THEN h ELSE content[v]) /\ DisksNow[v] # None
       /\ RestoringNow[v] = IF at[v] > 1 THEN t ELSE None
  BY <1>1, <1>2, <1>5, <1>9, <1>10, StateNotNone DEF DisksNow, RestoringNow
<1>12. content'[v] \in Contents  BY <1>1 DEF SnapInv, DataTypes, Contents
<1>13. /\ DisksNow'[v] = (IF v \in reverting' THEN held'[v][tag'[v]] ELSE content'[v])
       /\ RestoringNow'[v] = (IF v \in reverting' THEN tag'[v] ELSE None)
  BY <1>2 DEF DisksNow, RestoringNow
<1> HIDE DEF Whole, Straying
<1>14. held'[v][t] = h  BY <1>5, <1>6
<1>15. QED  BY <1>2, <1>3, <1>5, <1>7, <1>8, <1>11, <1>12, <1>13, <1>14

(* SnapApply on the first image begins to bring a state back, on the last    *)
(* one it ends that, and a failure between them leaves a mixture.            *)
LEMMA ApplyRestores ==
    ASSUME HalfInv, HalfInv', NEW v \in VM, Apart(v), Apply(v)
    PROVE  \/ \E t \in Tag : Atomic!Restore(v, t)
           \/ Atomic!Done(v) \/ Atomic!Break(v) \/ UNCHANGED Atomic!vars
<1>0. PICK t \in Tag : t = tag[v]  BY DEF Apply, HalfInv, SnapInv, ControlTypes
<1>1. PICK h : h = [d \in Disk |-> Holds(points[v][d], t)]  OBVIOUS
<1>2. /\ pc[v] = "apply" /\ at[v] \in Disk /\ t # None
      /\ \A d \in Disk : d < at[v] => content[v][d] = h[d]
      /\ h \in Contents /\ held'[v][t] = h
      /\ SavedNow' = SavedNow /\ SavedNow[v][t] \in {h, << >>}
      /\ DisksNow[v] = (IF at[v] > 1 THEN h ELSE content[v]) /\ DisksNow[v] # None
      /\ RestoringNow[v] = IF at[v] > 1 THEN t ELSE None
      /\ content'[v] \in Contents
      /\ DisksNow'[v] = (IF v \in reverting' THEN held'[v][tag'[v]] ELSE content'[v])
      /\ RestoringNow'[v] = (IF v \in reverting' THEN tag'[v] ELSE None)
  BY <1>0, <1>1, ApplyFacts
<1>3. /\ DisksNow' = [DisksNow EXCEPT ![v] = DisksNow'[v]]
      /\ RestoringNow' = [RestoringNow EXCEPT ![v] = RestoringNow'[v]]
      /\ DisksNow = [DisksNow EXCEPT ![v] = DisksNow[v]]
      /\ RestoringNow = [RestoringNow EXCEPT ![v] = RestoringNow[v]]
  <2>1. /\ DisksNow = [DisksNow EXCEPT ![v] = DisksNow[v]]
        /\ RestoringNow = [RestoringNow EXCEPT ![v] = RestoringNow[v]]
    BY DEF DisksNow, RestoringNow
  <2>2. QED  BY <2>1, SeesOne
<1>4. \/ /\ content' = [content EXCEPT ![v][at[v]] = Holds(points[v][at[v]], t)]
         /\ IF at[v] = Disks THEN Goto(v, "resave", 0) ELSE Goto(v, "apply", at[v] + 1)
         /\ UNCHANGED tag
      \/ Goto(v, "mixed", 0) /\ UNCHANGED <<content, tag>>
  BY <1>0 DEF Apply, Holds
(* What has been done by now, AtomicSnapshot has seen at the first image.    *)
<1>5. ASSUME DisksNow'[v] = h, NEW r \in {t, None}, RestoringNow'[v] = r,
             at[v] > 1 => r = None \/ r = RestoringNow[v]
      PROVE  Atomic!Restore(v, t) \/ Atomic!Done(v) \/ UNCHANGED Atomic!vars
  <2>1. CASE at[v] > 1
    <3>1. DisksNow' = DisksNow /\ RestoringNow[v] # None  BY <1>2, <1>3, <1>5, <2>1
    <3>2. CASE r = None
      BY <1>2, <1>3, <1>5, <3>1, <3>2 DEF Atomic!Done, DisksNow, SavedNow, RestoringNow
    <3>3. CASE r = RestoringNow[v]
      <4>1. RestoringNow' = RestoringNow  BY <1>3, <1>5, <3>3
      <4>2. QED  BY <1>2, <3>1, <4>1 DEF Atomic!vars, DisksNow, SavedNow, RestoringNow
    <3>4. QED  BY <1>5, <2>1, <3>2, <3>3
  <2>2. CASE ~(at[v] > 1)
    <3>1. RestoringNow[v] = None  BY <1>2, <2>2
    <3>2. /\ DisksNow' = [DisksNow EXCEPT ![v] = h]
          /\ RestoringNow' = [RestoringNow EXCEPT ![v] = r]
      BY <1>3, <1>5
    <3>3. Atomic!Restore(v, t)
      BY <1>2, <3>1, <3>2
         DEF Atomic!Restore, Atomic!Ready, Atomic!Becomes, DisksNow, SavedNow, RestoringNow
    <3>4. QED  BY <3>3
  <2>3. QED  BY <2>1, <2>2
<1>6. CASE /\ content' = [content EXCEPT ![v][at[v]] = Holds(points[v][at[v]], t)]
           /\ IF at[v] = Disks THEN Goto(v, "resave", 0) ELSE Goto(v, "apply", at[v] + 1)
           /\ UNCHANGED tag
  <2>1. /\ content'[v][at[v]] = h[at[v]]
        /\ \A d \in Disk : d # at[v] => content'[v][d] = content[v][d]
    BY <1>1, <1>2, <1>6 DEF HalfInv, SnapInv, DataTypes
  <2>2. CASE at[v] = Disks
    <3>1. pc'[v] = "resave"  BY <1>6, <2>2 DEF Goto, HalfInv, SnapInv, ControlTypes
    <3>2. v \notin reverting'  BY <3>1 DEF reverting
    <3>3. \A d \in Disk : content'[v][d] = h[d]
      <4>1. \A d \in Disk : d = at[v] \/ d < at[v]  BY <2>2, DisksAssumption DEF Disk
      <4>2. QED  BY <1>2, <2>1, <4>1
    <3>4. content'[v] = h  BY <1>2, <3>3 DEF Contents
    <3>5. QED  BY <1>2, <1>5, <3>2, <3>4
  <2>3. CASE at[v] # Disks
    <3>1. pc'[v] = "apply" /\ at'[v] = at[v] + 1
      BY <1>6, <2>3 DEF Goto, HalfInv, SnapInv, ControlTypes
    <3>2. v \in reverting'  BY <1>2, <3>1, DisksAssumption DEF Disk, reverting
    <3>3. DisksNow'[v] = h /\ RestoringNow'[v] = t  BY <1>0, <1>2, <1>6, <3>2
    <3>4. QED  BY <1>2, <1>5, <3>3
  <2>4. QED  BY <2>2, <2>3
<1>7. CASE Goto(v, "mixed", 0) /\ UNCHANGED <<content, tag>>
  <2>1. pc'[v] = "mixed"  BY <1>7 DEF Goto, HalfInv, SnapInv, ControlTypes
  <2>2. v \notin reverting'  BY <2>1 DEF reverting
  <2>3. DisksNow'[v] = content[v] /\ RestoringNow'[v] = None /\ DisksNow'[v] \in Contents
    BY <1>2, <1>7, <2>2
  <2>4. CASE at[v] > 1
    <3>1. RestoringNow[v] # None /\ RestoringNow' = [RestoringNow EXCEPT ![v] = None]
      BY <1>2, <1>3, <2>3, <2>4
    <3>2. QED
      BY <1>2, <1>3, <2>3, <3>1
         DEF Atomic!Break, Atomic!Becomes, DisksNow, SavedNow, RestoringNow
  <2>5. CASE ~(at[v] > 1)
    <3>1. DisksNow' = DisksNow /\ RestoringNow' = RestoringNow  BY <1>2, <1>3, <2>3, <2>5
    <3>2. QED  BY <1>2, <3>1 DEF Atomic!vars, DisksNow, SavedNow, RestoringNow
  <2>6. QED  BY <2>4, <2>5
<1>8. QED  BY <1>4, <1>6, <1>7

(* The CLI dies between two images of a restore, and leaves a mixture.       *)
LEMMA CrashBreaks ==
    ASSUME HalfInv, HalfInv', NEW v \in VM, Apart(v), Crash(v), v \in reverting
    PROVE  Atomic!Break(v)
<1>1. /\ SnapInv /\ SnapInv' /\ pc[v] = "apply" /\ pc'[v] = "idle"
      /\ UNCHANGED <<points, rec, exists, content>> /\ exists[v] /\ tag[v] # None
  BY ReturnTypes, NoneAssumption DEF Crash, HalfInv, SnapInv, Sound, ControlTypes, reverting
<1>2. v \notin reverting'  BY <1>1 DEF reverting
<1>3. SavedNow' = SavedNow
  <2>1. \A t \in Tag : Kept(v, t)  BY <1>1, EndsKept DEF Tagging
  <2>2. QED  BY <1>1, <2>1, SavedStays
<1>4. DisksNow'[v] \in Contents /\ DisksNow' = [DisksNow EXCEPT ![v] = DisksNow'[v]]
  <2>1. DisksNow'[v] = content[v]  BY <1>1, <1>2 DEF DisksNow
  <2>2. QED  BY <1>1, <2>1, StateNotNone, SeesOne
<1>5. RestoringNow[v] # None /\ RestoringNow' = [RestoringNow EXCEPT ![v] = None]
  <2>1. RestoringNow[v] = tag[v] /\ RestoringNow'[v] = None  BY <1>2 DEF RestoringNow
  <2>2. QED  BY <1>1, <2>1, SeesOne
<1>6. QED
  BY <1>3, <1>4, <1>5 DEF Atomic!Break, Atomic!Becomes, DisksNow, SavedNow, RestoringNow

(* Every step is one of AtomicSnapshot, or none.                             *)
LEMMA AtomicNext ==
    ASSUME HalfInv, HalfInv', [Next]_vars
    PROVE  [Atomic!Next]_Atomic!vars
<1>0. SnapInv /\ SnapInv'  BY DEF HalfInv
<1>1. CASE UNCHANGED vars
  <2>1. \A u \in VM : Untouched(u)  BY <1>1 DEF vars, job, Untouched, Same
  <2>2. DisksNow' = DisksNow /\ SavedNow' = SavedNow /\ RestoringNow' = RestoringNow
    <3>1. \A u \in VM : /\ DisksNow'[u] = DisksNow[u] /\ SavedNow'[u] = SavedNow[u]
                        /\ RestoringNow'[u] = RestoringNow[u]
      BY <2>1, SeesSame
    <3>2. QED  BY <3>1 DEF DisksNow, SavedNow, RestoringNow
  <2>3. QED  BY <2>2 DEF Atomic!vars, DisksNow, SavedNow, RestoringNow
<1>2. CASE Next
  <2>1. PICK v \in VM : Apart(v) /\ Steps(v)  BY <1>0, <1>2, OneActs
  <2> USE <2>1
  <2>2. CASE Create(v) \/ \E s \in VM : Clone(s, v)
    BY <1>0, <2>2, CreateCreates DEF Atomic!Next
  <2>3. CASE Use(v)  BY <2>3, UseWrites DEF Atomic!Next
  <2>4. CASE \/ Snapshot(v) \/ Restore(v) \/ TagDisk(v) \/ Undo(v) \/ EndRestore(v)
             \/ Save(v) /\ UNCHANGED rec /\ Faults # {}
             \/ Crash(v) /\ v \notin reverting
    <3>1. (\E t \in Tag : Atomic!Spoil(v, t)) \/ UNCHANGED Atomic!vars  BY <2>4, CalmSteps
    <3>2. QED  BY <3>1 DEF Atomic!Next
  <2>5. CASE Save(v) /\ rec' = [rec EXCEPT ![v] = Append(@, tag[v])]
    BY <2>5, SaveSnapshots DEF Atomic!Next
  <2>6. CASE Apply(v)  BY <2>6, ApplyRestores DEF Atomic!Next
  <2>7. CASE Crash(v) /\ v \in reverting  BY <2>7, CrashBreaks DEF Atomic!Next
  <2>8. Save(v) => \/ rec' = [rec EXCEPT ![v] = Append(@, tag[v])]
                   \/ UNCHANGED rec /\ Faults # {}
    BY DEF Save
  <2>9. QED  BY <2>2, <2>3, <2>4, <2>5, <2>6, <2>7, <2>8 DEF Steps
<1>3. QED  BY <1>1, <1>2

(* There is no VM at first.                                                  *)
LEMMA HalfInit == Init => HalfInv /\ Atomic!Init
<1> SUFFICES ASSUME Init PROVE HalfInv /\ Atomic!Init  OBVIOUS
<1>1. SnapInv  BY InitInv
<1>2. \A v \in VM : /\ pc[v] = "idle" /\ ~exists[v] /\ rec[v] = << >> /\ created[v] = 0
                    /\ \A d \in Disk : points[v][d] = << >>
  BY DEF Init
<1>3. HalfInv
  <2>1. \A v \in VM : Made(v) = {}  BY <1>2, NoneMade
  <2>2. QED  BY <1>1, <1>2, <2>1 DEF HalfInv, Half
<1>4. \A v \in VM : v \notin reverting  BY <1>2 DEF reverting
<1>5. 1 .. Len(<< >>) = {}  BY EmptySeq
<1>6. \A v \in VM : stray[v] = {} /\ Recorded(v) = {}
  BY <1>2, <1>5, Zenon DEF stray, Recorded
<1>7. Atomic!Init  BY <1>2, <1>4, <1>6 DEF Atomic!Init
<1>8. QED  BY <1>3, <1>7

(* snapshot.go:129 and commands.go:88: whatever fails or dies, a listed tag  *)
(* names one state of the whole VM, the one the snapshot was taken in unless *)
(* the tag was stray before, and a restore that ends well brings the whole   *)
(* VM back to it.  Where only SnapCreate and SnapApply fail, a snapshot that *)
(* fails leaves no tag.                                                      *)
THEOREM SnapshotIsAtomic == Spec => SnapshotsAtomic
<1>1. Init => HalfInv /\ Atomic!Init  BY HalfInit
<1>2. HalfInv /\ [Next]_vars => HalfInv'  BY HalfNext
<1>3. HalfInv /\ HalfInv' /\ [Next]_vars => [Atomic!Next]_Atomic!vars  BY AtomicNext
<1>4. QED  BY <1>1, <1>2, <1>3, PTL DEF Spec, SnapshotsAtomic, Atomic!Spec

=============================================================================
