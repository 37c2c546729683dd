----------------------------- MODULE DiskLayout -----------------------------
(***************************************************************************)
(* The files a VM is made of: its overlay on an immutable base of the      *)
(* image store, its data disks, its OpenCore image with the identity in    *)
(* it, and what the record says of them.  create lays them down from flags *)
(* and clone from another VM's record, in steps, while images are pulled   *)
(* and removed and other VMs disappear (cmd/vm/clone.go, datadisk.go,      *)
(* utils.go, lifecycle.go).                                                *)
(*                                                                         *)
(* One job lays down files at a time; what two of them can do to each      *)
(* other through locks and devices is in HostSweep.                        *)
(***************************************************************************)
EXTENDS Naturals, FiniteSets, Sequences, SequencesExt

CONSTANTS
    VM,         \* VM names, each with its dir
    Blob,       \* content-addressed images of the store
    File,       \* an image file outside the store
    SizeOf,     \* virtual size of each blob and of File
    Storage,    \* values of --storage, 0 when it is not given
    SpecLists,  \* values of --data-disk: sequences of disk names, Unnamed without one
    Ident,      \* SMBIOS identities
    None

Ref == "ref"       \* the image reference
Firmware == "fw"   \* the shared OpenCore.qcow2
Unnamed == 0       \* a disk without a name; n > 0 stands for the name data<n>
Base == Blob \cup {File}
MaxDataDisks == 4

ASSUME SizeAssumption == SizeOf \in [Base -> Nat \ {0}]
ASSUME StorageAssumption == Storage \subseteq Nat /\ 0 \in Storage
ASSUME SpecAssumption == SpecLists \subseteq Seq(Nat)
ASSUME IdentAssumption == IsFiniteSet(VM) /\ Cardinality(Ident) >= Cardinality(VM)
ASSUME NameAssumption == Ref \notin Base /\ Firmware \notin VM
ASSUME NoneAssumption == None \notin VM \cup Base \cup Ident

VARIABLES
    ref,    \* the blob Ref names in the store, or None
    blobs,  \* blobs whose file is in the store
    rec,    \* vm.json of each VM, or None
    disk,   \* the base its disk.qcow2 overlays, or None
    vsize,  \* the virtual size of that overlay
    oc,     \* what its own OpenCore.qcow2 overlays (Firmware or a VM's), or None
    ident,  \* the identity written into that file
    data,   \* its data disk files, by name: whether a guest has written to them
    job,    \* the create or clone in progress
    lost    \* history: blobs that were out of the store at some time of the job

store == <<ref, blobs>>
files == <<disk, vsize, oc, ident, data>>
vars == <<store, rec, files, job, lost>>

Record == [image : {Ref, File}, digest : Blob \cup {None}, size : Nat, disks : Seq(Nat),
           oc : {Firmware} \cup VM, ocBase : {Firmware, None}, smbios : Ident \cup {None}]

Idle == [pc |-> "idle"]
At(l) == job.pc = l
Goto(l) == job' = [job EXCEPT !.pc = l]
Known == {v \in VM : rec[v] # None}

(* A VM dir without files in it.                                             *)
Cleared(v) ==
    /\ disk' = [disk EXCEPT ![v] = None] /\ vsize' = [vsize EXCEPT ![v] = 0]
    /\ oc' = [oc EXCEPT ![v] = None] /\ ident' = [ident EXCEPT ![v] = None]
    /\ data' = [data EXCEPT ![v] = << >>]

(* Nothing yet, or a VM from a build that recorded neither its digest nor    *)
(* its storage nor the base of its OpenCore overlay.                         *)
Init ==
    /\ ref \in Blob \cup {None} /\ blobs = {ref} \ {None}
    /\ job = Idle /\ lost = {}
    /\ \E old \in VM \cup {None}, i \in Ident :
        /\ old # None => ref # None
        /\ rec = [v \in VM |-> IF v # old THEN None ELSE
                    [image |-> Ref, digest |-> None, size |-> 0, disks |-> <<1>>,
                     oc |-> v, ocBase |-> None, smbios |-> i]]
        /\ disk = [v \in VM |-> IF v = old THEN ref ELSE None]
        /\ vsize = [v \in VM |-> IF v = old THEN SizeOf[ref] ELSE 0]
        /\ oc = [v \in VM |-> IF v = old THEN Firmware ELSE None]
        /\ ident = [v \in VM |-> IF v = old THEN i ELSE None]
        /\ data = [v \in VM |-> IF v = old THEN [n \in {1} |-> TRUE] ELSE << >>]

-----------------------------------------------------------------------------
(* parseDataDisks                                                            *)

Refused == <<Unnamed>>
Least(S) == CHOOSE n \in S : \A m \in S : n <= m
Asked(specs) == Range(specs) \ {Unnamed}

(* Explicit names are claimed first; then the specs without one take the     *)
(* next free data<n>, counting up.                                           *)
Named(specs, used) ==
    LET Give(done, s) ==
            IF s # Unnamed THEN [done EXCEPT !.names = Append(@, s)]
            ELSE LET last == done.next + Len(specs) + MaxDataDisks
                     n == Least({m \in done.next .. last : m \notin used})
                 IN [names |-> Append(done.names, n), next |-> n + 1]
    IN FoldLeft(Give, [names |-> << >>, next |-> 1], specs).names

Duplicated(specs, reserved) ==
    \/ Asked(specs) \cap Range(reserved) # {}
    \/ \E i, j \in DOMAIN specs : i < j /\ specs[i] = specs[j] /\ specs[i] # Unnamed

ParseDataDisks_asTheyCome(specs, reserved) ==
    IF Duplicated(specs, reserved) \/ Len(reserved) + Len(specs) > MaxDataDisks THEN Refused
    ELSE Named(specs, Range(reserved))
ParseDataDisks_unreserved(specs, reserved) ==
    IF Duplicated(specs, << >>) \/ Len(reserved) + Len(specs) > MaxDataDisks THEN Refused
    ELSE Named(specs, Asked(specs))
ParseDataDisks(specs, reserved) ==
    IF Duplicated(specs, reserved) \/ Len(reserved) + Len(specs) > MaxDataDisks THEN Refused
    ELSE Named(specs, Asked(specs) \cup Range(reserved))

-----------------------------------------------------------------------------
(* The jobs up to their scaffold                                             *)

Reserved(src) == IF src = None THEN << >> ELSE rec[src].disks

Begin(v, src, image, specs, storage, resized, smbios) ==
    /\ job = Idle /\ rec[v] = None
    /\ ParseDataDisks(specs, Reserved(src)) # Refused
    /\ job' = [pc |-> "resolve", vm |-> v, src |-> src, image |-> image, specs |-> specs,
               names |-> ParseDataDisks(specs, Reserved(src)),
               storage |-> storage, resized |-> resized, smbios |-> smbios,
               digest |-> None, base |-> None, oc |-> None, ocBase |-> None, id |-> None]
    /\ lost' = Blob \ blobs
    /\ Cleared(v)
    /\ UNCHANGED <<store, rec>>

Create ==
    \E v \in VM, image \in {Ref, File}, specs \in SpecLists, s \in Storage, smbios \in BOOLEAN :
        Begin(v, None, image, specs, s, s # 0, smbios)

(* cloneImageBase: the blob of the source's digest while it is in the store, *)
(* else whatever the source was made from.                                   *)
CloneImageBase_byName(r) == r.image
CloneImageBase(r) == IF r.digest \in blobs THEN r.digest ELSE r.image

CloneStorage_ownDefault(r, s) == s
CloneStorage(r, s) == IF s = 0 THEN r.size ELSE s

(* The source is stopped and locked for the whole clone.                     *)
Clone ==
    \E v \in VM, src \in Known, specs \in SpecLists, s \in Storage, smbios \in BOOLEAN :
        /\ src # v
        /\ Begin(v, src, CloneImageBase(rec[src]), specs, CloneStorage(rec[src], s), s # 0,
                 smbios)

-----------------------------------------------------------------------------
(* The steps they share                                                      *)

Exists(b) == b = File \/ b \in blobs

(* resolveBase: a file is taken as it is, a reference through the store.     *)
ResolveBase ==
    /\ At("resolve")
    /\ \/ /\ job.image \in Base /\ Exists(job.image)
          /\ job' = [job EXCEPT !.pc = "bake", !.base = job.image]
       \/ /\ job.image = Ref /\ ref \in blobs
          /\ job' = [job EXCEPT !.pc = "bake", !.base = ref, !.digest = ref]
    /\ UNCHANGED <<store, rec, files, lost>>

(* bakeOverlay; qemu-img opens the base.                                     *)
Bake ==
    /\ At("bake") /\ Exists(job.base)
    /\ disk' = [disk EXCEPT ![job.vm] = job.base]
    /\ vsize' = [vsize EXCEPT ![job.vm] = SizeOf[job.base]]
    /\ Goto("resize")
    /\ UNCHANGED <<store, rec, oc, ident, data, lost>>

(* resizeSystemDisk only ever grows the overlay.                             *)
Resize ==
    /\ At("resize")
    /\ job.storage = 0 \/ job.storage >= vsize[job.vm]
    /\ vsize' = [vsize EXCEPT ![job.vm] = IF job.storage = 0 THEN @ ELSE job.storage]
    /\ Goto("copy")
    /\ UNCHANGED <<store, rec, disk, oc, ident, data, lost>>

(* copyDataDisks, then createDataDisks; qemu-img create empties a file that  *)
(* is there.                                                                 *)
CopyDisks ==
    /\ At("copy")
    /\ data' = [data EXCEPT ![job.vm] =
                  [n \in Range(Reserved(job.src)) |-> data[job.src][n]]]
    /\ Goto("disks")
    /\ UNCHANGED <<store, rec, disk, vsize, oc, ident, lost>>
CreateDisks ==
    /\ At("disks")
    /\ data' = [data EXCEPT ![job.vm] =
                  [n \in DOMAIN @ \cup Range(job.names) |-> n \notin Range(job.names) /\ @[n]]]
    /\ Goto("opencore")
    /\ UNCHANGED <<store, rec, disk, vsize, oc, ident, lost>>

(* cloneOpenCoreBase: never the source's own overlay.                        *)
CloneOpenCoreBase_recorded(r) == IF r.ocBase # None THEN r.ocBase ELSE r.oc
CloneOpenCoreBase(r) ==
    CASE r.ocBase # None -> r.ocBase
      [] r.ocBase = None /\ r.smbios = None -> r.oc
      [] OTHER -> Firmware

FreshIdentity_onRequest(r) == job.smbios
FreshIdentity(r) == job.smbios \/ r.smbios # None

Unused == Ident \ ({rec[v].smbios : v \in Known} \cup {ident[v] : v \in VM})

(* prepareOpenCore: with an identity of its own the VM gets its own overlay, *)
(* else it boots the base itself.                                            *)
OpenCore(base, fresh) ==
    IF fresh
    THEN \E i \in Unused :
            /\ oc' = [oc EXCEPT ![job.vm] = base]
            /\ ident' = [ident EXCEPT ![job.vm] = i]
            /\ job' = [job EXCEPT !.pc = "save", !.oc = job.vm, !.ocBase = base, !.id = i]
    ELSE /\ job' = [job EXCEPT !.pc = "save", !.oc = base]
         /\ UNCHANGED <<oc, ident>>
PrepareOpenCore ==
    /\ At("opencore")
    /\ IF job.src = None THEN OpenCore(Firmware, job.smbios)
       ELSE LET r == rec[job.src] IN OpenCore(CloneOpenCoreBase(r), FreshIdentity(r))
    /\ UNCHANGED <<store, rec, disk, vsize, data, lost>>

(* The record is written; from now on a guest may fill the disks.            *)
RecordedImage_argument(src) == job.image
RecordedImage(src) == IF src = None THEN job.image ELSE rec[src].image
RecordedDigest(src) == IF src = None \/ job.digest # None THEN job.digest ELSE rec[src].digest

Save ==
    /\ At("save")
    /\ rec' = [rec EXCEPT ![job.vm] =
          [image |-> RecordedImage(job.src),
           digest |-> RecordedDigest(job.src), size |-> vsize[job.vm],
           disks |-> Reserved(job.src) \o job.names,
           oc |-> job.oc, ocBase |-> job.ocBase, smbios |-> job.id]]
    /\ data' = [data EXCEPT ![job.vm] = [n \in DOMAIN @ |-> TRUE]]
    /\ job' = Idle /\ lost' = {}
    /\ UNCHANGED <<store, disk, vsize, oc, ident>>

(* Any step fails and the dir is removed, or the CLI is killed and the next  *)
(* job on the name removes the dir before anything reads it.                 *)
Fail ==
    /\ job # Idle
    /\ Cleared(job.vm)
    /\ job' = Idle /\ lost' = {}
    /\ UNCHANGED <<store, rec>>

-----------------------------------------------------------------------------
(* Meanwhile                                                                 *)

RM(v) ==
    /\ rec[v] # None /\ (job # Idle => job.src # v)
    /\ rec' = [rec EXCEPT ![v] = None]
    /\ Cleared(v)
    /\ UNCHANGED <<store, job, lost>>

(* The store only matters to a job until the overlay is baked, later changes *)
(* to it are as good as made after the job.                                  *)
StoreMoves == job.pc \in {"idle", "resolve", "bake"}

(* image pull --force or import moves the reference.                         *)
Pull(b) ==
    /\ StoreMoves
    /\ ref' = b /\ blobs' = blobs \cup {b}
    /\ UNCHANGED <<rec, files, job, lost>>

(* image rm drops the reference and, sooner or later, the blob; so can an    *)
(* older blob of a moved reference go.                                       *)
DropRef ==
    /\ StoreMoves
    /\ ref' = None
    /\ UNCHANGED <<blobs, rec, files, job, lost>>
DropBlob(b) ==
    /\ StoreMoves /\ b \in blobs /\ b # ref
    /\ blobs' = blobs \ {b}
    /\ lost' = IF job = Idle THEN lost ELSE lost \cup {b}
    /\ UNCHANGED <<ref, rec, files, job>>

Next ==
    \/ Create \/ Clone
    \/ ResolveBase \/ Bake \/ Resize \/ CopyDisks \/ CreateDisks \/ PrepareOpenCore \/ Save
    \/ Fail
    \/ \E v \in VM : RM(v)
    \/ \E b \in Blob : Pull(b) \/ DropBlob(b)
    \/ DropRef

Spec == Init /\ [][Next]_vars

-----------------------------------------------------------------------------
(* Properties                                                                *)

(* Every variable keeps its type; a record names an image by reference or    *)
(* file, never the path of a blob, which image rm may take (clone).          *)
TypeOK ==
    /\ ref \in Blob \cup {None} /\ blobs \subseteq Blob /\ lost \subseteq Blob
    /\ \A v \in Known : rec[v] \in Record
    /\ disk \in [VM -> Base \cup {None}] /\ vsize \in [VM -> Nat]
    /\ oc \in [VM -> VM \cup {Firmware, None}] /\ ident \in [VM -> Ident \cup {None}]
    /\ \A v \in VM : DOMAIN data[v] \subseteq Nat \ {Unnamed} /\ Range(data[v]) \subseteq BOOLEAN

(* A clone rests on the very blob its source was built from, however often   *)
(* the reference has moved since, unless that blob has left the store; and a *)
(* recorded digest always names the base under the overlay (cloneImageBase,  *)
(* resolveBase, ImageDigest).                                                *)
Cloned == job # Idle /\ job.src # None /\ job.pc \in {"copy", "disks", "opencore", "save"}
ClonesShareTheBase ==
    /\ Cloned => LET b == rec[job.src].digest IN b \notin lost \cup {None} => disk[job.vm] = b
    /\ \A v \in Known : rec[v].digest # None => rec[v].digest = disk[v]

(* The recorded storage is the virtual size of the overlay, never below that *)
(* of its base, and a clone on the same base is as large as its source       *)
(* unless --storage says otherwise (resizeSystemDisk, clone).                *)
StorageKept ==
    /\ \A v \in Known : rec[v].size \in {0, vsize[v]} /\ vsize[v] >= SizeOf[disk[v]]
    /\ Cloned /\ disk[job.vm] = disk[job.src] /\ ~job.resized => vsize[job.vm] = vsize[job.src]

(* No VM boots through a file in another VM's dir, so that rm of one VM      *)
(* never breaks another (cloneOpenCoreBase, prepareOpenCore).                *)
ChainsStayOwn ==
    \A v \in Known :
        \/ rec[v].oc = Firmware
        \/ rec[v].oc = v /\ oc[v] = Firmware /\ ident[v] = rec[v].smbios

(* A clone of a VM with an identity gets one of its own, also from a source  *)
(* whose record predates the OpenCore base, and no two VMs boot with the     *)
(* same one (freshIdentity).                                                 *)
Booted(v) == IF rec[v].oc \in VM THEN ident[rec[v].oc] ELSE None
IdentitiesDiffer ==
    /\ \A v, w \in Known : v # w /\ Booted(v) # None => Booted(v) # Booted(w)
    /\ At("save") /\ job.src # None /\ Booted(job.src) # None => job.id # None

(* Data disks are named as asked: an explicit name is honoured wherever it   *)
(* stands on the command line, the others get the least free data<n> in      *)
(* order, no two disks of the VM share a name, and all of them fit the four  *)
(* free ports (parseDataDisks; Spec.Args indexes four ports).                *)
AsAsked(names, specs, reserved) ==
    LET auto == {i \in DOMAIN specs : specs[i] = Unnamed} IN
    /\ Len(names) = Len(specs) /\ Len(names) + Len(reserved) <= MaxDataDisks
    /\ \A i \in DOMAIN specs \ auto : names[i] = specs[i]
    /\ \A i \in auto :
        names[i] = Least((1 .. 2 * MaxDataDisks) \ (Asked(specs) \cup Range(reserved)
                                                    \cup {names[j] : j \in {k \in auto : k < i}}))
    /\ IsInjective(reserved \o names)
DisksNamedAsAsked ==
    job # Idle /\ (job.src # None => rec[job.src] # None) =>
        AsAsked(job.names, job.specs, Reserved(job.src))

(* A clone carries its source's data, whatever disks are added to it         *)
(* (copyDataDisks, the reserved names of clone).                             *)
CopiesKeepData ==
    /\ Cloned /\ job.pc # "copy" => \A n \in Range(Reserved(job.src)) : data[job.vm][n]
    /\ \A v \in Known : DOMAIN data[v] = Range(rec[v].disks)
=============================================================================
