--------------------------- MODULE DiskLayoutProofs ---------------------------
(***************************************************************************)
(* Theorems about DiskLayout, for any number of VMs, images, sizes and     *)
(* identities and any lists of data disks: what a clone rests on, how      *)
(* large it is, whose OpenCore overlay it boots and what is on its disks.  *)
(*                                                                         *)
(* LayoutInv is inductive.  It says what vm.json tells of the files beside *)
(* it, and what a create or clone under way has laid down by each step.    *)
(* DataInv adds the data disks.  It rests on ParseGives, which says what   *)
(* parseDataDisks returns for every command line, by induction over it.    *)
(***************************************************************************)
EXTENDS DiskLayout, SequenceTheorems, FiniteSetTheorems, WellFoundedInduction, TLAPS

-----------------------------------------------------------------------------
(* Shapes.  Lists of disk names are left open here.                          *)

Steps == {"resolve", "bake", "resize", "copy", "disks", "opencore", "save"}

Jobs(names, specs) ==
    [pc : Steps, vm : VM, src : VM \cup {None}, image : {Ref} \cup Base,
     specs : {specs}, names : {names}, storage : Nat, resized : BOOLEAN, smbios : BOOLEAN,
     digest : Blob \cup {None}, base : Base \cup {None},
     oc : VM \cup {Firmware, None}, ocBase : {Firmware, None}, id : Ident \cup {None}]
Records(disks) ==
    [image : {Ref, File}, digest : Blob \cup {None}, size : Nat, disks : {disks},
     oc : {Firmware} \cup VM, ocBase : {Firmware, None}, smbios : Ident \cup {None}]

StoreTypes == ref \in Blob \cup {None} /\ blobs \subseteq Blob /\ lost \subseteq Blob
FileTypes ==
    /\ disk \in [VM -> Base \cup {None}] /\ vsize \in [VM -> Nat]
    /\ oc \in [VM -> VM \cup {Firmware, None}] /\ ident \in [VM -> Ident \cup {None}]
    /\ data = [v \in VM |-> data[v]]
RecTypes ==
    /\ rec = [v \in VM |-> rec[v]]
    /\ \A v \in Known : rec[v] \in Records(rec[v].disks)
Shapes == StoreTypes /\ FileTypes /\ RecTypes

-----------------------------------------------------------------------------
(* What the record of a VM says of its files.                                *)

(* Its digest names the base of the overlay; a file outside has none.        *)
Based(v) ==
    /\ disk[v] \in Base
    /\ rec[v].digest # None => rec[v].digest = disk[v]
    /\ rec[v].image = File => rec[v].digest = None

(* Its size is that of the overlay; a record without one dates from before   *)
(* --storage, when overlays were as large as their base.                     *)
Sized(v) ==
    /\ vsize[v] >= SizeOf[disk[v]]
    /\ \/ rec[v].size = vsize[v]
       \/ rec[v].size = 0 /\ vsize[v] = SizeOf[disk[v]]

(* With an identity it boots its own overlay on the shared OpenCore image,   *)
(* else that image itself.                                                   *)
Chained(v) ==
    \/ rec[v].oc = Firmware /\ rec[v].smbios = None
    \/ /\ rec[v].oc = v /\ oc[v] = Firmware
       /\ rec[v].smbios \in Ident /\ ident[v] = rec[v].smbios

Kept(v) == Based(v) /\ Sized(v) /\ Chained(v)

(* No identity was drawn twice.                                              *)
Distinct == \A v, w \in VM : ident[v] # None /\ ident[v] = ident[w] => v = w

-----------------------------------------------------------------------------
(* What a job knows and has done.                                            *)

(* Of its source: the blob it was built from while the store has had it all  *)
(* along, and its size unless --storage is given.                            *)
Planned ==
    /\ rec[job.vm] = None
    /\ job.src = None => job.image \in {Ref, File}
    /\ job.src # None =>
        /\ rec[job.src] # None
        /\ rec[job.src].digest \notin lost \cup {None} => job.image = rec[job.src].digest
        /\ rec[job.src].digest = None => job.image = rec[job.src].image
        /\ job.image \in {rec[job.src].digest, rec[job.src].image}
        /\ ~job.resized => job.storage = rec[job.src].size

Resolved ==
    /\ job.pc = "resolve" => job.digest = None
    /\ job.pc # "resolve" =>
        /\ job.base \in Base
        /\ job.image \in Base => job.base = job.image /\ job.digest = None
        /\ job.image = Ref => job.base = job.digest

Built ==
    /\ job.pc \notin {"resolve", "bake"} => disk[job.vm] = job.base
    /\ job.pc = "resize" => vsize[job.vm] = SizeOf[job.base]
    /\ job.pc \in {"copy", "disks", "opencore", "save"} =>
        /\ vsize[job.vm] = IF job.storage = 0 THEN SizeOf[job.base] ELSE job.storage
        /\ vsize[job.vm] >= SizeOf[job.base]

Identified ==
    /\ job.pc = "save" =>
        /\ \/ job.oc = Firmware /\ job.id = None
           \/ /\ job.oc = job.vm /\ oc[job.vm] = Firmware
              /\ job.id \in Ident /\ ident[job.vm] = job.id
        /\ job.src # None /\ rec[job.src].smbios # None => job.id # None
    /\ job.pc # "save" => job.id = None

Underway == job \in Jobs(job.names, job.specs) /\ Planned /\ Resolved /\ Built /\ Identified

LayoutInv ==
    /\ Shapes /\ Distinct
    /\ \A v \in Known : Kept(v)
    /\ job = Idle \/ Underway

-----------------------------------------------------------------------------
(* What a step leaves as it was.                                             *)

(* A VM whose record and files a step does not touch.                        *)
LEMMA KeptSame ==
    ASSUME NEW v \in VM, Kept(v), rec'[v] = rec[v], disk'[v] = disk[v], vsize'[v] = vsize[v],
           oc'[v] = oc[v], ident'[v] = ident[v]
    PROVE  Kept(v)'
  BY DEF Kept, Based, Sized, Chained

(* A step of a job disturbs no VM that has a record.                         *)
LEMMA OthersKept ==
    ASSUME LayoutInv, UNCHANGED rec,
           \A v \in Known : /\ disk'[v] = disk[v] /\ vsize'[v] = vsize[v]
                            /\ oc'[v] = oc[v] /\ ident'[v] = ident[v]
    PROVE  RecTypes' /\ \A v \in Known' : Kept(v)'
<1>1. Known' = Known  BY DEF Known
<1>2. RecTypes'  BY <1>1 DEF LayoutInv, Shapes, RecTypes
<1>3. \A v \in Known : Kept(v)'  BY KeptSame DEF LayoutInv, Known
<1>4. QED  BY <1>1, <1>2, <1>3

(* The VM dir is emptied.                                                    *)
LEMMA ClearedFiles ==
    ASSUME LayoutInv, NEW v \in VM, Cleared(v)
    PROVE  /\ FileTypes' /\ Distinct'
           /\ \A w \in VM \ {v} : /\ disk'[w] = disk[w] /\ vsize'[w] = vsize[w]
                                  /\ oc'[w] = oc[w] /\ ident'[w] = ident[w]
           /\ ident'[v] = None
<1>1. FileTypes'  BY DEF LayoutInv, Shapes, FileTypes, Cleared
<1>2. /\ \A w \in VM \ {v} : /\ disk'[w] = disk[w] /\ vsize'[w] = vsize[w]
                             /\ oc'[w] = oc[w] /\ ident'[w] = ident[w]
      /\ ident'[v] = None
  BY DEF LayoutInv, Shapes, FileTypes, Cleared
<1>3. Distinct'  BY <1>2 DEF LayoutInv, Distinct
<1>4. QED  BY <1>1, <1>2, <1>3

-----------------------------------------------------------------------------
(* LayoutInv is inductive.                                                   *)

(* It holds at first, with or without a VM of an older build.                *)
LEMMA LayoutInit == Init => LayoutInv
<1> SUFFICES ASSUME Init PROVE LayoutInv  OBVIOUS
<1> USE NoneAssumption, NameAssumption
<1>1. PICK old \in VM \cup {None}, i \in Ident :
        /\ old # None => ref # None
        /\ rec = [v \in VM |-> IF v # old THEN None ELSE
                    [image |-> Ref, digest |-> None, size |-> 0, disks |-> <<1>>,
                     oc |-> v, ocBase |-> None, smbios |-> i]]
        /\ disk = [v \in VM |-> IF v = old THEN ref ELSE None]
        /\ vsize = [v \in VM |-> IF v = old THEN SizeOf[ref] ELSE 0]
        /\ oc = [v \in VM |-> IF v = old THEN Firmware ELSE None]
        /\ ident = [v \in VM |-> IF v = old THEN i ELSE None]
        /\ data = [v \in VM |-> IF v = old THEN [n \in {1} |-> TRUE] ELSE << >>]
  BY DEF Init
<1>2. StoreTypes /\ job = Idle  BY DEF Init, StoreTypes
<1>3. old # None => SizeOf[ref] \in Nat /\ ref \in Base
  BY <1>1, <1>2, SizeAssumption DEF StoreTypes, Base
<1>4. FileTypes  BY <1>1, <1>3 DEF FileTypes
<1>5. \A v \in Known : v = old  BY <1>1 DEF Known
<1>6. RecTypes  BY <1>1, <1>5 DEF RecTypes, Records, Known
<1>7. \A v \in Known : Kept(v)
  BY <1>1, <1>3, <1>5 DEF Kept, Based, Sized, Chained, Known, Base
<1>8. Distinct  BY <1>1 DEF Distinct
<1>9. QED  BY <1>2, <1>4, <1>6, <1>7, <1>8 DEF LayoutInv, Shapes

(* A create or clone begins with what it knows of its source.                *)
LEMMA BeginLayout ==
    ASSUME LayoutInv, NEW v \in VM, NEW src \in VM \cup {None}, NEW image \in {Ref} \cup Base,
           NEW specs, NEW storage \in Nat, NEW resized \in BOOLEAN, NEW smbios \in BOOLEAN,
           Begin(v, src, image, specs, storage, resized, smbios),
           src = None => image \in {Ref, File},
           src # None =>
             /\ rec[src] # None
             /\ rec[src].digest \in blobs => image = rec[src].digest
             /\ rec[src].digest = None => image = rec[src].image
             /\ image \in {rec[src].digest, rec[src].image}
             /\ ~resized => storage = rec[src].size
    PROVE  LayoutInv'
<1> DEFINE names == ParseDataDisks(specs, Reserved(src))
<1>1. /\ job = Idle /\ rec[v] = None /\ lost' = Blob \ blobs /\ Cleared(v)
      /\ UNCHANGED <<ref, blobs, rec>>
      /\ job' = [pc |-> "resolve", vm |-> v, src |-> src, image |-> image, specs |-> specs,
                 names |-> names, storage |-> storage, resized |-> resized, smbios |-> smbios,
                 digest |-> None, base |-> None, oc |-> None, ocBase |-> None, id |-> None]
  BY DEF Begin, store
<1> HIDE DEF names
<1>2. StoreTypes'  BY <1>1 DEF LayoutInv, Shapes, StoreTypes
<1>3. FileTypes' /\ Distinct'  BY <1>1, ClearedFiles
<1>4. RecTypes' /\ \A w \in Known' : Kept(w)'
  BY <1>1, ClearedFiles, OthersKept DEF Known
<1>5. job' \in Jobs(job'.names, job'.specs)  BY <1>1 DEF Jobs, Steps
<1>6. Planned'
  <2>1. /\ job'.vm = v /\ job'.src = src /\ job'.image = image /\ job'.resized = resized
        /\ job'.storage = storage
    BY <1>1
  <2>2. src # None => rec[src].digest \in Blob \cup {None}
    BY <1>1 DEF LayoutInv, Shapes, RecTypes, Known, Records
  <2>3. QED  BY <1>1, <2>1, <2>2 DEF Planned
<1>7. Resolved' /\ Built' /\ Identified'
  BY <1>1 DEF Resolved, Built, Identified
<1>8. QED  BY <1>2, <1>3, <1>4, <1>5, <1>6, <1>7 DEF LayoutInv, Shapes, Underway

(* create: from flags.                                                       *)
LEMMA CreateLayout == ASSUME LayoutInv, Create PROVE LayoutInv'
<1>1. PICK v \in VM, image \in {Ref, File}, specs \in SpecLists, s \in Storage, smbios \in BOOLEAN :
        Begin(v, None, image, specs, s, s # 0, smbios)
  BY DEF Create
<1>2. s \in Nat /\ (s # 0) \in BOOLEAN /\ image \in {Ref} \cup Base
  BY StorageAssumption DEF Base
<1>3. QED  BY <1>1, <1>2, BeginLayout

(* clone: from the record of its source.                                     *)
LEMMA CloneLayout == ASSUME LayoutInv, Clone PROVE LayoutInv'
<1>1. PICK v \in VM, src \in Known, specs \in SpecLists, s \in Storage, smbios \in BOOLEAN :
        /\ src # v
        /\ Begin(v, src, CloneImageBase(rec[src]), specs, CloneStorage(rec[src], s), s # 0,
                 smbios)
  BY DEF Clone
<1> DEFINE image == CloneImageBase(rec[src])
           storage == CloneStorage(rec[src], s)
<1>2. /\ src \in VM /\ rec[src] # None /\ src # None /\ s \in Nat
      /\ rec[src] \in Records(rec[src].disks)
  BY StorageAssumption, NoneAssumption DEF Known, LayoutInv, Shapes, RecTypes
<1>3. /\ image \in {Ref} \cup Base /\ storage \in Nat /\ (s # 0) \in BOOLEAN
      /\ ~(s # 0) => storage = rec[src].size
  <2>1. /\ rec[src].image \in {Ref, File} /\ rec[src].size \in Nat
        /\ blobs \subseteq Blob
    BY <1>2 DEF Records, LayoutInv, Shapes, StoreTypes
  <2>2. image \in {Ref} \cup Base
    <3>1. CASE rec[src].digest \in blobs  BY <2>1, <3>1 DEF CloneImageBase, Base
    <3>2. CASE rec[src].digest \notin blobs  BY <2>1, <3>2 DEF CloneImageBase, Base
    <3>3. QED  BY <3>1, <3>2
  <2>3. storage \in Nat /\ (s = 0 => storage = rec[src].size)
    BY <1>2, <2>1 DEF CloneStorage
  <2>4. QED  BY <2>2, <2>3
<1>4. /\ rec[src].digest \in blobs => image = rec[src].digest
      /\ rec[src].digest = None => image = rec[src].image
      /\ image \in {rec[src].digest, rec[src].image}
  BY NoneAssumption DEF CloneImageBase, LayoutInv, Shapes, StoreTypes, Base
<1> HIDE DEF image, storage
<1>5. Begin(v, src, image, specs, storage, s # 0, smbios)  BY <1>1 DEF image, storage
<1>6. QED  BY <1>2, <1>3, <1>4, <1>5, BeginLayout

(* resolveBase: the base is the blob the job was given, or what the          *)
(* reference names now.                                                      *)
LEMMA ResolveBaseLayout == ASSUME LayoutInv, ResolveBase PROVE LayoutInv'
<1>1. /\ job # Idle /\ Underway /\ job.pc = "resolve"
      /\ UNCHANGED <<ref, blobs, rec, disk, vsize, oc, ident, data, lost>>
  BY DEF LayoutInv, ResolveBase, Idle, At, store, files
<1>2. StoreTypes' /\ FileTypes' /\ Distinct'
  BY <1>1 DEF LayoutInv, Shapes, StoreTypes, FileTypes, Distinct
<1>3. RecTypes' /\ \A w \in Known' : Kept(w)'  BY <1>1, OthersKept
<1>4. PICK d \in Blob \cup {None}, b \in Base :
        /\ job' = [job EXCEPT !.pc = "bake", !.base = b, !.digest = d]
        /\ job.image \in Base => b = job.image /\ d = None
        /\ job.image = Ref => b = d
  <2>1. job.digest = None /\ job \in Jobs(job.names, job.specs)
    BY <1>1 DEF Underway, Resolved
  <2>2. CASE /\ job.image \in Base
             /\ job' = [job EXCEPT !.pc = "bake", !.base = job.image]
    <3>1. job' = [job EXCEPT !.pc = "bake", !.base = job.image, !.digest = None]
      BY <2>1, <2>2 DEF Jobs
    <3>2. QED  BY <2>2, <3>1, NameAssumption
  <2>3. CASE /\ job.image = Ref /\ ref \in blobs
             /\ job' = [job EXCEPT !.pc = "bake", !.base = ref, !.digest = ref]
    BY <2>3, NameAssumption DEF LayoutInv, Shapes, StoreTypes, Base
  <2>4. QED  BY <2>2, <2>3 DEF ResolveBase
<1>5. job' \in Jobs(job'.names, job'.specs)  BY <1>1, <1>4 DEF Underway, Jobs, Steps
<1>6. /\ job'.pc = "bake" /\ job'.vm = job.vm /\ job'.src = job.src /\ job'.image = job.image
      /\ job'.resized = job.resized /\ job'.storage = job.storage /\ job'.base = b
      /\ job'.digest = d /\ job'.id = job.id
  BY <1>1, <1>4 DEF Underway, Jobs
<1>7. Planned'  BY <1>1, <1>6 DEF Underway, Planned
<1>8. Resolved' /\ Built' /\ Identified'
  BY <1>1, <1>4, <1>6 DEF Underway, Resolved, Built, Identified
<1>9. QED  BY <1>2, <1>3, <1>5, <1>7, <1>8 DEF LayoutInv, Shapes, Underway

(* bakeOverlay.                                                              *)
LEMMA BakeLayout == ASSUME LayoutInv, Bake PROVE LayoutInv'
<1>1. /\ job # Idle /\ Underway /\ job.pc = "bake" /\ job' = [job EXCEPT !.pc = "resize"]
      /\ disk' = [disk EXCEPT ![job.vm] = job.base]
      /\ vsize' = [vsize EXCEPT ![job.vm] = SizeOf[job.base]]
      /\ UNCHANGED <<ref, blobs, rec, oc, ident, data, lost>>
  BY DEF LayoutInv, Bake, Idle, At, Goto, store
<1>2. /\ job \in Jobs(job.names, job.specs) /\ job.vm \in VM /\ rec[job.vm] = None
      /\ job.base \in Base /\ SizeOf[job.base] \in Nat
  BY <1>1, SizeAssumption DEF Underway, Jobs, Planned, Resolved
<1>3. StoreTypes' /\ FileTypes' /\ Distinct'
  BY <1>1, <1>2 DEF LayoutInv, Shapes, StoreTypes, FileTypes, Distinct
<1>4. /\ disk'[job.vm] = job.base /\ vsize'[job.vm] = SizeOf[job.base]
      /\ \A v \in VM \ {job.vm} : disk'[v] = disk[v] /\ vsize'[v] = vsize[v]
  BY <1>1, <1>2 DEF LayoutInv, Shapes, FileTypes
<1>5. RecTypes' /\ \A w \in Known' : Kept(w)'  BY <1>1, <1>2, <1>4, OthersKept DEF Known
<1>6. job' \in Jobs(job'.names, job'.specs)  BY <1>1, <1>2 DEF Jobs, Steps
<1>7. /\ job'.pc = "resize" /\ job'.vm = job.vm /\ job'.src = job.src /\ job'.image = job.image
      /\ job'.resized = job.resized /\ job'.storage = job.storage /\ job'.base = job.base
      /\ job'.digest = job.digest /\ job'.id = job.id
  BY <1>1, <1>2 DEF Jobs
<1>8. Planned'  BY <1>1, <1>7 DEF Underway, Planned
<1>9. Resolved' /\ Built' /\ Identified'
  BY <1>1, <1>4, <1>7 DEF Underway, Resolved, Built, Identified
<1>10. QED  BY <1>3, <1>5, <1>6, <1>8, <1>9 DEF LayoutInv, Shapes, Underway

(* resizeSystemDisk.                                                         *)
LEMMA ResizeLayout == ASSUME LayoutInv, Resize PROVE LayoutInv'
<1>1. /\ job # Idle /\ Underway /\ job.pc = "resize" /\ job' = [job EXCEPT !.pc = "copy"]
      /\ job.storage = 0 \/ job.storage >= vsize[job.vm]
      /\ vsize' = [vsize EXCEPT ![job.vm] = IF job.storage = 0 THEN @ ELSE job.storage]
      /\ UNCHANGED <<ref, blobs, rec, disk, oc, ident, data, lost>>
  BY DEF LayoutInv, Resize, Idle, At, Goto, store
<1>2. /\ job \in Jobs(job.names, job.specs) /\ job.vm \in VM /\ rec[job.vm] = None
      /\ job.base \in Base /\ SizeOf[job.base] \in Nat /\ job.storage \in Nat
      /\ vsize[job.vm] = SizeOf[job.base]
  BY <1>1, SizeAssumption DEF Underway, Jobs, Planned, Resolved, Built
<1>3. StoreTypes' /\ FileTypes' /\ Distinct'
  BY <1>1, <1>2 DEF LayoutInv, Shapes, StoreTypes, FileTypes, Distinct
<1>4. /\ vsize'[job.vm] = IF job.storage = 0 THEN SizeOf[job.base] ELSE job.storage
      /\ vsize'[job.vm] >= SizeOf[job.base]
      /\ \A v \in VM \ {job.vm} : vsize'[v] = vsize[v]
  BY <1>1, <1>2 DEF LayoutInv, Shapes, FileTypes
<1>5. RecTypes' /\ \A w \in Known' : Kept(w)'  BY <1>1, <1>2, <1>4, OthersKept DEF Known
<1>6. job' \in Jobs(job'.names, job'.specs)  BY <1>1, <1>2 DEF Jobs, Steps
<1>7. /\ job'.pc = "copy" /\ job'.vm = job.vm /\ job'.src = job.src /\ job'.image = job.image
      /\ job'.resized = job.resized /\ job'.storage = job.storage /\ job'.base = job.base
      /\ job'.digest = job.digest /\ job'.id = job.id
  BY <1>1, <1>2 DEF Jobs
<1>8. Planned'  BY <1>1, <1>7 DEF Underway, Planned
<1>9. disk'[job'.vm] = job'.base  BY <1>1, <1>7 DEF Underway, Built
<1>10. Built'  BY <1>4, <1>7, <1>9 DEF Built
<1>11. Resolved' /\ Identified'  BY <1>1, <1>7 DEF Underway, Resolved, Identified
<1>12. QED  BY <1>3, <1>5, <1>6, <1>8, <1>10, <1>11 DEF LayoutInv, Shapes, Underway

(* The data disks: neither the overlay nor the record changes.               *)
LEMMA DisksLayout ==
    ASSUME LayoutInv, CopyDisks \/ CreateDisks
    PROVE  LayoutInv'
<1>1. PICK pc \in {"disks", "opencore"} : job' = [job EXCEPT !.pc = pc]
  BY DEF CopyDisks, CreateDisks, Goto
<1>2. /\ job # Idle /\ Underway /\ job.pc \in {"copy", "disks"}
      /\ UNCHANGED <<ref, blobs, rec, disk, vsize, oc, ident, lost>>
  BY DEF LayoutInv, CopyDisks, CreateDisks, Idle, At, store
<1>3. data' = [v \in VM |-> data'[v]]
  BY DEF LayoutInv, Shapes, FileTypes, CopyDisks, CreateDisks
<1>4. StoreTypes' /\ FileTypes' /\ Distinct'
  BY <1>2, <1>3 DEF LayoutInv, Shapes, StoreTypes, FileTypes, Distinct
<1>5. RecTypes' /\ \A w \in Known' : Kept(w)'  BY <1>2, OthersKept
<1>6. job \in Jobs(job.names, job.specs)  BY <1>2 DEF Underway
<1>7. job' \in Jobs(job'.names, job'.specs)  BY <1>1, <1>6 DEF Jobs, Steps
<1>8. /\ job'.pc = pc /\ job'.vm = job.vm /\ job'.src = job.src /\ job'.image = job.image
      /\ job'.resized = job.resized /\ job'.storage = job.storage /\ job'.base = job.base
      /\ job'.digest = job.digest /\ job'.id = job.id
  BY <1>1, <1>6 DEF Jobs
<1>9. Planned'  BY <1>2, <1>8 DEF Underway, Planned
<1>10. Resolved' /\ Built' /\ Identified'
  BY <1>2, <1>8 DEF Underway, Resolved, Built, Identified
<1>11. QED  BY <1>4, <1>5, <1>7, <1>9, <1>10 DEF LayoutInv, Shapes, Underway

(* prepareOpenCore: the overlay is on the shared image whatever the source   *)
(* boots, and its identity is nobody else's.                                 *)
LEMMA OpenCoreBase ==
    ASSUME NEW v \in Known, LayoutInv
    PROVE  CloneOpenCoreBase(rec[v]) = Firmware
<1>1. /\ rec[v] \in Records(rec[v].disks) /\ Chained(v)
  BY DEF LayoutInv, Shapes, RecTypes, Kept
<1>2. QED  BY <1>1, NoneAssumption DEF Records, Chained, CloneOpenCoreBase

(* prepareOpenCore.                                                          *)
LEMMA PrepareOpenCoreLayout == ASSUME LayoutInv, PrepareOpenCore PROVE LayoutInv'
<1>1. /\ job # Idle /\ Underway /\ job.pc = "opencore"
      /\ UNCHANGED <<ref, blobs, rec, disk, vsize, data, lost>>
  BY DEF LayoutInv, PrepareOpenCore, Idle, At, store
<1>2. /\ job \in Jobs(job.names, job.specs) /\ job.vm \in VM /\ rec[job.vm] = None
      /\ job.id = None
      /\ job.src # None => job.src \in Known
  BY <1>1 DEF Underway, Jobs, Planned, Identified, Known
<1>3. PICK fresh \in BOOLEAN :
        /\ OpenCore(Firmware, fresh)
        /\ job.src # None /\ rec[job.src].smbios # None => fresh
  <2>1. CASE job.src = None  BY <1>2, <2>1 DEF PrepareOpenCore, Jobs
  <2>2. CASE job.src # None
    <3>1. OpenCore(Firmware, FreshIdentity(rec[job.src]))
      BY <1>2, <2>2, OpenCoreBase DEF PrepareOpenCore
    <3>2. FreshIdentity(rec[job.src]) \in BOOLEAN
      BY <1>2 DEF FreshIdentity, Jobs
    <3>3. rec[job.src].smbios # None => FreshIdentity(rec[job.src])  BY DEF FreshIdentity
    <3>4. QED  BY <3>1, <3>2, <3>3
  <2>3. QED  BY <2>1, <2>2
<1>4. PICK o \in {Firmware, job.vm}, ob \in {Firmware, None}, i \in Ident \cup {None} :
        /\ job' = [job EXCEPT !.pc = "save", !.oc = o, !.ocBase = ob, !.id = i]
        /\ \/ o = Firmware /\ i = None /\ UNCHANGED <<oc, ident>>
           \/ /\ o = job.vm /\ i \in Unused
              /\ oc' = [oc EXCEPT ![job.vm] = Firmware]
              /\ ident' = [ident EXCEPT ![job.vm] = i]
        /\ fresh => i # None
  <2>1. CASE fresh
    <3>1. PICK i \in Unused :
            /\ oc' = [oc EXCEPT ![job.vm] = Firmware]
            /\ ident' = [ident EXCEPT ![job.vm] = i]
            /\ job' = [job EXCEPT !.pc = "save", !.oc = job.vm, !.ocBase = Firmware, !.id = i]
      BY <1>3, <2>1 DEF OpenCore
    <3>2. i \in Ident /\ i # None  BY NoneAssumption DEF Unused
    <3>3. QED  BY <3>1, <3>2
  <2>2. CASE ~fresh
    <3>1. /\ job' = [job EXCEPT !.pc = "save", !.oc = Firmware]
          /\ UNCHANGED <<oc, ident>>
      BY <1>3, <2>2 DEF OpenCore
    <3>2. job' = [job EXCEPT !.pc = "save", !.oc = Firmware, !.ocBase = job.ocBase, !.id = None]
      BY <1>2, <3>1 DEF Jobs
    <3>3. job.ocBase \in {Firmware, None}  BY <1>2 DEF Jobs
    <3>4. QED  BY <2>2, <3>1, <3>2, <3>3
  <2>3. QED  BY <2>1, <2>2
<1>5. /\ i # None => i \in Unused /\ i \in Ident
      /\ \A w \in VM \ {job.vm} : oc'[w] = oc[w] /\ ident'[w] = ident[w]
      /\ i # None => ident'[job.vm] = i /\ oc'[job.vm] = Firmware
      /\ i = None => ident'[job.vm] = ident[job.vm]
      /\ oc' \in [VM -> VM \cup {Firmware, None}] /\ ident' \in [VM -> Ident \cup {None}]
  BY <1>2, <1>4, NoneAssumption DEF LayoutInv, Shapes, FileTypes, Unused
<1>6. Distinct'
  <2>1. i # None => \A w \in VM : ident[w] # i  BY <1>5 DEF Unused
  <2>2. SUFFICES ASSUME NEW v \in VM, NEW w \in VM, ident'[v] # None, ident'[v] = ident'[w]
                 PROVE v = w
    BY DEF Distinct
  <2>3. CASE i = None  BY <1>2, <1>5, <2>2, <2>3 DEF LayoutInv, Distinct
  <2>4. CASE i # None  BY <1>2, <1>5, <2>1, <2>2, <2>4 DEF LayoutInv, Distinct
  <2>5. QED  BY <2>3, <2>4
<1>7. StoreTypes' /\ FileTypes'
  BY <1>1, <1>5 DEF LayoutInv, Shapes, StoreTypes, FileTypes
<1>8. RecTypes' /\ \A w \in Known' : Kept(w)'  BY <1>1, <1>2, <1>5, OthersKept DEF Known
<1>9. job' \in Jobs(job'.names, job'.specs)  BY <1>2, <1>4 DEF Jobs, Steps
<1>10. /\ job'.pc = "save" /\ job'.vm = job.vm /\ job'.src = job.src /\ job'.image = job.image
       /\ job'.resized = job.resized /\ job'.storage = job.storage /\ job'.base = job.base
       /\ job'.digest = job.digest /\ job'.id = i /\ job'.oc = o
  BY <1>2, <1>4 DEF Jobs
<1>11. Planned'  BY <1>1, <1>10 DEF Underway, Planned
<1>12. Resolved' /\ Built'  BY <1>1, <1>10 DEF Underway, Resolved, Built
<1>13. Identified'
  <2>1. i = None => o = Firmware  BY <1>4, NoneAssumption DEF Unused
  <2>2. i # None => o = job.vm  BY <1>4
  <2>3. QED  BY <1>1, <1>3, <1>4, <1>5, <1>10, <2>1, <2>2 DEF Identified
<1>14. QED  BY <1>6, <1>7, <1>8, <1>9, <1>11, <1>12, <1>13 DEF LayoutInv, Shapes, Underway

(* Any step fails.                                                           *)
LEMMA FailLayout == ASSUME LayoutInv, Fail PROVE LayoutInv'
<1>1. /\ job.vm \in VM /\ rec[job.vm] = None /\ Cleared(job.vm)
      /\ job' = Idle /\ lost' = {} /\ UNCHANGED <<ref, blobs, rec>>
  BY DEF LayoutInv, Fail, Underway, Jobs, Planned, store
<1>2. StoreTypes'  BY <1>1 DEF LayoutInv, Shapes, StoreTypes
<1>3. FileTypes' /\ Distinct'  BY <1>1, ClearedFiles
<1>4. RecTypes' /\ \A w \in Known' : Kept(w)'  BY <1>1, ClearedFiles, OthersKept DEF Known
<1>5. QED  BY <1>1, <1>2, <1>3, <1>4 DEF LayoutInv, Shapes

(* The record is written.                                                    *)
LEMMA SavedDigest ==
    ASSUME LayoutInv, Underway, job.pc = "save"
    PROVE  /\ RecordedImage(job.src) \in {Ref, File}
           /\ RecordedDigest(job.src) \in Blob \cup {None}
           /\ RecordedDigest(job.src) # None => RecordedDigest(job.src) = disk[job.vm]
           /\ RecordedImage(job.src) = File => RecordedDigest(job.src) = None
<1>1. /\ job.image \in {Ref} \cup Base /\ job.digest \in Blob \cup {None}
      /\ job.base \in Base /\ disk[job.vm] = job.base
      /\ job.image \in Base => job.base = job.image /\ job.digest = None
      /\ job.image = Ref => job.base = job.digest
  BY DEF Underway, Jobs, Resolved, Built
<1>2. CASE job.src = None
  BY <1>1, <1>2 DEF RecordedImage, RecordedDigest, Underway, Planned, Base
<1>3. CASE job.src # None
  <2> DEFINE r == rec[job.src]
  <2>1. /\ job.src \in Known
        /\ r.digest = None => job.image = r.image
        /\ job.image \in {r.digest, r.image}
    BY <1>3 DEF Underway, Jobs, Planned, Known
  <2>2. /\ r.image \in {Ref, File} /\ r.digest \in Blob \cup {None}
        /\ r.image = File => r.digest = None
    BY <2>1 DEF LayoutInv, Shapes, RecTypes, Records, Kept, Based
  <2>3. /\ RecordedImage(job.src) = r.image
        /\ RecordedDigest(job.src) = IF job.digest # None THEN job.digest ELSE r.digest
    BY <1>3 DEF RecordedImage, RecordedDigest
  <2> HIDE DEF r
  <2>4. File \in Base /\ Blob \subseteq Base /\ None \notin Base /\ Ref \notin Base
    BY NoneAssumption, NameAssumption DEF Base
  <2>5. QED  BY <1>1, <2>1, <2>2, <2>3, <2>4
<1>4. QED  BY <1>2, <1>3

(* The record agrees with the files beside it.                               *)
LEMMA SaveLayout == ASSUME LayoutInv, Save PROVE LayoutInv'
<1>1. /\ job # Idle /\ Underway /\ job.pc = "save"
      /\ UNCHANGED <<ref, blobs, disk, vsize, oc, ident>>
      /\ job' = Idle /\ lost' = {}
  BY DEF LayoutInv, Save, Idle, At, store
<1>2. /\ job \in Jobs(job.names, job.specs) /\ job.vm \in VM /\ rec[job.vm] = None
      /\ job.base \in Base /\ SizeOf[job.base] \in Nat /\ vsize[job.vm] \in Nat
      /\ disk[job.vm] = job.base /\ vsize[job.vm] >= SizeOf[job.base]
  BY <1>1, SizeAssumption
  DEF Underway, Jobs, Planned, Resolved, Built, LayoutInv, Shapes, FileTypes
<1>3. StoreTypes' /\ Distinct'  BY <1>1 DEF LayoutInv, Shapes, StoreTypes, Distinct
<1>4. FileTypes'
  <2>1. data' = [v \in VM |-> data'[v]]  BY DEF LayoutInv, Shapes, FileTypes, Save
  <2>2. QED  BY <1>1, <2>1 DEF LayoutInv, Shapes, FileTypes
<1> DEFINE n == [image |-> RecordedImage(job.src), digest |-> RecordedDigest(job.src),
                 size |-> vsize[job.vm], disks |-> Reserved(job.src) \o job.names,
                 oc |-> job.oc, ocBase |-> job.ocBase, smbios |-> job.id]
<1>5. rec' = [rec EXCEPT ![job.vm] = n]  BY DEF Save
<1>6. n \in Records(n.disks)
  BY <1>1, <1>2, SavedDigest DEF Records, Jobs, Underway, Identified
<1>7. /\ n.image = RecordedImage(job.src) /\ n.digest = RecordedDigest(job.src)
      /\ n.size = vsize[job.vm] /\ n.oc = job.oc /\ n.smbios = job.id
  OBVIOUS
<1> HIDE DEF n
<1>8. /\ rec' = [v \in VM |-> rec'[v]] /\ rec'[job.vm] = n
      /\ \A v \in VM \ {job.vm} : rec'[v] = rec[v]
  BY <1>2, <1>5 DEF LayoutInv, Shapes, RecTypes
<1>9. RecTypes'
  <2>1. \A v \in Known' : v = job.vm \/ v \in Known  BY <1>8 DEF Known
  <2>2. \A v \in Known' : rec'[v] \in Records(rec'[v].disks)
    BY <1>2, <1>6, <1>8, <2>1 DEF LayoutInv, Shapes, RecTypes, Known
  <2>3. QED  BY <1>8, <2>2 DEF RecTypes
<1>10. \A w \in Known' : Kept(w)'
  <2>1. PICK v \in VM : v = job.vm  BY <1>2
  <2>2. Based(v)'  BY <1>1, <1>2, <1>7, <1>8, <2>1, SavedDigest DEF Based
  <2>3. Sized(v)'  BY <1>1, <1>2, <1>7, <1>8, <2>1 DEF Sized
  <2>4. Chained(v)'  BY <1>1, <1>7, <1>8, <2>1 DEF Chained, Underway, Identified
  <2>5. \A w \in VM \ {v} : w \in Known' => Kept(w)'
    BY <1>1, <1>8, <2>1, KeptSame DEF LayoutInv, Known
  <2>6. QED  BY <2>2, <2>3, <2>4, <2>5 DEF Kept, Known
<1>11. QED  BY <1>1, <1>3, <1>4, <1>9, <1>10 DEF LayoutInv, Shapes

-----------------------------------------------------------------------------
(* Meanwhile.                                                                *)

(* What a job counts on is of its own VM and of its source, which stays.     *)
LEMMA JobSame ==
    ASSUME Underway, UNCHANGED job, rec'[job.vm] = None,
           job.src # None => /\ rec'[job.src] = rec[job.src]
                             /\ rec[job.src].digest \notin lost' => rec[job.src].digest \notin lost,
           disk'[job.vm] = disk[job.vm], vsize'[job.vm] = vsize[job.vm],
           oc'[job.vm] = oc[job.vm], ident'[job.vm] = ident[job.vm]
    PROVE  Underway'
<1>1. job' \in Jobs(job'.names, job'.specs)  BY DEF Underway, Jobs
<1>2. Planned'  BY DEF Underway, Planned
<1>3. Resolved' /\ Built' /\ Identified'  BY DEF Underway, Resolved, Built, Identified
<1>4. QED  BY <1>1, <1>2, <1>3 DEF Underway

(* rm of a VM that no clone is reading.                                      *)
LEMMA RMLayout == ASSUME LayoutInv, NEW v \in VM, RM(v) PROVE LayoutInv'
<1>1. /\ rec[v] # None /\ rec' = [rec EXCEPT ![v] = None] /\ Cleared(v)
      /\ UNCHANGED <<ref, blobs, job, lost>>
  BY DEF RM, store
<1>2. StoreTypes' /\ FileTypes' /\ Distinct'
  BY <1>1, ClearedFiles DEF LayoutInv, Shapes, StoreTypes
<1>3. /\ rec' = [w \in VM |-> rec'[w]] /\ rec'[v] = None
      /\ \A w \in VM \ {v} : rec'[w] = rec[w]
  BY <1>1 DEF LayoutInv, Shapes, RecTypes
<1>4. RecTypes'  BY <1>3 DEF LayoutInv, Shapes, RecTypes, Known
<1>5. \A w \in Known' : Kept(w)'
  <2>1. \A w \in Known' : w # v /\ w \in Known  BY <1>3 DEF Known
  <2>2. QED  BY <1>1, <1>3, <2>1, ClearedFiles, KeptSame DEF LayoutInv, Known
<1>6. CASE job = Idle  BY <1>1, <1>2, <1>4, <1>5, <1>6 DEF LayoutInv, Shapes
<1>7. CASE job # Idle
  <2>1. Underway /\ job.src # v  BY <1>7 DEF LayoutInv, RM
  <2>2. /\ job.vm \in VM /\ rec[job.vm] = None /\ job.vm # v
        /\ job.src \in VM \cup {None}
    BY <1>1, <2>1 DEF Underway, Jobs, Planned
  <2>3. Underway'  BY <1>1, <1>3, <2>1, <2>2, ClearedFiles, JobSame
  <2>4. QED  BY <1>2, <1>4, <1>5, <2>3 DEF LayoutInv, Shapes
<1>8. QED  BY <1>6, <1>7

(* The store moves: pull, image rm.                                          *)
LEMMA StoreLayout ==
    ASSUME LayoutInv, UNCHANGED <<rec, disk, vsize, oc, ident, data, job>>, StoreTypes',
           job # Idle => lost \subseteq lost'
    PROVE  LayoutInv'
<1>1. FileTypes' /\ Distinct'  BY DEF LayoutInv, Shapes, FileTypes, Distinct
<1>2. RecTypes' /\ \A w \in Known' : Kept(w)'  BY OthersKept
<1>3. CASE job = Idle  BY <1>1, <1>2, <1>3 DEF LayoutInv, Shapes
<1>4. CASE job # Idle
  <2>1. Underway /\ rec[job.vm] = None  BY <1>4 DEF LayoutInv, Underway, Planned
  <2>2. Underway'  BY <1>4, <2>1, JobSame
  <2>3. QED  BY <1>1, <1>2, <2>2 DEF LayoutInv, Shapes
<1>5. QED  BY <1>3, <1>4

(* Every step.                                                               *)
LEMMA LayoutNext == LayoutInv /\ [Next]_vars => LayoutInv'
<1> SUFFICES ASSUME LayoutInv, [Next]_vars PROVE LayoutInv'  OBVIOUS
<1>1. CASE Create  BY <1>1, CreateLayout
<1>2. CASE Clone  BY <1>2, CloneLayout
<1>3. CASE ResolveBase  BY <1>3, ResolveBaseLayout
<1>4. CASE Bake  BY <1>4, BakeLayout
<1>5. CASE Resize  BY <1>5, ResizeLayout
<1>6. CASE CopyDisks \/ CreateDisks  BY <1>6, DisksLayout
<1>7. CASE PrepareOpenCore  BY <1>7, PrepareOpenCoreLayout
<1>8. CASE Save  BY <1>8, SaveLayout
<1>9. CASE Fail  BY <1>9, FailLayout
<1>10. CASE \E v \in VM : RM(v)  BY <1>10, RMLayout
<1>11. CASE \E b \in Blob : Pull(b) \/ DropBlob(b)
  <2>1. PICK b \in Blob : Pull(b) \/ DropBlob(b)  BY <1>11
  <2>2. CASE Pull(b)
    BY <2>2, StoreLayout DEF Pull, files, LayoutInv, Shapes, StoreTypes
  <2>3. CASE DropBlob(b)
    BY <2>3, StoreLayout DEF DropBlob, files, LayoutInv, Shapes, StoreTypes
  <2>4. QED  BY <2>1, <2>2, <2>3
<1>12. CASE DropRef
  BY <1>12, StoreLayout DEF DropRef, files, LayoutInv, Shapes, StoreTypes
<1>13. CASE UNCHANGED vars
  BY <1>13, StoreLayout DEF vars, store, files, LayoutInv, Shapes, StoreTypes
<1>14. QED
  BY <1>1, <1>2, <1>3, <1>4, <1>5, <1>6, <1>7, <1>8, <1>9, <1>10, <1>11, <1>12, <1>13 DEF Next

(* What the records say of the files, and what each step of a create or      *)
(* clone has laid down, in every reachable state.                            *)
THEOREM LayoutCorrect == Spec => []LayoutInv
  BY LayoutInit, LayoutNext, PTL DEF Spec

-----------------------------------------------------------------------------
(* What follows.                                                             *)

(* A job that has baked its overlay, and its source.                         *)
LEMMA ClonedFacts ==
    ASSUME LayoutInv, Cloned
    PROVE  /\ Underway /\ job.src \in Known /\ job.pc \in {"copy", "disks", "opencore", "save"}
           /\ disk[job.vm] = job.base
           /\ vsize[job.vm] = IF job.storage = 0 THEN SizeOf[job.base] ELSE job.storage
  BY DEF LayoutInv, Cloned, Underway, Jobs, Planned, Built, Known

(* What the record of the source promises, the job has followed.             *)
LEMMA LayoutShares == LayoutInv => ClonesShareTheBase
<1> SUFFICES ASSUME LayoutInv PROVE ClonesShareTheBase  OBVIOUS
<1>1. \A v \in Known : rec[v].digest # None => rec[v].digest = disk[v]
  BY DEF LayoutInv, Kept, Based
<1>2. ASSUME Cloned, rec[job.src].digest \notin lost \cup {None}
      PROVE  disk[job.vm] = rec[job.src].digest
  <2>1. Underway /\ job.src \in Known /\ disk[job.vm] = job.base
    BY <1>2, ClonedFacts
  <2>2. rec[job.src].digest \in Blob
    BY <1>2, <2>1 DEF LayoutInv, Shapes, RecTypes, Records
  <2>3. job.image = rec[job.src].digest /\ job.image \in Base
    BY <1>2, <2>1, <2>2 DEF Underway, Planned, Cloned, Base
  <2>4. QED  BY <1>2, <2>1, <2>3 DEF Underway, Resolved, Cloned
<1>3. QED  BY <1>1, <1>2 DEF ClonesShareTheBase

(* A clone rests on its source's blob while the store has had it all along,  *)
(* and a recorded digest names the base under the overlay (cloneImageBase,   *)
(* resolveBase).                                                             *)
THEOREM SharedBase == Spec => []ClonesShareTheBase
  BY LayoutCorrect, LayoutShares, PTL

(* On the same base, a record without a size stands for the base's own.      *)
LEMMA LayoutKeepsStorage == LayoutInv => StorageKept
<1> SUFFICES ASSUME LayoutInv PROVE StorageKept  OBVIOUS
<1>1. \A v \in Known : rec[v].size \in {0, vsize[v]} /\ vsize[v] >= SizeOf[disk[v]]
  BY DEF LayoutInv, Kept, Sized
<1>2. ASSUME Cloned, disk[job.vm] = disk[job.src], ~job.resized
      PROVE  vsize[job.vm] = vsize[job.src]
  <2>1. /\ Underway /\ job.src \in Known /\ disk[job.vm] = job.base
        /\ vsize[job.vm] = IF job.storage = 0 THEN SizeOf[job.base] ELSE job.storage
    BY <1>2, ClonedFacts
  <2>2. job.storage = rec[job.src].size  BY <1>2, <2>1 DEF Underway, Planned, Cloned
  <2>3. Sized(job.src) /\ disk[job.src] \in Base  BY <2>1 DEF LayoutInv, Kept, Based
  <2>4. SizeOf[disk[job.src]] \in Nat \ {0} /\ vsize[job.src] \in Nat
    BY <2>1, <2>3, SizeAssumption DEF LayoutInv, Shapes, FileTypes, Known
  <2>5. QED  BY <1>2, <2>1, <2>2, <2>3, <2>4 DEF Sized
<1>3. QED  BY <1>1, <1>2 DEF StorageKept

(* The recorded storage is the size of the overlay, never below its base's,  *)
(* and a clone without --storage is as large as its source                   *)
(* (resizeSystemDisk, clone).                                                *)
THEOREM StorageIsKept == Spec => []StorageKept
  BY LayoutCorrect, LayoutKeepsStorage, PTL

(* Chained says more: who has an identity.                                   *)
LEMMA LayoutKeepsChains == LayoutInv => ChainsStayOwn
  BY DEF LayoutInv, Kept, Chained, ChainsStayOwn

(* No VM boots through a file in another VM's dir (cloneOpenCoreBase,        *)
(* prepareOpenCore).                                                         *)
THEOREM ChainsAreOwn == Spec => []ChainsStayOwn
  BY LayoutCorrect, LayoutKeepsChains, PTL

(* What a VM boots with is what its record says.                             *)
LEMMA LayoutTellsApart == LayoutInv => IdentitiesDiffer
<1> SUFFICES ASSUME LayoutInv PROVE IdentitiesDiffer  OBVIOUS
<1>1. \A v \in Known : Booted(v) = rec[v].smbios /\ (Booted(v) # None => Booted(v) = ident[v])
  <2> SUFFICES ASSUME NEW v \in Known
               PROVE  Booted(v) = rec[v].smbios /\ (Booted(v) # None => Booted(v) = ident[v])
    OBVIOUS
  <2>1. Chained(v) /\ v \in VM  BY DEF LayoutInv, Kept, Known
  <2>2. QED  BY <2>1, NameAssumption DEF Chained, Booted
<1>2. \A v, w \in Known : v # w /\ Booted(v) # None => Booted(v) # Booted(w)
  BY <1>1 DEF LayoutInv, Distinct, Known
<1>3. ASSUME At("save"), job.src # None, Booted(job.src) # None
      PROVE  job.id # None
  <2>1. Underway /\ job.src \in Known
    BY <1>3 DEF At, Idle, LayoutInv, Underway, Jobs, Planned, Known
  <2>2. QED  BY <1>1, <1>3, <2>1 DEF At, Underway, Identified
<1>4. QED  BY <1>2, <1>3 DEF IdentitiesDiffer

(* No two VMs boot with the same identity, and a clone of a VM that has one  *)
(* gets one (freshIdentity).                                                 *)
THEOREM IdentitiesStayApart == Spec => []IdentitiesDiffer
  BY LayoutCorrect, LayoutTellsApart, PTL

-----------------------------------------------------------------------------
(* Induction over the naturals, for sets; the library states it for          *)
(* predicates, which the provers do not instantiate.                         *)

(* A set of naturals has a least one.                                        *)
LEMMA LeastNumber ==
    ASSUME NEW T \in SUBSET Nat, T # {}
    PROVE  \E x \in T : \A y \in T : x <= y
<1> DEFINE R == OpToRel(<, Nat)
<1>1. IsWellFoundedOn(R, Nat)  BY NatLessThanWellFounded
<1>2. \A x, y \in Nat : x < y => <<x, y>> \in R  BY DEF OpToRel
<1> HIDE DEF R
<1>3. PICK x \in T : \A y \in T : ~(<<y, x>> \in R)  BY <1>1, WFMin
<1>4. \A y \in T : x \in Nat /\ y \in Nat  OBVIOUS
<1>5. \A y \in T : ~(y < x)  BY <1>2, <1>3, <1>4
<1>6. \A y \in T : x <= y  BY <1>4, <1>5
<1>7. QED  BY <1>6

(* The set of the naturals with a property is closed under successor.        *)
LEMMA Induction ==
    ASSUME NEW S \in SUBSET Nat, 0 \in S, \A n \in S : n + 1 \in S
    PROVE  S = Nat
<1>1. ASSUME S # Nat PROVE FALSE
  <2>1. PICK x \in Nat \ S : \A y \in Nat \ S : x <= y  BY <1>1, LeastNumber
  <2>2. x # 0 /\ x - 1 \in Nat /\ x - 1 \in S  BY <2>1
  <2>3. (x - 1) + 1 = x  BY <2>1
  <2>4. QED  BY <2>2, <2>3
<1>2. QED  BY <1>1

(* Least is what its name says.                                              *)
LEMMA LeastIsLeast ==
    ASSUME NEW T \in SUBSET Nat, T # {}
    PROVE  Least(T) \in T /\ \A m \in T : Least(T) <= m
<1>1. \E n \in T : \A m \in T : n <= m  BY LeastNumber
<1>2. QED  BY <1>1 DEF Least

-----------------------------------------------------------------------------
(* parseDataDisks: Named is the loop over the command line.                  *)

(* One turn of the loop, and where it starts.                                *)
Given(done, s, specs, used) ==
    IF s # Unnamed THEN [done EXCEPT !.names = Append(@, s)]
    ELSE LET n == Least({m \in done.next .. done.next + Len(specs) + MaxDataDisks : m \notin used})
         IN [names |-> Append(done.names, n), next |-> n + 1]
Start == [names |-> << >>, next |-> 1]

(* The fold is over the set of the indices, the last one outermost.          *)
Folded(iter, S, specs, used) ==
    iter = [s \in SUBSET S |->
              IF s = {} THEN Start
              ELSE Given(iter[s \ {Max(s)}], specs[Max(s)], specs, used)]

(* FoldLeft is that function at the whole set.                               *)
LEMMA NamedFold ==
    ASSUME NEW specs, NEW used
    PROVE  Named(specs, used)
             = (CHOOSE iter : Folded(iter, DOMAIN specs, specs, used))[DOMAIN specs].names
  BY Zenon DEF Named, FoldLeft, MapThenFoldSet, Folded, Given, Start

(* The outermost index.                                                      *)
LEMMA MaxOfInterval ==
    ASSUME NEW n \in Nat, NEW s \in SUBSET (1 .. n + 1), n + 1 \in s
    PROVE  Max(s) = n + 1
<1>1. \A y \in s : n + 1 >= y  OBVIOUS
<1>2. \A x \in s : (\A y \in s : x >= y) => x = n + 1  OBVIOUS
<1>3. QED  BY <1>1, <1>2 DEF Max

(* Such a function exists for every number of indices.                       *)
LEMMA FoldExists ==
    ASSUME NEW specs, NEW used, NEW k \in Nat
    PROVE  \E iter : Folded(iter, 1 .. k, specs, used)
<1> DEFINE S == {n \in Nat : \E iter : Folded(iter, 1 .. n, specs, used)}
<1>1. 0 \in S
  <2> DEFINE iter == [s \in SUBSET (1 .. 0) |-> Start]
  <2>1. \A s \in SUBSET (1 .. 0) : s = {}  OBVIOUS
  <2>2. Folded(iter, 1 .. 0, specs, used)  BY <2>1 DEF Folded
  <2>3. QED  BY <2>2
<1>2. ASSUME NEW n \in S PROVE n + 1 \in S
  <2>1. n \in Nat /\ \E iter : Folded(iter, 1 .. n, specs, used)  OBVIOUS
  <2>2. PICK f : Folded(f, 1 .. n, specs, used)  BY <2>1
  <2> DEFINE g == [s \in SUBSET (1 .. n + 1) |->
                     IF n + 1 \in s THEN Given(f[s \ {n + 1}], specs[n + 1], specs, used)
                     ELSE f[s]]
  <2>3. \A s \in SUBSET (1 .. n + 1) : n + 1 \notin s <=> s \in SUBSET (1 .. n)
    BY <2>1
  <2>4. ASSUME NEW s \in SUBSET (1 .. n + 1)
        PROVE  g[s] = IF s = {} THEN Start
                      ELSE Given(g[s \ {Max(s)}], specs[Max(s)], specs, used)
    <3>1. CASE n + 1 \in s
      <4>1. Max(s) = n + 1  BY <2>1, <3>1, MaxOfInterval
      <4>2. s \ {n + 1} \in SUBSET (1 .. n) /\ s \ {n + 1} \in SUBSET (1 .. n + 1)
        BY <2>1, <2>3
      <4>3. g[s \ {n + 1}] = f[s \ {n + 1}]  BY <4>2
      <4>4. g[s] = Given(f[s \ {n + 1}], specs[n + 1], specs, used)  BY <3>1
      <4>5. QED  BY <3>1, <4>1, <4>3, <4>4
    <3>2. CASE n + 1 \notin s
      <4>1. s \in SUBSET (1 .. n)  BY <2>3, <3>2
      <4>2. g[s] = f[s]  BY <3>2
      <4>3. s \ {Max(s)} \in SUBSET (1 .. n + 1) /\ n + 1 \notin s \ {Max(s)}  BY <3>2
      <4>4. g[s \ {Max(s)}] = f[s \ {Max(s)}]  BY <4>3
      <4>5. f[s] = IF s = {} THEN Start
                   ELSE Given(f[s \ {Max(s)}], specs[Max(s)], specs, used)
        BY <2>2, <4>1 DEF Folded
      <4>6. QED  BY <4>2, <4>4, <4>5
    <3>3. QED  BY <3>1, <3>2
  <2>5. g = [s \in SUBSET (1 .. n + 1) |->
               IF s = {} THEN Start
               ELSE Given(g[s \ {Max(s)}], specs[Max(s)], specs, used)]
    <3>1. g = [s \in SUBSET (1 .. n + 1) |-> g[s]]  OBVIOUS
    <3> HIDE DEF g
    <3>2. QED  BY <2>4, <3>1
  <2> HIDE DEF g
  <2>6. Folded(g, 1 .. n + 1, specs, used)  BY <2>5 DEF Folded
  <2>7. QED  BY <2>1, <2>6
<1>3. S = Nat
  <2> HIDE DEF S
  <2>1. S \subseteq Nat  BY DEF S
  <2>2. QED  BY <1>1, <1>2, <2>1, Induction
<1>4. QED  BY <1>3

(* Named, turn by turn.                                                      *)
LEMMA NamedSteps ==
    ASSUME NEW specs \in Seq(Nat), NEW used
    PROVE  \E done :
             /\ done[0] = Start
             /\ \A n \in 1 .. Len(specs) : done[n] = Given(done[n - 1], specs[n], specs, used)
             /\ Named(specs, used) = done[Len(specs)].names
<1> DEFINE L == Len(specs)
           iter == CHOOSE f : Folded(f, 1 .. L, specs, used)
           done == [n \in 0 .. L |-> iter[1 .. n]]
<1>1. L \in Nat /\ DOMAIN specs = 1 .. L  OBVIOUS
<1> HIDE DEF L
<1>2. Folded(iter, 1 .. L, specs, used)  BY <1>1, FoldExists
<1>3. Named(specs, used) = iter[1 .. L].names  BY <1>1, NamedFold
<1> HIDE DEF iter
<1>4. done[L] = iter[1 .. L]  BY <1>1
<1>5. done[0] = Start
  <2>1. 1 .. 0 = {} /\ {} \in SUBSET (1 .. L)  OBVIOUS
  <2>2. iter[{}] = Start  BY <1>2, <2>1 DEF Folded
  <2>3. QED  BY <1>1, <2>1, <2>2
<1>6. ASSUME NEW n \in 1 .. L
      PROVE  done[n] = Given(done[n - 1], specs[n], specs, used)
  <2>1. /\ n \in Nat /\ n \in 1 .. n /\ n - 1 \in Nat /\ (n - 1) + 1 = n
        /\ 1 .. n \in SUBSET (1 .. L)
    BY <1>1
  <2>2. Max(1 .. n) = n
    <3> DEFINE m == n - 1
    <3>1. m \in Nat /\ m + 1 = n  BY <2>1
    <3> HIDE DEF m
    <3>2. QED  BY <2>1, <3>1, MaxOfInterval
  <2>3. (1 .. n) \ {n} = 1 .. n - 1  BY <1>1
  <2>4. iter[1 .. n] = Given(iter[1 .. n - 1], specs[n], specs, used)
    <3>1. 1 .. n # {}  BY <2>1
    <3>2. QED  BY <1>2, <2>1, <2>2, <2>3, <3>1 DEF Folded
  <2>5. done[n] = iter[1 .. n] /\ done[n - 1] = iter[1 .. n - 1]  BY <1>1
  <2>6. QED  BY <2>4, <2>5
<1> HIDE DEF done
<1>7. QED  BY <1>3, <1>4, <1>5, <1>6 DEF L

(* A free number is in sight: at most MaxDataDisks are taken.                *)
LEMMA FreeNumber ==
    ASSUME NEW used \in SUBSET Nat, IsFiniteSet(used), Cardinality(used) <= MaxDataDisks,
           NEW next \in Nat, NEW len \in Nat
    PROVE  {m \in next .. next + len + MaxDataDisks : m \notin used} # {}
<1> DEFINE I == next .. next + len + MaxDataDisks
<1>1. ASSUME I \subseteq used PROVE FALSE
  <2>1. Cardinality(I) <= Cardinality(used)  BY <1>1, FS_Subset
  <2>2. Cardinality(I) = len + MaxDataDisks + 1
    <3>1. next \in Int /\ next + len + MaxDataDisks \in Int  BY DEF MaxDataDisks
    <3>2. Cardinality(I) = IF next > next + len + MaxDataDisks THEN 0
                           ELSE (next + len + MaxDataDisks) - next + 1
      BY <3>1, FS_Interval
    <3>3. QED  BY <3>2 DEF MaxDataDisks
  <2>3. Cardinality(used) \in Nat  BY FS_CardinalityType
  <2>4. QED  BY <2>1, <2>2, <2>3 DEF MaxDataDisks
<1>2. QED  BY <1>1

(* What the loop has given out after n turns: the names asked for, and for   *)
(* the others free numbers in order, none of them passed over.               *)
Handed(ns, next, n, specs, used) ==
    /\ ns \in Seq(Nat) /\ Len(ns) = n /\ next \in Nat \ {0}
    /\ \A i \in 1 .. n : specs[i] # Unnamed => ns[i] = specs[i]
    /\ \A i \in 1 .. n : specs[i] = Unnamed =>
         /\ ns[i] \in 1 .. next - 1 /\ ns[i] \notin used
         /\ \A j \in 1 .. i - 1 : specs[j] = Unnamed => ns[j] < ns[i]
         /\ \A m \in 1 .. ns[i] - 1 :
              m \in used \/ \E j \in 1 .. i - 1 : specs[j] = Unnamed /\ ns[j] = m
    /\ \A m \in 1 .. next - 1 :
         m \in used \/ \E j \in 1 .. n : specs[j] = Unnamed /\ ns[j] = m

(* One turn keeps that up.                                                   *)
LEMMA NamedTurn ==
    ASSUME NEW specs \in Seq(Nat), NEW used \in SUBSET Nat, IsFiniteSet(used),
           Cardinality(used) <= MaxDataDisks, NEW n \in 0 .. Len(specs) - 1,
           NEW d, Handed(d.names, d.next, n, specs, used), d = [names |-> d.names, next |-> d.next],
           NEW e, e = Given(d, specs[n + 1], specs, used)
    PROVE  Handed(e.names, e.next, n + 1, specs, used) /\ e = [names |-> e.names, next |-> e.next]
<1> DEFINE ns == d.names
           k == n + 1
           from == d.next
           len == Len(specs)
           s == specs[k]
           C == {m \in from .. from + len + MaxDataDisks : m \notin used}
<1>1. n \in Nat /\ len \in Nat /\ k \in 1 .. len /\ k \in Nat /\ k = n + 1
  OBVIOUS
<1>2. s \in Nat /\ ns \in Seq(Nat) /\ Len(ns) = n /\ from \in Nat \ {0}
  BY <1>1 DEF Handed
<1>3. e = IF s # Unnamed THEN [names |-> Append(ns, s), next |-> from]
          ELSE [names |-> Append(ns, Least(C)), next |-> Least(C) + 1]
  <2>1. s # Unnamed => e = [d EXCEPT !.names = Append(ns, s)]  BY DEF Given
  <2>2. s = Unnamed => e = [names |-> Append(ns, Least(C)), next |-> Least(C) + 1]
    BY DEF Given
  <2>3. d = [names |-> ns, next |-> from]  OBVIOUS
  <2> HIDE DEF ns, from, s, C, len, k
  <2>4. s # Unnamed => e = [names |-> Append(ns, s), next |-> from]  BY <2>1, <2>3
  <2>5. QED  BY <2>2, <2>4
<1>4. /\ \A i \in 1 .. n : specs[i] # Unnamed => ns[i] = specs[i]
      /\ \A i \in 1 .. n : specs[i] = Unnamed =>
           /\ ns[i] \in 1 .. from - 1 /\ ns[i] \notin used
           /\ \A j \in 1 .. i - 1 : specs[j] = Unnamed => ns[j] < ns[i]
           /\ \A m \in 1 .. ns[i] - 1 :
                m \in used \/ \E j \in 1 .. i - 1 : specs[j] = Unnamed /\ ns[j] = m
      /\ \A m \in 1 .. from - 1 :
           m \in used \/ \E j \in 1 .. n : specs[j] = Unnamed /\ ns[j] = m
  BY DEF Handed
<1>5. s = specs[k]  OBVIOUS
<1> HIDE DEF ns, k, from, len, s
<1>6. PICK x \in Nat, nx \in Nat \ {0} :
        /\ e = [names |-> Append(ns, x), next |-> nx] /\ from <= nx
        /\ s # Unnamed => x = s /\ nx = from
        /\ s = Unnamed => /\ nx = x + 1 /\ x >= from /\ x \notin used
                          /\ \A m \in from .. x - 1 : m \in used
  <2>1. CASE s # Unnamed
    <3>1. from <= from  BY <1>2
    <3>2. QED  BY <1>2, <1>3, <2>1, <3>1
  <2>2. CASE s = Unnamed
    <3>1. C \in SUBSET Nat  BY <1>1, <1>2 DEF MaxDataDisks
    <3>2. C # {}  BY <1>1, <1>2, FreeNumber
    <3>3. Least(C) \in C /\ \A m \in C : Least(C) <= m
      <4> HIDE DEF C
      <4>1. QED  BY <3>1, <3>2, LeastIsLeast
    <3>4. PICK x \in C : x = Least(C) /\ \A m \in C : x <= m  BY <3>3
    <3>5. x \in Nat /\ x >= from /\ x \notin used /\ x <= from + len + MaxDataDisks
      BY <1>1, <1>2, <3>4 DEF MaxDataDisks
    <3>6. ASSUME NEW m \in from .. x - 1 PROVE m \in used
      <4> HIDE DEF C
      <4>1. m \in Nat /\ m < x /\ from <= m  BY <1>2, <3>5
      <4>2. m <= from + len + MaxDataDisks
        BY <1>1, <1>2, <3>5, <4>1 DEF MaxDataDisks
      <4>3. ~(x <= m)  BY <3>5, <4>1
      <4>4. m \notin C  BY <3>4, <4>3
      <4>5. m \in from .. from + len + MaxDataDisks
        BY <1>1, <1>2, <4>1, <4>2 DEF MaxDataDisks
      <4>6. QED  BY <4>4, <4>5 DEF C
    <3>7. x + 1 \in Nat \ {0} /\ from <= x + 1  BY <1>2, <3>5
    <3> HIDE DEF C
    <3>8. QED  BY <1>3, <2>2, <3>4, <3>5, <3>6, <3>7
  <2>3. QED  BY <2>1, <2>2
<1> DEFINE ms == Append(ns, x)
<1>7. /\ ms \in Seq(Nat) /\ Len(ms) = k /\ ms[k] = x /\ \A i \in 1 .. n : ms[i] = ns[i]
  BY <1>1, <1>2, AppendProperties
<1> HIDE DEF ms
<1>8. ASSUME NEW i \in 1 .. k, specs[i] # Unnamed PROVE ms[i] = specs[i]
  <2>1. i \in 1 .. n \/ i = k  BY <1>1
  <2>2. QED  BY <1>4, <1>5, <1>6, <1>7, <1>8, <2>1
<1>9. ASSUME NEW i \in 1 .. k, specs[i] = Unnamed
      PROVE  /\ ms[i] \in 1 .. nx - 1 /\ ms[i] \notin used
             /\ \A j \in 1 .. i - 1 : specs[j] = Unnamed => ms[j] < ms[i]
             /\ \A m \in 1 .. ms[i] - 1 :
                  m \in used \/ \E j \in 1 .. i - 1 : specs[j] = Unnamed /\ ms[j] = m
  <2>1. CASE i # k
    <3>1. i \in 1 .. n /\ 1 .. i - 1 \subseteq 1 .. n  BY <1>1, <2>1
    <3>2. /\ ns[i] \in 1 .. from - 1 /\ ns[i] \notin used
          /\ \A j \in 1 .. i - 1 : specs[j] = Unnamed => ns[j] < ns[i]
          /\ \A m \in 1 .. ns[i] - 1 :
               m \in used \/ \E j \in 1 .. i - 1 : specs[j] = Unnamed /\ ns[j] = m
      BY <1>4, <1>9, <3>1
    <3>3. ns[i] \in 1 .. nx - 1
      <4>1. ns[i] \in 1 .. from - 1 /\ from \in Nat /\ nx \in Nat /\ from <= nx
        BY <1>2, <1>6, <3>2
      <4>2. QED  BY ONLY <4>1
    <3>4. ms[i] = ns[i] /\ \A j \in 1 .. i - 1 : ms[j] = ns[j]  BY <1>7, <3>1
    <3>5. QED  BY <3>2, <3>3, <3>4
  <2>2. CASE i = k
    <3>1. 1 .. i - 1 = 1 .. n  BY <1>1, <2>2
    <3>2. ms[i] = x /\ nx = x + 1 /\ x >= from /\ x \notin used  BY <1>5, <1>6, <1>7, <1>9, <2>2
    <3>3. x \in 1 .. nx - 1  BY <1>2, <3>2
    <3>4. ASSUME NEW j \in 1 .. n, specs[j] = Unnamed PROVE ms[j] < x
      <4>1. ns[j] \in 1 .. from - 1  BY <1>4, <3>4
      <4>2. ns[j] < x  BY <1>2, <3>2, <4>1
      <4>3. QED  BY <1>7, <4>2
    <3>5. ASSUME NEW m \in 1 .. x - 1
          PROVE  m \in used \/ \E j \in 1 .. n : specs[j] = Unnamed /\ ms[j] = m
      <4>1. m \in 1 .. from - 1 \/ m \in from .. x - 1  BY <1>2
      <4>2. CASE m \in 1 .. from - 1  BY <1>4, <1>7, <4>2
      <4>3. CASE m \in from .. x - 1  BY <1>5, <1>6, <1>9, <2>2, <4>3
      <4>4. QED  BY <4>1, <4>2, <4>3
    <3>6. QED  BY <3>1, <3>2, <3>3, <3>4, <3>5
  <2>3. QED  BY <2>1, <2>2
<1>10. ASSUME NEW m \in 1 .. nx - 1
       PROVE  m \in used \/ \E j \in 1 .. k : specs[j] = Unnamed /\ ms[j] = m
  <2>1. 1 .. n \subseteq 1 .. k /\ k \in 1 .. k  BY <1>1
  <2>2. \/ m \in 1 .. from - 1
        \/ s = Unnamed /\ m = x
        \/ s = Unnamed /\ m \in from .. x - 1
    <3>1. /\ from \in Nat \ {0} /\ x \in Nat
          /\ (s # Unnamed /\ nx = from) \/ (s = Unnamed /\ nx = x + 1)
      BY <1>2, <1>6
    <3>2. QED  BY ONLY <3>1, m \in 1 .. nx - 1
  <2>3. CASE m \in 1 .. from - 1  BY <1>4, <1>7, <2>1, <2>3
  <2>4. CASE s = Unnamed /\ m = x  BY <1>5, <1>7, <2>1, <2>4
  <2>5. CASE s = Unnamed /\ m \in from .. x - 1  BY <1>6, <2>5
  <2>6. QED  BY <2>2, <2>3, <2>4, <2>5
<1>11. e.names = ms /\ e.next = nx /\ e = [names |-> ms, next |-> nx]  BY <1>6 DEF ms
<1>12. Handed(ms, nx, k, specs, used)
  BY <1>6, <1>7, <1>8, <1>9, <1>10 DEF Handed
<1>13. QED  BY <1>11, <1>12 DEF k

(* After the last turn.                                                      *)
LEMMA NamedGives ==
    ASSUME NEW specs \in Seq(Nat), NEW used \in SUBSET Nat, IsFiniteSet(used),
           Cardinality(used) <= MaxDataDisks
    PROVE  \E next : Handed(Named(specs, used), next, Len(specs), specs, used)
<1> DEFINE L == Len(specs)
<1>1. L \in Nat  OBVIOUS
<1>2. PICK done :
        /\ done[0] = Start
        /\ \A n \in 1 .. L : done[n] = Given(done[n - 1], specs[n], specs, used)
        /\ Named(specs, used) = done[L].names
  BY NamedSteps
<1> HIDE DEF L
<1> DEFINE P(n) == /\ Handed(done[n].names, done[n].next, n, specs, used)
                   /\ done[n] = [names |-> done[n].names, next |-> done[n].next]
           S == {n \in Nat : n <= L => P(n)}
<1>3. 0 \in S
  <2>1. Start.names = << >> /\ Start.next = 1 /\ << >> \in Seq(Nat) /\ Len(<< >>) = 0
    BY DEF Start
  <2>2. Handed(Start.names, Start.next, 0, specs, used)  BY <2>1 DEF Handed
  <2>3. Start = [names |-> Start.names, next |-> Start.next]  BY DEF Start
  <2>4. QED  BY <1>2, <2>2, <2>3
<1>4. ASSUME NEW n \in S PROVE n + 1 \in S
  <2>1. n \in Nat /\ n + 1 \in Nat  OBVIOUS
  <2>2. ASSUME n + 1 <= L PROVE P(n + 1)
    <3>1. P(n) /\ n \in 0 .. L - 1 /\ n + 1 \in 1 .. L /\ (n + 1) - 1 = n
      BY <1>1, <2>1, <2>2
    <3>2. done[n + 1] = Given(done[n], specs[n + 1], specs, used)  BY <1>2, <3>1
    <3> DEFINE d == done[n]
               e == done[n + 1]
    <3>3. /\ Handed(d.names, d.next, n, specs, used) /\ d = [names |-> d.names, next |-> d.next]
          /\ e = Given(d, specs[n + 1], specs, used)
      BY <3>1, <3>2
    <3> HIDE DEF d, e
    <3>4. Handed(e.names, e.next, n + 1, specs, used) /\ e = [names |-> e.names, next |-> e.next]
      <4>1. n \in 0 .. Len(specs) - 1  BY <3>1 DEF L
      <4>2. QED  BY <3>3, <4>1, NamedTurn
    <3>5. QED  BY <3>4 DEF e
  <2>3. QED  BY <2>1, <2>2
<1>5. S = Nat
  <2> HIDE DEF S
  <2>1. S \subseteq Nat  BY DEF S
  <2>2. QED  BY <1>3, <1>4, <2>1, Induction
<1>6. P(L)
  <2>1. L \in S /\ L <= L  BY <1>1, <1>5
  <2> HIDE DEF P
  <2>2. QED  BY <2>1
<1>7. QED  BY <1>2, <1>6 DEF L

(* A list has no more members than its length.                               *)
LEMMA RangeBound ==
    ASSUME NEW S, NEW s \in Seq(S)
    PROVE  IsFiniteSet(Range(s)) /\ Cardinality(Range(s)) <= Len(s)
<1>1. Len(s) \in Nat /\ s \in [1 .. Len(s) -> S]  BY LenProperties
<1>2. s \in Surjection(1 .. Len(s), Range(s))  BY <1>1 DEF Surjection, Range
<1>3. IsFiniteSet(1 .. Len(s)) /\ Cardinality(1 .. Len(s)) = Len(s)
  <2>1. 1 \in Int /\ Len(s) \in Int  BY <1>1
  <2>2. /\ IsFiniteSet(1 .. Len(s))
        /\ Cardinality(1 .. Len(s)) = IF 1 > Len(s) THEN 0 ELSE Len(s) - 1 + 1
    BY <2>1, FS_Interval
  <2>3. QED  BY <1>1, <2>2
<1>4. QED  BY <1>2, <1>3, FS_Surjection

(* Two sets together have no more members than both.                         *)
LEMMA UnionBound ==
    ASSUME NEW S, IsFiniteSet(S), NEW T, IsFiniteSet(T), NEW a \in Nat, NEW b \in Nat,
           Cardinality(S) <= a, Cardinality(T) <= b
    PROVE  IsFiniteSet(S \cup T) /\ Cardinality(S \cup T) <= a + b
<1>1. /\ IsFiniteSet(S \cup T)
      /\ Cardinality(S \cup T) = Cardinality(S) + Cardinality(T) - Cardinality(S \cap T)
  BY FS_Union
<1>2. Cardinality(S) \in Nat /\ Cardinality(T) \in Nat  BY FS_CardinalityType
<1>3. IsFiniteSet(S \cap T)  BY FS_Subset
<1>4. Cardinality(S \cap T) \in Nat  BY <1>3, FS_CardinalityType
<1>5. QED  BY <1>1, <1>2, <1>4

(* What parseDataDisks promises, for every command line and every list of    *)
(* names the VM copies.                                                      *)
THEOREM ParseGives ==
    ASSUME NEW specs \in Seq(Nat), NEW reserved \in Seq(Nat \ {Unnamed}),
           IsInjective(reserved), ParseDataDisks(specs, reserved) # Refused
    PROVE  /\ ParseDataDisks(specs, reserved) \in Seq(Nat \ {Unnamed})
           /\ AsAsked(ParseDataDisks(specs, reserved), specs, reserved)
<1> DEFINE used == Asked(specs) \cup Range(reserved)
           ns == ParseDataDisks(specs, reserved)
           r == Len(reserved)
           l == Len(specs)
           auto == {i \in DOMAIN specs : specs[i] = Unnamed}
<1>1. /\ r \in Nat /\ l \in Nat /\ DOMAIN specs = 1 .. l /\ DOMAIN reserved = 1 .. r
      /\ \A i \in 1 .. l : specs[i] \in Nat
      /\ \A i \in 1 .. r : reserved[i] \in Nat \ {Unnamed}
  OBVIOUS
<1>2. ~Duplicated(specs, reserved) /\ r + l <= MaxDataDisks /\ ns = Named(specs, used)
  <2>1. /\ ~(Duplicated(specs, reserved) \/ r + l > MaxDataDisks)
        /\ ns = Named(specs, used)
    BY Zenon DEF ParseDataDisks
  <2> HIDE DEF r, l, ns, used
  <2>2. r + l <= MaxDataDisks  BY <1>1, <2>1 DEF MaxDataDisks
  <2>3. QED  BY <2>1, <2>2
<1>3. /\ Range(reserved) \in SUBSET Nat /\ IsFiniteSet(Range(reserved))
      /\ Cardinality(Range(reserved)) <= r
  BY RangeOfSeq, RangeBound
<1>4. /\ Asked(specs) \in SUBSET Nat /\ IsFiniteSet(Asked(specs))
      /\ Cardinality(Asked(specs)) <= l
  <2>1. /\ Range(specs) \in SUBSET Nat /\ IsFiniteSet(Range(specs))
        /\ Cardinality(Range(specs)) <= l
    BY RangeOfSeq, RangeBound
  <2>2. Asked(specs) \in SUBSET Range(specs)  BY DEF Asked
  <2>3. IsFiniteSet(Asked(specs)) /\ Cardinality(Asked(specs)) <= Cardinality(Range(specs))
    BY <2>1, <2>2, FS_Subset
  <2>4. Cardinality(Asked(specs)) \in Nat /\ Cardinality(Range(specs)) \in Nat
    BY <2>1, <2>3, FS_CardinalityType
  <2>5. Cardinality(Asked(specs)) <= l
    <3> HIDE DEF l
    <3>1. QED  BY <1>1, <2>1, <2>3, <2>4
  <2>6. QED  BY <2>1, <2>2, <2>3, <2>5
<1>5. IsFiniteSet(used) /\ Cardinality(used) <= MaxDataDisks /\ used \in SUBSET Nat
  <2>1. IsFiniteSet(used) /\ Cardinality(used) <= l + r  BY <1>1, <1>3, <1>4, UnionBound
  <2>2. Cardinality(used) \in Nat  BY <2>1, FS_CardinalityType
  <2>3. Cardinality(used) <= MaxDataDisks
    <3> HIDE DEF used, l, r
    <3>1. QED  BY <1>1, <1>2, <2>1, <2>2 DEF MaxDataDisks
  <2>4. QED  BY <1>3, <1>4, <2>1, <2>3
<1>6. /\ \A x : x \in Asked(specs) <=> x # Unnamed /\ \E i \in 1 .. l : x = specs[i]
      /\ \A x : x \in Range(reserved) <=> \E i \in 1 .. r : x = reserved[i]
      /\ Asked(specs) \cap Range(reserved) = {}
      /\ \A i, j \in 1 .. l : i < j /\ specs[i] = specs[j] => specs[i] = Unnamed
      /\ \A i, j \in 1 .. r : reserved[i] = reserved[j] => i = j
  BY <1>1, <1>2 DEF Asked, Range, Duplicated, IsInjective
<1>7. PICK next : Handed(ns, next, l, specs, used)  BY <1>2, <1>5, NamedGives
<1> HIDE DEF ns, l, r
<1>8. /\ ns \in Seq(Nat) /\ Len(ns) = l /\ next \in Nat \ {0}
      /\ \A i \in 1 .. l : specs[i] # Unnamed => ns[i] = specs[i]
      /\ \A i \in 1 .. l : specs[i] = Unnamed =>
           /\ ns[i] \in 1 .. next - 1 /\ ns[i] \notin used
           /\ \A j \in 1 .. i - 1 : specs[j] = Unnamed => ns[j] < ns[i]
           /\ \A m \in 1 .. ns[i] - 1 :
                m \in used \/ \E j \in 1 .. i - 1 : specs[j] = Unnamed /\ ns[j] = m
  BY <1>7 DEF Handed
<1>9. DOMAIN ns = 1 .. l /\ \A i \in 1 .. l : ns[i] \in Nat  BY <1>8
<1>10. \A i \in 1 .. l : ns[i] \in Nat \ {Unnamed} /\ ns[i] \notin Range(reserved)
  <2> SUFFICES ASSUME NEW i \in 1 .. l
               PROVE  ns[i] # Unnamed /\ ns[i] \notin Range(reserved)
    BY <1>9
  <2>1. CASE specs[i] # Unnamed
    <3>1. ns[i] = specs[i] /\ ns[i] \in Asked(specs)  BY <1>6, <1>8, <2>1
    <3>2. QED  BY <1>6, <2>1, <3>1
  <2>2. CASE specs[i] = Unnamed
    <3>1. ns[i] \in 1 .. next - 1 /\ ns[i] \notin used  BY <1>8, <2>2
    <3>2. QED  BY <3>1 DEF Unnamed
  <2>3. QED  BY <2>1, <2>2
<1>11. \A i, j \in 1 .. l : i < j => ns[i] # ns[j]
  <2> SUFFICES ASSUME NEW i \in 1 .. l, NEW j \in 1 .. l, i < j PROVE ns[i] # ns[j]
    OBVIOUS
  <2>1. CASE specs[i] # Unnamed /\ specs[j] # Unnamed  BY <1>6, <1>8, <2>1
  <2>2. CASE specs[i] # Unnamed /\ specs[j] = Unnamed
    <3>1. ns[i] \in Asked(specs)  BY <1>6, <1>8, <2>2
    <3>2. ns[j] \notin used  BY <1>8, <2>2
    <3>3. QED  BY <3>1, <3>2
  <2>3. CASE specs[i] = Unnamed /\ specs[j] # Unnamed
    <3>1. ns[j] \in Asked(specs)  BY <1>6, <1>8, <2>3
    <3>2. ns[i] \notin used  BY <1>8, <2>3
    <3>3. QED  BY <3>1, <3>2
  <2>4. CASE specs[i] = Unnamed /\ specs[j] = Unnamed
    <3>1. i \in 1 .. j - 1  BY <1>1
    <3>2. ns[i] < ns[j]  BY <1>8, <2>4, <3>1
    <3>3. QED  BY <1>9, <3>2
  <2>5. QED  BY <2>1, <2>2, <2>3, <2>4
<1>12. ns \in Seq(Nat \ {Unnamed})
  <2>1. ns \in Seq(Range(ns))  BY <1>8, SeqOfRange
  <2>2. Range(ns) \subseteq Nat \ {Unnamed}  BY <1>9, <1>10 DEF Range
  <2>3. QED  BY <2>1, <2>2, SeqMonotonic
<1>13. ASSUME NEW i \in auto
       PROVE  ns[i] = Least((1 .. 2 * MaxDataDisks)
                            \ (used \cup {ns[j] : j \in {k \in auto : k < i}}))
  <2> DEFINE earlier == {ns[j] : j \in {k \in auto : k < i}}
             T == (1 .. 2 * MaxDataDisks) \ (used \cup earlier)
             x == ns[i]
  <2>1. i \in 1 .. l /\ specs[i] = Unnamed  BY <1>1
  <2>2. \A m : m \in earlier <=> \E j \in 1 .. i - 1 : specs[j] = Unnamed /\ ns[j] = m
    <3>1. \A j : j \in auto /\ j < i <=> j \in 1 .. i - 1 /\ specs[j] = Unnamed
      BY <1>1, <2>1
    <3> HIDE DEF auto
    <3>2. QED  BY <3>1
  <2>3. x \in Nat /\ x >= 1 /\ x \notin used  BY <1>8, <2>1
  <2>4. x \notin earlier
    <3>1. \A j \in 1 .. i - 1 : specs[j] = Unnamed => ns[j] < x  BY <1>8, <2>1
    <3> HIDE DEF earlier
    <3>2. \A j \in 1 .. i - 1 : ~(specs[j] = Unnamed /\ ns[j] = x)  BY <2>3, <3>1
    <3>3. QED  BY <2>2, <3>2
  <2>5. \A m \in 1 .. x - 1 : m \in used \cup earlier  BY <1>8, <2>1, <2>2
  <2>6. x <= 2 * MaxDataDisks
    <3> DEFINE U == Range(reserved) \cup Range(ns)
    <3>1. used \cup earlier \subseteq U
      <4>1. Asked(specs) \subseteq Range(ns)
        <5>1. ASSUME NEW m \in Asked(specs) PROVE m \in Range(ns)
          <6>1. PICK k \in 1 .. l : m = specs[k] /\ m # Unnamed  BY <1>6
          <6>2. ns[k] = m  BY <1>8, <6>1
          <6>3. QED  BY <1>9, <6>2 DEF Range
        <5>2. QED  BY <5>1
      <4>2. earlier \subseteq Range(ns)  BY <1>1, <1>9, <2>1, <2>2 DEF Range
      <4>3. QED  BY <4>1, <4>2
    <3>2. IsFiniteSet(U) /\ Cardinality(U) <= r + l
      <4>1. IsFiniteSet(Range(ns)) /\ Cardinality(Range(ns)) <= l  BY <1>8, RangeBound
      <4>2. QED  BY <1>1, <1>3, <4>1, UnionBound
    <3>3. ASSUME 1 .. 2 * MaxDataDisks \subseteq U PROVE FALSE
      <4>1. 1 .. 2 * MaxDataDisks \in SUBSET U  BY <3>3
      <4>2. Cardinality(1 .. 2 * MaxDataDisks) <= Cardinality(U)
        <5> HIDE DEF U
        <5>1. QED  BY <3>2, <4>1, FS_Subset
      <4>3. Cardinality(1 .. 2 * MaxDataDisks) = 8
        <5>1. 1 .. 2 * MaxDataDisks = 1 .. 8  BY DEF MaxDataDisks
        <5>2. Cardinality(1 .. 8) = IF 1 > 8 THEN 0 ELSE 8 - 1 + 1
          <6>1. 1 \in Int /\ 8 \in Int  OBVIOUS
          <6>2. QED  BY ONLY <6>1, FS_Interval
        <5>3. Cardinality(1 .. 8) = 8  BY <5>2
        <5>4. QED  BY ONLY <5>1, <5>3
      <4>4. Cardinality(U) \in Nat  BY <3>2, FS_CardinalityType
      <4> HIDE DEF U
      <4>5. QED  BY <1>1, <1>2, <3>2, <4>2, <4>3, <4>4 DEF MaxDataDisks
    <3>4. ASSUME x > 2 * MaxDataDisks PROVE FALSE
      <4>1. \A m \in 1 .. 2 * MaxDataDisks : m \in 1 .. x - 1
        <5> HIDE DEF x
        <5>1. QED  BY <2>3, <3>4 DEF MaxDataDisks
      <4>2. QED  BY <2>5, <3>1, <3>3, <4>1
    <3> HIDE DEF x
    <3>5. QED  BY <2>3, <3>4 DEF MaxDataDisks
  <2>7. T \in SUBSET Nat /\ x \in T
    <3> HIDE DEF earlier, used, x
    <3>1. QED  BY <2>3, <2>4, <2>6 DEF MaxDataDisks
  <2>8. Least(T) \in T /\ Least(T) <= x
    <3> HIDE DEF T, x
    <3>1. QED  BY <2>7, LeastIsLeast
  <2>9. Least(T) \notin 1 .. x - 1
    <3> DEFINE y == Least(T)
    <3>1. y \notin used \cup earlier  BY <2>8
    <3> HIDE DEF y, x, earlier, used
    <3>2. QED  BY <2>5, <3>1 DEF y
  <2>10. Least(T) \in Nat /\ Least(T) >= 1
    <3> DEFINE y == Least(T)
    <3>1. y \in 1 .. 2 * MaxDataDisks  BY <2>8
    <3> HIDE DEF y
    <3>2. y \in Nat /\ y >= 1  BY <3>1 DEF MaxDataDisks
    <3>3. QED  BY <3>2 DEF y
  <2>11. x = Least(T)
    <3> DEFINE y == Least(T)
    <3>1. y \in Nat /\ y >= 1 /\ y <= x /\ y \notin 1 .. x - 1  BY <2>8, <2>9, <2>10
    <3> HIDE DEF y, x
    <3>2. y = x  BY <2>3, <3>1
    <3>3. QED  BY <3>2 DEF y
  <2>12. QED  BY <2>11
<1>14. IsInjective(reserved \o ns)
  <2>0. r = Len(reserved) /\ l = Len(ns)  BY <1>8 DEF r
  <2>1. /\ Len(reserved \o ns) = r + l
        /\ \A i \in 1 .. r + l : (reserved \o ns)[i] = IF i <= r THEN reserved[i] ELSE ns[i - r]
        /\ reserved \o ns \in Seq(Nat \ {Unnamed})
    BY ONLY <1>12, <2>0, reserved \in Seq(Nat \ {Unnamed}), ConcatProperties
  <2>2. DOMAIN (reserved \o ns) = 1 .. r + l  BY <2>1
  <2> DEFINE q == reserved \o ns
  <2> HIDE DEF q
  <2>3. ASSUME NEW a \in 1 .. r + l, NEW b \in 1 .. r + l, a < b PROVE q[a] # q[b]
    <3>1. CASE b <= r
      <4>1. q[a] = reserved[a] /\ q[b] = reserved[b] /\ a \in 1 .. r /\ b \in 1 .. r
        BY <1>1, <2>1, <2>3, <3>1 DEF q
      <4>2. QED  BY <1>1, <1>6, <2>3, <4>1
    <3>2. CASE a <= r /\ b > r
      <4>0. a \in 1 .. r /\ ~(b <= r) /\ b - r \in 1 .. l  BY <1>1, <3>2
      <4>1. q[a] = reserved[a] /\ q[b] = ns[b - r]  BY <2>1, <3>2, <4>0 DEF q
      <4>2. q[a] \in Range(reserved)  BY <1>6, <4>0, <4>1
      <4>3. QED  BY <1>10, <4>0, <4>1, <4>2
    <3>3. CASE a > r
      <4>0. /\ ~(a <= r) /\ ~(b <= r) /\ a - r \in 1 .. l /\ b - r \in 1 .. l
            /\ a - r < b - r
        BY <1>1, <2>3, <3>3
      <4>1. q[a] = ns[a - r] /\ q[b] = ns[b - r]  BY <2>1, <4>0 DEF q
      <4>2. QED  BY <1>11, <4>0, <4>1
    <3>4. QED  BY <1>1, <2>3, <3>1, <3>2, <3>3
  <2>4. \A a, b \in 1 .. r + l : q[a] = q[b] => a = b
    <3> SUFFICES ASSUME NEW a \in 1 .. r + l, NEW b \in 1 .. r + l, a # b PROVE q[a] # q[b]
      OBVIOUS
    <3>1. a < b \/ b < a  BY <1>1
    <3>2. QED  BY <2>3, <3>1
  <2>5. QED  BY <2>2, <2>4 DEF IsInjective, q
<1>15. Len(ns) = Len(specs) /\ Len(ns) + Len(reserved) <= MaxDataDisks
  BY <1>1, <1>2, <1>8 DEF l, r, MaxDataDisks
<1>16. \A i \in DOMAIN specs \ auto : ns[i] = specs[i]  BY <1>1, <1>8
<1>17. AsAsked(ns, specs, reserved)
  BY Zenon, <1>13, <1>14, <1>15, <1>16 DEF AsAsked
<1>18. QED  BY <1>12, <1>17 DEF ns

-----------------------------------------------------------------------------
(* The data disks.                                                           *)

(* A file per name, each read or never written.                              *)
DataShape ==
    \A v \in VM : DOMAIN data[v] \subseteq Nat \ {Unnamed} /\ Range(data[v]) \subseteq BOOLEAN

(* The disks of a record are the files of its VM, and a guest had them all.  *)
Filled(v) ==
    /\ rec[v].disks \in Seq(Nat \ {Unnamed}) /\ IsInjective(rec[v].disks)
    /\ DOMAIN data[v] = Range(rec[v].disks)
    /\ \A n \in Range(rec[v].disks) : data[v][n] = TRUE

(* A job has the names it was asked for, and copies before it adds.          *)
Laid ==
    /\ job.names \in Seq(Nat \ {Unnamed})
    /\ AsAsked(job.names, job.specs, Reserved(job.src))
    /\ job.pc = "disks" =>
        /\ DOMAIN data[job.vm] = Range(Reserved(job.src))
        /\ \A n \in Range(Reserved(job.src)) : data[job.vm][n] = TRUE
    /\ job.pc \in {"opencore", "save"} =>
        /\ DOMAIN data[job.vm] = Range(Reserved(job.src)) \cup Range(job.names)
        /\ \A n \in Range(Reserved(job.src)) : data[job.vm][n] = TRUE

DataInv == DataShape /\ (\A v \in Known : Filled(v)) /\ (job # Idle => Laid)

(* No disks.                                                                 *)
LEMMA EmptyList ==
    /\ << >> \in Seq(Nat \ {Unnamed}) /\ IsInjective(<< >>)
    /\ DOMAIN << >> = {} /\ Range(<< >>) = {}
<1>1. << >> \in Seq(Nat \ {Unnamed}) /\ Len(<< >>) = 0  BY EmptySeq
<1>2. DOMAIN << >> = {}
  <2>1. DOMAIN << >> = 1 .. Len(<< >>)  BY <1>1
  <2>2. QED  BY <1>1, <2>1
<1>3. QED  BY <1>1, <1>2 DEF IsInjective, Range

(* Names given out are none of those copied.                                 *)
LEMMA NamesApart ==
    ASSUME NEW reserved \in Seq(Nat \ {Unnamed}), NEW names \in Seq(Nat \ {Unnamed}),
           IsInjective(reserved \o names)
    PROVE  Range(reserved) \cap Range(names) = {}
<1> DEFINE q == reserved \o names
           r == Len(reserved)
           l == Len(names)
<1>1. /\ q \in Seq(Nat \ {Unnamed}) /\ Len(q) = r + l
      /\ \A i \in 1 .. r + l : q[i] = IF i <= r THEN reserved[i] ELSE names[i - r]
  BY ConcatProperties
<1>2. /\ r \in Nat /\ l \in Nat /\ DOMAIN reserved = 1 .. r /\ DOMAIN names = 1 .. l
      /\ DOMAIN q = 1 .. r + l
  BY <1>1
<1>3. \A a, b \in 1 .. r + l : q[a] = q[b] => a = b  BY <1>2 DEF IsInjective
<1> HIDE DEF q, r, l
<1>4. ASSUME NEW i \in 1 .. r, NEW j \in 1 .. l PROVE reserved[i] # names[j]
  <2> DEFINE b == j + r
  <2>1. /\ i \in 1 .. r + l /\ b \in 1 .. r + l /\ i <= r /\ ~(b <= r) /\ b - r = j /\ i # b
    BY <1>2
  <2> HIDE DEF b
  <2>2. q[i] = reserved[i] /\ q[b] = names[j]  BY <1>1, <2>1
  <2>3. QED  BY <1>3, <2>1, <2>2
<1>5. QED  BY <1>2, <1>4 DEF Range

(* The one VM of an older build has the disk data1.                          *)
LEMMA DataInit == Init => DataInv
<1> SUFFICES ASSUME Init PROVE DataInv  OBVIOUS
<1>1. PICK old \in VM \cup {None}, i \in Ident :
        /\ rec = [v \in VM |-> IF v # old THEN None ELSE
                    [image |-> Ref, digest |-> None, size |-> 0, disks |-> <<1>>,
                     oc |-> v, ocBase |-> None, smbios |-> i]]
        /\ data = [v \in VM |-> IF v = old THEN [n \in {1} |-> TRUE] ELSE << >>]
        /\ job = Idle
  BY DEF Init
<1>2. \A v \in VM : data[v] = IF v = old THEN [n \in {1} |-> TRUE] ELSE << >>  BY <1>1
<1>3. \A v \in Known : v = old /\ v \in VM /\ rec[v].disks = <<1>>  BY <1>1 DEF Known
<1>4. /\ <<1>> \in Seq(Nat \ {Unnamed}) /\ IsInjective(<<1>>) /\ Range(<<1>>) = {1}
  <2>1. <<1>> \in Seq(Nat \ {Unnamed})  BY DEF Unnamed
  <2>2. DOMAIN <<1>> = {1}  OBVIOUS
  <2>3. QED  BY <2>1, <2>2 DEF IsInjective, Range
<1>5. DataShape
  <2>1. 1 \in Nat \ {Unnamed}  BY DEF Unnamed
  <2> SUFFICES ASSUME NEW v \in VM
               PROVE  DOMAIN data[v] \subseteq Nat \ {Unnamed} /\ Range(data[v]) \subseteq BOOLEAN
    BY DEF DataShape
  <2>2. CASE v = old  BY <1>2, <2>1, <2>2 DEF Range
  <2>3. CASE v # old  BY <1>2, <2>3, EmptyList
  <2>4. QED  BY <2>2, <2>3
<1>6. \A v \in Known : Filled(v)  BY <1>2, <1>3, <1>4 DEF Filled
<1>7. QED  BY <1>1, <1>5, <1>6 DEF DataInv

(* A step that touches neither records nor data disks.                       *)
LEMMA DataSame ==
    ASSUME DataInv, UNCHANGED <<rec, data>>,
           job' # Idle => /\ job # Idle /\ job'.names = job.names /\ job'.specs = job.specs
                          /\ job'.src = job.src /\ job'.vm = job.vm
                          /\ job'.pc = "disks" => job.pc = "disks"
                          /\ job'.pc \in {"opencore", "save"} => job.pc \in {"opencore", "save"}
    PROVE  DataInv'
<1>1. DataShape' /\ \A v \in Known' : Filled(v)'
  BY DEF DataInv, DataShape, Filled, Known
<1>2. ASSUME job' # Idle PROVE Laid'
  <2>1. Laid  BY <1>2 DEF DataInv
  <2>2. Reserved(job.src)' = Reserved(job.src)  BY <1>2 DEF Reserved
  <2>3. QED  BY <1>2, <2>1, <2>2 DEF Laid
<1>3. QED  BY <1>1, <1>2 DEF DataInv

(* Only the files of one VM change, which has no record afterwards.          *)
LEMMA DataOthers ==
    ASSUME LayoutInv, DataInv, NEW v \in VM, NEW d,
           data' = [data EXCEPT ![v] = d],
           DOMAIN d \subseteq Nat \ {Unnamed}, Range(d) \subseteq BOOLEAN,
           rec'[v] = None, \A w \in VM \ {v} : rec'[w] = rec[w]
    PROVE  /\ DataShape' /\ \A w \in Known' : Filled(w)'
           /\ data'[v] = d /\ \A w \in VM \ {v} : data'[w] = data[w]
<1>1. data'[v] = d /\ \A w \in VM \ {v} : data'[w] = data[w]
  BY DEF LayoutInv, Shapes, FileTypes
<1>2. DataShape'  BY <1>1 DEF DataInv, DataShape
<1>3. \A w \in Known' : w \in VM \ {v} /\ w \in Known  BY DEF Known
<1>4. \A w \in Known' : Filled(w)'
  <2> SUFFICES ASSUME NEW w \in Known' PROVE Filled(w)'  OBVIOUS
  <2>1. Filled(w) /\ rec'[w] = rec[w] /\ data'[w] = data[w]  BY <1>1, <1>3 DEF DataInv
  <2>2. QED  BY <2>1 DEF Filled
<1>5. QED  BY <1>1, <1>2, <1>4

(* A create or clone begins with the names it asks for.                      *)
LEMMA BeginData ==
    ASSUME LayoutInv, DataInv, NEW v \in VM, NEW src, NEW image, NEW specs \in SpecLists,
           NEW storage, NEW resized, NEW smbios,
           Begin(v, src, image, specs, storage, resized, smbios), src # None => src \in Known
    PROVE  DataInv'
<1> DEFINE names == ParseDataDisks(specs, Reserved(src))
<1>1. /\ rec[v] = None /\ UNCHANGED rec /\ names # Refused
      /\ data' = [data EXCEPT ![v] = << >>]
      /\ job' = [pc |-> "resolve", vm |-> v, src |-> src, image |-> image, specs |-> specs,
                 names |-> names, storage |-> storage, resized |-> resized, smbios |-> smbios,
                 digest |-> None, base |-> None, oc |-> None, ocBase |-> None, id |-> None]
  BY DEF Begin, Cleared
<1>2. specs \in Seq(Nat)  BY SpecAssumption
<1>3. Reserved(src) \in Seq(Nat \ {Unnamed}) /\ IsInjective(Reserved(src))
  BY EmptyList DEF Reserved, DataInv, Filled
<1>4. names \in Seq(Nat \ {Unnamed}) /\ AsAsked(names, specs, Reserved(src))
  BY <1>1, <1>2, <1>3, ParseGives
<1>5. DataShape' /\ \A w \in Known' : Filled(w)'
  BY <1>1, DataOthers, EmptyList
<1> HIDE DEF names
<1>6. /\ job'.pc = "resolve" /\ job'.names = names /\ job'.specs = specs /\ job'.src = src
  BY <1>1
<1>7. Reserved(job.src)' = Reserved(src)  BY <1>1, <1>6 DEF Reserved
<1>8. Laid'  BY <1>4, <1>6, <1>7 DEF Laid
<1>9. QED  BY <1>5, <1>8 DEF DataInv

(* The facts of a job under way that the data disks need.                    *)
LEMMA JobData ==
    ASSUME LayoutInv, DataInv, job # Idle
    PROVE  /\ Laid /\ job.vm \in VM /\ rec[job.vm] = None /\ job \in Jobs(job.names, job.specs)
           /\ job.src # None => job.src \in Known /\ Filled(job.src)
           /\ Reserved(job.src) \in Seq(Nat \ {Unnamed})
           /\ Range(Reserved(job.src)) \subseteq Nat \ {Unnamed}
           /\ Range(job.names) \subseteq Nat \ {Unnamed}
           /\ Range(Reserved(job.src)) \cap Range(job.names) = {}
           /\ IsInjective(Reserved(job.src) \o job.names)
<1>1. /\ Laid /\ job.vm \in VM /\ rec[job.vm] = None /\ job \in Jobs(job.names, job.specs)
      /\ job.src # None => job.src \in Known
  BY DEF LayoutInv, DataInv, Underway, Jobs, Planned, Known
<1>2. job.src # None => Filled(job.src)  BY <1>1 DEF DataInv
<1>3. Reserved(job.src) \in Seq(Nat \ {Unnamed})
  BY <1>2, EmptyList DEF Reserved, Filled
<1>4. job.names \in Seq(Nat \ {Unnamed}) /\ IsInjective(Reserved(job.src) \o job.names)
  BY <1>1 DEF Laid, AsAsked
<1>5. Range(Reserved(job.src)) \cap Range(job.names) = {}  BY <1>3, <1>4, NamesApart
<1>6. /\ Range(Reserved(job.src)) \subseteq Nat \ {Unnamed}
      /\ Range(job.names) \subseteq Nat \ {Unnamed}
  BY <1>3, <1>4, RangeOfSeq
<1>7. QED  BY <1>1, <1>2, <1>3, <1>4, <1>5, <1>6

(* copyDataDisks: what the source's guest wrote.                             *)
LEMMA CopyDisksData == ASSUME LayoutInv, DataInv, CopyDisks PROVE DataInv'
<1> DEFINE reserved == Range(Reserved(job.src))
           d == [n \in reserved |-> data[job.src][n]]
<1>1. /\ job # Idle /\ data' = [data EXCEPT ![job.vm] = d] /\ UNCHANGED rec
      /\ job' = [job EXCEPT !.pc = "disks"]
  BY DEF CopyDisks, At, Idle, Goto
<1>2. \A n \in reserved : data[job.src][n] = TRUE
  BY <1>1, JobData, EmptyList DEF Reserved, Filled
<1>3. DOMAIN d = reserved /\ \A n \in reserved : d[n] = TRUE  BY <1>2
<1>4. DOMAIN d \subseteq Nat \ {Unnamed} /\ Range(d) \subseteq BOOLEAN
  BY <1>1, <1>3, JobData DEF Range
<1> HIDE DEF d
<1>5. /\ job.vm \in VM /\ rec'[job.vm] = None /\ \A w \in VM \ {job.vm} : rec'[w] = rec[w]
  BY <1>1, JobData
<1>6. /\ DataShape' /\ \A w \in Known' : Filled(w)'
      /\ data'[job.vm] = d
  BY <1>1, <1>4, <1>5, DataOthers
<1>7. /\ job'.pc = "disks" /\ job'.names = job.names /\ job'.specs = job.specs
      /\ job'.src = job.src /\ job'.vm = job.vm
  BY <1>1, JobData DEF Jobs
<1>8. Reserved(job.src)' = Reserved(job.src)  BY <1>1, <1>7 DEF Reserved
<1>9. Laid'  BY <1>1, <1>3, <1>6, <1>7, <1>8, JobData DEF Laid
<1>10. QED  BY <1>6, <1>9 DEF DataInv

(* createDataDisks: empty files beside the copies.                           *)
LEMMA CreateDisksData == ASSUME LayoutInv, DataInv, CreateDisks PROVE DataInv'
<1> DEFINE reserved == Range(Reserved(job.src))
           added == Range(job.names)
           old == data[job.vm]
           d == [n \in DOMAIN old \cup added |-> n \notin added /\ old[n]]
<1>1. /\ job # Idle /\ job.pc = "disks" /\ UNCHANGED rec
      /\ job' = [job EXCEPT !.pc = "opencore"]
  BY DEF CreateDisks, At, Idle, Goto
<1>2. /\ job.vm \in VM /\ rec'[job.vm] = None /\ \A w \in VM \ {job.vm} : rec'[w] = rec[w]
  BY <1>1, JobData
<1>3. data' = [data EXCEPT ![job.vm] = d]  BY DEF CreateDisks
<1>4. DOMAIN old = reserved /\ \A n \in reserved : old[n] = TRUE
  BY <1>1, JobData DEF Laid
<1>5. /\ reserved \subseteq Nat \ {Unnamed} /\ added \subseteq Nat \ {Unnamed}
      /\ reserved \cap added = {}
  BY <1>1, JobData
<1>6. DOMAIN d = reserved \cup added /\ \A n \in reserved : d[n] = TRUE
  <2> HIDE DEF old, reserved, added
  <2>1. QED  BY <1>4, <1>5
<1>7. DOMAIN d \subseteq Nat \ {Unnamed} /\ Range(d) \subseteq BOOLEAN
  <2> HIDE DEF old, reserved, added
  <2>1. QED  BY <1>4, <1>5 DEF Range
<1> HIDE DEF d
<1>8. /\ DataShape' /\ \A w \in Known' : Filled(w)'
      /\ data'[job.vm] = d
  BY <1>2, <1>3, <1>7, DataOthers
<1>9. /\ job'.pc = "opencore" /\ job'.names = job.names /\ job'.specs = job.specs
      /\ job'.src = job.src /\ job'.vm = job.vm
  BY <1>1, JobData DEF Jobs
<1>10. Reserved(job.src)' = Reserved(job.src)  BY <1>1, <1>9 DEF Reserved
<1>11. Laid'  BY <1>1, <1>6, <1>8, <1>9, <1>10, JobData DEF Laid
<1>12. QED  BY <1>8, <1>11 DEF DataInv

(* The record lists the copies and the new disks, and a guest may fill them. *)
LEMMA SaveData == ASSUME LayoutInv, DataInv, Save PROVE DataInv'
<1> DEFINE disks == Reserved(job.src) \o job.names
           old == data[job.vm]
           d == [n \in DOMAIN old |-> TRUE]
<1>1. job # Idle /\ job.pc = "save" /\ job' = Idle  BY DEF Save, At, Idle
<1>2. /\ data' = [data EXCEPT ![job.vm] = d]
      /\ rec' = [rec EXCEPT ![job.vm] =
           [image |-> RecordedImage(job.src),
            digest |-> RecordedDigest(job.src), size |-> vsize[job.vm], disks |-> disks,
            oc |-> job.oc, ocBase |-> job.ocBase, smbios |-> job.id]]
  BY DEF Save
<1>3. job.vm \in VM  BY <1>1, JobData
<1>4. /\ disks \in Seq(Nat \ {Unnamed}) /\ IsInjective(disks)
      /\ Range(disks) = Range(Reserved(job.src)) \cup Range(job.names)
      /\ Range(disks) \subseteq Nat \ {Unnamed}
  <2>1. Reserved(job.src) \in Seq(Nat \ {Unnamed}) /\ job.names \in Seq(Nat \ {Unnamed})
    BY <1>1, JobData DEF Laid
  <2>2. QED  BY <1>1, <2>1, JobData, ConcatProperties, RangeConcatenation
<1>5. DOMAIN old = Range(disks)  BY <1>1, <1>4, JobData DEF Laid
<1> HIDE DEF disks
<1>6. DOMAIN d = Range(disks) /\ \A n \in Range(disks) : d[n] = TRUE  BY <1>5
<1> HIDE DEF d
<1>7. /\ data'[job.vm] = d /\ \A w \in VM \ {job.vm} : data'[w] = data[w]
      /\ rec'[job.vm].disks = disks /\ \A w \in VM \ {job.vm} : rec'[w] = rec[w]
  BY <1>2, <1>3 DEF LayoutInv, Shapes, FileTypes, RecTypes
<1>8. DataShape'
  <2>1. Range(d) \subseteq BOOLEAN  BY <1>6 DEF Range
  <2>2. QED  BY <1>3, <1>4, <1>6, <1>7, <2>1 DEF DataInv, DataShape
<1>9. ASSUME NEW w \in Known' PROVE Filled(w)'
  <2>1. CASE w = job.vm  BY <1>4, <1>6, <1>7, <2>1 DEF Filled
  <2>2. CASE w # job.vm
    <3>1. w \in VM \ {job.vm} /\ w \in Known  BY <1>7, <2>2 DEF Known
    <3>2. QED  BY <1>7, <3>1 DEF DataInv, Filled
  <2>3. QED  BY <2>1, <2>2
<1>10. QED  BY <1>1, <1>8, <1>9 DEF DataInv

(* The dir goes, with the record or without one.                             *)
LEMMA FailData == ASSUME LayoutInv, DataInv, Fail PROVE DataInv'
<1>1. /\ job # Idle /\ data' = [data EXCEPT ![job.vm] = << >>] /\ UNCHANGED rec /\ job' = Idle
  BY DEF Fail, Cleared
<1>2. QED  BY <1>1, JobData, DataOthers, EmptyList DEF DataInv

(* rm.                                                                       *)
LEMMA RMData == ASSUME LayoutInv, DataInv, NEW v \in VM, RM(v) PROVE DataInv'
<1>1. /\ rec[v] # None /\ data' = [data EXCEPT ![v] = << >>]
      /\ rec' = [rec EXCEPT ![v] = None] /\ UNCHANGED job /\ (job # Idle => job.src # v)
  BY DEF RM, Cleared
<1>2. rec'[v] = None /\ \A w \in VM \ {v} : rec'[w] = rec[w]
  BY <1>1 DEF LayoutInv, Shapes, RecTypes
<1>3. /\ DataShape' /\ \A w \in Known' : Filled(w)'
      /\ \A w \in VM \ {v} : data'[w] = data[w]
  BY <1>1, <1>2, DataOthers, EmptyList
<1>4. ASSUME job # Idle PROVE Laid'
  <2>1. Laid /\ job.vm \in VM \ {v} /\ (job.src # None => job.src \in VM \ {v})
    BY <1>1, <1>4, JobData DEF Known
  <2>2. Reserved(job.src)' = Reserved(job.src)  BY <1>1, <1>2, <2>1 DEF Reserved
  <2>3. QED  BY <1>1, <1>3, <2>1, <2>2 DEF Laid
<1>5. QED  BY <1>1, <1>3, <1>4 DEF DataInv

(* Every step.                                                               *)
LEMMA DataNext == LayoutInv /\ DataInv /\ [Next]_vars => DataInv'
<1> SUFFICES ASSUME LayoutInv, DataInv, [Next]_vars PROVE DataInv'  OBVIOUS
<1>1. CASE Create
  <2>1. None = None  OBVIOUS
  <2>2. QED  BY <1>1, BeginData DEF Create
<1>2. CASE Clone
  <2>1. PICK v \in VM, src \in Known, specs \in SpecLists, s \in Storage, smbios \in BOOLEAN :
          Begin(v, src, CloneImageBase(rec[src]), specs, CloneStorage(rec[src], s), s # 0,
                smbios)
    BY <1>2 DEF Clone
  <2>2. QED  BY <2>1, BeginData
<1>3. CASE ResolveBase
  <2>1. /\ job # Idle /\ job \in Jobs(job.names, job.specs)
        /\ UNCHANGED <<rec, data>>
    BY <1>3, JobData DEF ResolveBase, At, Idle, files
  <2>2. PICK b, g : job' = [job EXCEPT !.pc = "bake", !.base = b, !.digest = g]
    <3>1. CASE job' = [job EXCEPT !.pc = "bake", !.base = job.image]
      <4>1. job' = [job EXCEPT !.pc = "bake", !.base = job.image, !.digest = job.digest]
        BY <2>1, <3>1 DEF Jobs
      <4>2. QED  BY <4>1
    <3>2. CASE job' = [job EXCEPT !.pc = "bake", !.base = ref, !.digest = ref]
      BY <3>2
    <3>3. QED  BY <1>3, <3>1, <3>2 DEF ResolveBase
  <2>3. /\ job'.pc = "bake" /\ job'.names = job.names /\ job'.specs = job.specs
        /\ job'.src = job.src /\ job'.vm = job.vm
    BY <2>1, <2>2 DEF Jobs
  <2>4. QED  BY <2>1, <2>3, DataSame
<1>4. CASE Bake \/ Resize
  <2>1. PICK pc \in {"resize", "copy"} : job' = [job EXCEPT !.pc = pc]
    BY <1>4 DEF Bake, Resize, Goto
  <2>2. /\ job # Idle /\ job \in Jobs(job.names, job.specs) /\ UNCHANGED <<rec, data>>
    BY <1>4, JobData DEF Bake, Resize, At, Idle
  <2>3. /\ job'.pc = pc /\ job'.names = job.names /\ job'.specs = job.specs
        /\ job'.src = job.src /\ job'.vm = job.vm
    BY <2>1, <2>2 DEF Jobs
  <2>4. QED  BY <2>2, <2>3, DataSame
<1>5. CASE CopyDisks  BY <1>5, CopyDisksData
<1>6. CASE CreateDisks  BY <1>6, CreateDisksData
<1>7. CASE PrepareOpenCore
  <2>1. /\ job # Idle /\ job.pc = "opencore" /\ job \in Jobs(job.names, job.specs)
        /\ UNCHANGED <<rec, data>>
    BY <1>7, JobData DEF PrepareOpenCore, At, Idle
  <2>2. /\ job'.pc = "save" /\ job'.names = job.names /\ job'.specs = job.specs
        /\ job'.src = job.src /\ job'.vm = job.vm
    <3>1. PICK base, fresh : OpenCore(base, fresh)  BY <1>7 DEF PrepareOpenCore
    <3>2. \/ \E i : job' = [job EXCEPT !.pc = "save", !.oc = job.vm, !.ocBase = base, !.id = i]
          \/ job' = [job EXCEPT !.pc = "save", !.oc = base]
      BY <3>1 DEF OpenCore
    <3>3. QED  BY <2>1, <3>2 DEF Jobs
  <2>3. QED  BY <2>1, <2>2, DataSame
<1>8. CASE Save  BY <1>8, SaveData
<1>9. CASE Fail  BY <1>9, FailData
<1>10. CASE \E v \in VM : RM(v)  BY <1>10, RMData
<1>11. CASE UNCHANGED <<rec, files, job>>
  BY <1>11, DataSame DEF files
<1>12. CASE \E b \in Blob : Pull(b) \/ DropBlob(b)  BY <1>11, <1>12 DEF Pull, DropBlob
<1>13. CASE DropRef  BY <1>11, <1>13 DEF DropRef
<1>14. CASE UNCHANGED vars  BY <1>11, <1>14 DEF vars
<1>15. QED
  BY <1>1, <1>2, <1>3, <1>4, <1>5, <1>6, <1>7, <1>8, <1>9, <1>10, <1>12, <1>13, <1>14 DEF Next

(* The data disks of every VM and of the job under way, in every reachable   *)
(* state.                                                                    *)
THEOREM DataCorrect == Spec => []DataInv
<1>1. Init => DataInv  BY DataInit
<1>2. LayoutInv /\ DataInv /\ [Next]_vars => DataInv'  BY DataNext
<1>3. QED  BY <1>1, <1>2, LayoutCorrect, PTL DEF Spec

(* The lists of disks close the shapes left open above.                      *)
LEMMA LayoutTypes == LayoutInv /\ DataInv => TypeOK
<1> SUFFICES ASSUME LayoutInv, DataInv PROVE TypeOK  OBVIOUS
<1>1. \A v \in Known : rec[v] \in Record
  <2> SUFFICES ASSUME NEW v \in Known PROVE rec[v] \in Record  OBVIOUS
  <2>1. rec[v] \in Records(rec[v].disks)  BY DEF LayoutInv, Shapes, RecTypes
  <2>2. rec[v].disks \in Seq(Nat \ {Unnamed})  BY DEF DataInv, Filled
  <2>3. rec[v].disks \in Seq(Nat)  BY <2>2, SeqMonotonic
  <2>4. QED  BY <2>1, <2>3 DEF Records, Record
<1>2. QED
  BY <1>1 DEF LayoutInv, Shapes, StoreTypes, FileTypes, DataInv, DataShape, TypeOK

(* Every variable keeps its type; a record never names an image by the path  *)
(* of a blob, which image rm may take (clone).                               *)
THEOREM LayoutTypeCorrect == Spec => []TypeOK
  BY LayoutCorrect, DataCorrect, LayoutTypes, PTL

(* Laid says so of the job.                                                  *)
LEMMA DataNames == DataInv => DisksNamedAsAsked
  BY DEF DataInv, Laid, DisksNamedAsAsked

(* Data disks are named as asked, none twice, and fit the four free ports,   *)
(* for every command line (parseDataDisks; Spec.Args).                       *)
THEOREM DisksAreNamedAsAsked == Spec => []DisksNamedAsAsked
  BY DataCorrect, DataNames, PTL

(* Laid and Filled say so of the files.                                      *)
LEMMA DataCopied == LayoutInv /\ DataInv => CopiesKeepData
<1> SUFFICES ASSUME LayoutInv, DataInv PROVE CopiesKeepData  OBVIOUS
<1>1. \A v \in Known : DOMAIN data[v] = Range(rec[v].disks)  BY DEF DataInv, Filled
<1>2. ASSUME Cloned, job.pc # "copy"
      PROVE  \A n \in Range(Reserved(job.src)) : data[job.vm][n]
  <2>1. \A n \in Range(Reserved(job.src)) : data[job.vm][n] = TRUE
    BY <1>2 DEF Cloned, DataInv, Laid
  <2>2. QED  BY <2>1
<1>3. QED  BY <1>1, <1>2 DEF CopiesKeepData

(* A clone carries its source's data whatever disks are added to it          *)
(* (copyDataDisks, the reserved names of clone).                             *)
THEOREM CopiesKeepTheData == Spec => []CopiesKeepData
  BY LayoutCorrect, DataCorrect, DataCopied, PTL
=============================================================================
