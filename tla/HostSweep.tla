----------------------------- MODULE HostSweep -----------------------------
(***************************************************************************)
(* A state root with several VMs and the host devices they own, shared by  *)
(* concurrent create, run, clone, start, rm and gc invocations.            *)
(*                                                                         *)
(* Three kinds of evidence say that a TAP or netns is in use: a record     *)
(* naming its VMID, a create or clone still between network provisioning   *)
(* and its record, and, for the root as a whole, a VM dir or the           *)
(* provisioning marker.  Locks order them: one flock per VM and the gc     *)
(* flock, shared by provisioning and exclusive for a sweep                 *)
(* (cmd/vm/gc.go, cmd/vm/utils.go).                                        *)
(***************************************************************************)
EXTENDS Naturals, FiniteSets

CONSTANTS
    Name,    \* VM names; path order is the order of the numbers
    Proc,    \* CLI processes
    Id,      \* VMIDs; an Id is the device set (TAP, netns) named after it
    Ops,     \* the operations in play
    Faults,  \* "crash" and "reboot"
    None

AllOps == {"create", "run", "clone", "start", "rm", "gc"}

ASSUME NameAssumption == Name \subseteq Nat
ASSUME OpsAssumption == Ops \subseteq AllOps
ASSUME FaultAssumption == Faults \subseteq {"crash", "reboot"}
ASSUME NoneAssumption == None \notin Proc \cup Id \cup Name

VARIABLES
    vlock,   \* holder of each VM's flock
    gcx,     \* exclusive holder of .gc.lock
    gcs,     \* its shared holders
    dir,     \* the VM dir exists
    rec,     \* the VMID in vm.json, or None
    marker,  \* .locks/.provisioned exists
    live,    \* a QEMU of this VM runs
    dev,     \* cm-family devices on the host
    (* locals of each CLI process *)
    pc, op,
    nm, src, \* the VM it works on, and the source of a clone
    id,      \* the VMID it provisions
    seen,    \* gc: the VM dirs listed
    todo,    \* gc: VM dirs still to lock, then to reset
    cand,    \* gc: devices to collect
    ok       \* whether the operation has succeeded so far or, when idle, ended well

locks == <<vlock, gcx, gcs>>
root == <<dir, rec, marker>>
host == <<live, dev>>
locals == <<op, nm, src, id, seen, todo, cand, ok>>
vars == <<locks, root, host, pc, locals>>

PC == {"idle", "lock", "rlock", "scaffold", "clear", "mkdir", "mark", "provision", "commit",
       "launch", "undonet", "undodir", "recover", "rm", "teardown", "rmmark", "rmdir",
       "gc", "list", "vms", "strays", "devs"}

Goto(p, l) == pc' = [pc EXCEPT ![p] = l]

(* The operation ends: every deferred Unlock runs.                           *)
Return(p, result) ==
    /\ Goto(p, "idle")
    /\ ok' = [ok EXCEPT ![p] = result]
    /\ vlock' = [n \in Name |-> IF vlock[n] = p THEN None ELSE vlock[n]]
    /\ gcx' = IF gcx = p THEN None ELSE gcx
    /\ gcs' = gcs \ {p}
    /\ op' = [op EXCEPT ![p] = "none"]
    /\ nm' = [nm EXCEPT ![p] = None]
    /\ src' = [src EXCEPT ![p] = None]
    /\ id' = [id EXCEPT ![p] = None]
    /\ seen' = [seen EXCEPT ![p] = {}]
    /\ todo' = [todo EXCEPT ![p] = {}]
    /\ cand' = [cand EXCEPT ![p] = {}]

(* A root just made, or one a build without the marker left with a VM and    *)
(* perhaps the device of a create that was killed.                           *)
Init ==
    /\ vlock = [n \in Name |-> None] /\ gcx = None /\ gcs = {}
    /\ marker = FALSE
    /\ \/ rec = [n \in Name |-> None] /\ dir = [n \in Name |-> FALSE] /\ dev = {}
       \/ \E n \in Name, i \in Id :
            /\ rec = [m \in Name |-> IF m = n THEN i ELSE None]
            /\ dir = [m \in Name |-> m = n]
            /\ \E leaked \in SUBSET Id : Cardinality(leaked) <= 1 /\ dev = {i} \cup leaked
    /\ live = [n \in Name |-> FALSE]
    /\ pc = [p \in Proc |-> "idle"] /\ op = [p \in Proc |-> "none"]
    /\ nm = [p \in Proc |-> None] /\ src = [p \in Proc |-> None] /\ id = [p \in Proc |-> None]
    /\ seen = [p \in Proc |-> {}] /\ todo = [p \in Proc |-> {}] /\ cand = [p \in Proc |-> {}]
    /\ ok = [p \in Proc |-> TRUE]

-----------------------------------------------------------------------------
(* Taking the locks                                                          *)

Call(p) ==
    /\ pc[p] = "idle"
    /\ \E o \in Ops, n \in Name, s \in Name :
        /\ o # "clone" => s = n
        /\ op' = [op EXCEPT ![p] = o]
        /\ nm' = [nm EXCEPT ![p] = IF o = "gc" THEN None ELSE n]
        /\ src' = [src EXCEPT ![p] = IF o = "clone" THEN s ELSE None]
        /\ Goto(p, IF o = "gc" THEN "gc" ELSE "lock")
    /\ ok' = [ok EXCEPT ![p] = TRUE]
    /\ UNCHANGED <<locks, root, host, id, seen, todo, cand>>

(* The VMs an operation locks; withVMLocks takes the smaller path first.     *)
Wanted(p) == {n \in Name : n = nm[p] \/ n = src[p]}
Missing(p) == {n \in Wanted(p) : vlock[n] # p}
LockOrder_sourceFirst(p) ==
    IF src[p] \in Missing(p) THEN src[p] ELSE nm[p]
LockOrder(p) == CHOOSE n \in Missing(p) : \A m \in Missing(p) : n <= m

LockVM(p) ==
    /\ pc[p] = "lock" /\ Missing(p) # {}
    /\ vlock[LockOrder(p)] = None
    /\ vlock' = [vlock EXCEPT ![LockOrder(p)] = p]
    /\ UNCHANGED <<gcx, gcs, root, host, pc, locals>>

(* clone refuses a source without a record or with a live QEMU.              *)
Locked(p) ==
    /\ pc[p] = "lock" /\ Missing(p) = {}
    /\ UNCHANGED <<root, host>>
    /\ IF op[p] = "clone" /\ (rec[src[p]] = None \/ live[src[p]])
       THEN Return(p, FALSE)
       ELSE /\ Goto(p, CASE op[p] \in {"create", "run", "clone"} -> "rlock"
                         [] op[p] = "start" -> "recover"
                         [] op[p] = "rm" -> "rm")
            /\ UNCHANGED <<locks, locals>>

(* withProvisionLock, taken while the VM locks are held.                     *)
ProvisionLock_skipped(p) ==
    /\ pc[p] = "rlock"
    /\ Goto(p, "scaffold")
    /\ UNCHANGED <<locks, root, host, locals>>
ProvisionLock(p) ==
    /\ pc[p] = "rlock" /\ gcx = None
    /\ gcs' = gcs \cup {p}
    /\ Goto(p, "scaffold")
    /\ UNCHANGED <<vlock, gcx, root, host, locals>>

-----------------------------------------------------------------------------
(* create, run and clone                                                     *)

(* resetIncompleteVMDir marks the root before it removes a stray dir.        *)
Scaffold_overCommitted(p) ==
    /\ pc[p] = "scaffold"
    /\ UNCHANGED <<dir, rec, host>>
    /\ \/ ~dir[nm[p]] /\ Goto(p, "mkdir") /\ UNCHANGED <<marker, locks, locals>>
       \/ /\ dir[nm[p]] /\ ~live[nm[p]]
          /\ marker' = TRUE
          /\ Goto(p, "clear")
          /\ UNCHANGED <<locks, locals>>
       \/ Return(p, FALSE) /\ UNCHANGED marker
Scaffold(p) ==
    /\ pc[p] = "scaffold"
    /\ UNCHANGED <<dir, rec, host>>
    /\ \/ /\ rec[nm[p]] = None /\ ~dir[nm[p]]
          /\ Goto(p, "mkdir")
          /\ UNCHANGED <<marker, locks, locals>>
       \/ /\ rec[nm[p]] = None /\ dir[nm[p]] /\ ~live[nm[p]]
          /\ marker' = TRUE
          /\ Goto(p, "clear")
          /\ UNCHANGED <<locks, locals>>
       \/ Return(p, FALSE) /\ UNCHANGED marker

Clear(p) ==
    /\ pc[p] = "clear"
    /\ dir' = [dir EXCEPT ![nm[p]] = FALSE]
    /\ Goto(p, "mkdir")
    /\ UNCHANGED <<locks, rec, marker, host, locals>>

(* EnsureDirs and the overlay, which fails without removing the dir; a later *)
(* disk or OpenCore failure goes through cleanupFailedVM.                    *)
Mkdir(p) ==
    /\ pc[p] = "mkdir"
    /\ dir' = [dir EXCEPT ![nm[p]] = TRUE]
    /\ UNCHANGED <<rec, marker, host>>
    /\ \/ \E l \in {"mark", "undodir"} : Goto(p, l) /\ UNCHANGED <<locks, locals>>
       \/ Return(p, FALSE)

(* applyNet marks the root before it provisions anything.                    *)
MarkRoot(p) ==
    /\ pc[p] = "mark"
    /\ UNCHANGED <<locks, dir, rec, host, locals>>
    /\ \/ marker' = TRUE /\ Goto(p, "provision")
       \/ UNCHANGED marker /\ Goto(p, "undodir")

Fresh == {i \in Id : /\ i \notin dev
                     /\ \A n \in Name : rec[n] # i
                     /\ \A q \in Proc : id[q] # i}

(* provisionNet: a failed Add deletes what Prepare made, or only warns.      *)
Provision(p) ==
    /\ pc[p] = "provision"
    /\ UNCHANGED <<locks, root, live, op, nm, src, seen, todo, cand, ok>>
    /\ \/ \E i \in Fresh :
            /\ dev' = dev \cup {i}
            /\ \/ id' = [id EXCEPT ![p] = i] /\ Goto(p, "commit")
               \/ UNCHANGED id /\ Goto(p, "undodir")
       \/ UNCHANGED <<dev, id>> /\ Goto(p, "undodir")

(* saveRec ends the provisioning span; run launches under the VM lock only.  *)
Commit(p) ==
    /\ pc[p] = "commit"
    /\ UNCHANGED <<dir, marker, host>>
    /\ \/ /\ rec' = [rec EXCEPT ![nm[p]] = id[p]]
          /\ IF op[p] = "run"
             THEN Goto(p, "launch") /\ gcs' = gcs \ {p} /\ UNCHANGED <<vlock, gcx, locals>>
             ELSE Return(p, TRUE)
       \/ UNCHANGED <<rec, locks, locals>> /\ Goto(p, "undonet")

(* launchQEMU may fail with the guest up: the pidfile, the VNC proxy and the *)
(* record come after it.  start then leaves it, run goes to its cleanup.     *)
Launch(p) ==
    /\ pc[p] = "launch"
    /\ UNCHANGED <<root, dev>>
    /\ \/ live' = [live EXCEPT ![nm[p]] = TRUE] /\ Return(p, TRUE)
       \/ /\ \E up \in BOOLEAN : live' = [live EXCEPT ![nm[p]] = up]
          /\ IF op[p] = "run" THEN Goto(p, "undonet") /\ UNCHANGED <<locks, locals>>
             ELSE Return(p, FALSE)

(* cleanupFailedVM: the device first, under a guest whose pid the record     *)
(* lacks; a failed teardown does not keep the dir.                           *)
UndoNet(p) ==
    /\ pc[p] = "undonet"
    /\ dev' \in {dev, dev \ {id[p]}}
    /\ Goto(p, "undodir")
    /\ UNCHANGED <<locks, root, live, locals>>

(* reapStrayHelpers kills that guest (VMLifecycle has the kill that fails).  *)
UndoDir(p) ==
    /\ pc[p] = "undodir"
    /\ UNCHANGED <<marker, dev>>
    /\ live' = [live EXCEPT ![nm[p]] = FALSE]
    /\ \/ dir' = [dir EXCEPT ![nm[p]] = FALSE] /\ rec' = [rec EXCEPT ![nm[p]] = None]
       \/ UNCHANGED dir /\ rec' \in {rec, [rec EXCEPT ![nm[p]] = None]}
    /\ Return(p, FALSE)

-----------------------------------------------------------------------------
(* start and rm                                                              *)

(* recoverNet rebuilds the device a reboot took away; start leaves a VM that *)
(* runs alone.                                                               *)
Recover_unreadRecord(p) ==
    /\ pc[p] = "recover"
    /\ UNCHANGED <<root, live>>
    /\ dev' = dev \cup {rec[nm[p]]}
    /\ Goto(p, "launch")
    /\ UNCHANGED <<locks, locals>>
Recover(p) ==
    /\ pc[p] = "recover"
    /\ UNCHANGED <<root, live>>
    /\ \/ /\ rec[nm[p]] # None /\ ~live[nm[p]]
          /\ dev' = dev \cup {rec[nm[p]]}
          /\ Goto(p, "launch")
          /\ UNCHANGED <<locks, locals>>
       \/ UNCHANGED dev /\ Return(p, FALSE)

(* RM stops the guest; a stray dir has no record to tear a network down for. *)
RmStop(p) ==
    /\ pc[p] = "rm"
    /\ UNCHANGED <<root, dev>>
    /\ \/ ~dir[nm[p]] /\ UNCHANGED live /\ Return(p, TRUE)
       \/ /\ dir[nm[p]]
          /\ live' = [live EXCEPT ![nm[p]] = FALSE]
          /\ Goto(p, IF rec[nm[p]] = None THEN "rmmark" ELSE "teardown")
          /\ UNCHANGED <<locks, locals>>

Teardown(p) ==
    /\ pc[p] = "teardown"
    /\ UNCHANGED <<root, live>>
    /\ \/ dev' = dev \ {rec[nm[p]]} /\ Goto(p, "rmmark") /\ UNCHANGED <<locks, locals>>
       \/ UNCHANGED dev /\ Return(p, FALSE)

RmMark_never(p) ==
    /\ pc[p] = "rmmark"
    /\ Goto(p, "rmdir")
    /\ UNCHANGED <<locks, root, host, locals>>
RmMark(p) ==
    /\ pc[p] = "rmmark"
    /\ UNCHANGED <<dir, rec, host>>
    /\ \/ marker' = TRUE /\ Goto(p, "rmdir") /\ UNCHANGED <<locks, locals>>
       \/ UNCHANGED marker /\ Return(p, FALSE)

RmDir(p) ==
    /\ pc[p] = "rmdir"
    /\ UNCHANGED <<marker, host>>
    /\ \/ /\ dir' = [dir EXCEPT ![nm[p]] = FALSE]
          /\ rec' = [rec EXCEPT ![nm[p]] = None]
          /\ Return(p, TRUE)
       \/ /\ UNCHANGED dir
          /\ rec' \in {rec, [rec EXCEPT ![nm[p]] = None]}
          /\ Return(p, FALSE)

-----------------------------------------------------------------------------
(* gc                                                                        *)

GcLock(p) ==
    /\ pc[p] = "gc"
    /\ UNCHANGED <<root, host>>
    /\ IF gcx = None /\ gcs = {}
       THEN gcx' = p /\ Goto(p, "list") /\ UNCHANGED <<vlock, gcs, locals>>
       ELSE Return(p, FALSE)                                \* a create is provisioning

GcList(p) ==
    /\ pc[p] = "list"
    /\ seen' = [seen EXCEPT ![p] = {n \in Name : dir[n]}]
    /\ todo' = [todo EXCEPT ![p] = {n \in Name : dir[n]}]
    /\ Goto(p, "vms")
    /\ UNCHANGED <<locks, root, host, op, nm, src, id, cand, ok>>

(* tryLockVMDirs never waits: a busy VM makes the sweep refuse to run.       *)
GcLockVM(p) ==
    /\ pc[p] = "vms" /\ todo[p] # {}
    /\ \E n \in todo[p] :
        \/ /\ vlock[n] = None
           /\ vlock' = [vlock EXCEPT ![n] = p]
           /\ todo' = [todo EXCEPT ![p] = @ \ {n}]
           /\ UNCHANGED <<gcx, gcs, pc, op, nm, src, id, seen, cand, ok>>
        \/ vlock[n] # None /\ Return(p, FALSE)
    /\ UNCHANGED <<root, host>>

(* ReadDB of the vm module, and of the netns and TAP modules when the root   *)
(* is known to have held a VM.  An unreadable record aborts the sweep.       *)
Unowned_byMarkerOnly(p) ==
    IF marker THEN {i \in dev : \A n \in seen[p] : rec[n] # i} ELSE {}
Unowned(p) ==
    IF seen[p] # {} \/ marker THEN {i \in dev : \A n \in seen[p] : rec[n] # i} ELSE {}

GcRead(p) ==
    /\ pc[p] = "vms" /\ todo[p] = {}
    /\ UNCHANGED <<root, host>>
    /\ \/ /\ todo' = [todo EXCEPT ![p] = {n \in seen[p] : rec[n] = None}]
          /\ cand' = [cand EXCEPT ![p] = Unowned(p)]
          /\ Goto(p, "strays")
          /\ UNCHANGED <<locks, op, nm, src, id, seen, ok>>
       \/ Return(p, FALSE)

(* Collect of the vm module: resetIncompleteVMDir on every stray, which      *)
(* refuses a dir a live QEMU references, then the stale pull temps.          *)
GcStray(p) ==
    /\ pc[p] = "strays"
    /\ UNCHANGED <<locks, host, rec, op, nm, src, id, seen, cand>>
    /\ \/ todo[p] = {} /\ Goto(p, "devs") /\ UNCHANGED <<dir, marker, todo, ok>>
       \/ \E n \in todo[p] :
            /\ todo' = [todo EXCEPT ![p] = @ \ {n}]
            /\ UNCHANGED pc
            /\ \/ /\ dir[n] => rec[n] = None /\ ~live[n]
                  /\ marker' = (marker \/ dir[n])
                  /\ dir' = [dir EXCEPT ![n] = FALSE]
                  /\ UNCHANGED ok
               \/ ok' = [ok EXCEPT ![p] = FALSE] /\ UNCHANGED <<dir, marker>>

(* Collect of the network modules, one device at a time.                     *)
GcDev(p) ==
    /\ pc[p] = "devs"
    /\ UNCHANGED <<root, live>>
    /\ \/ cand[p] = {} /\ Return(p, ok[p]) /\ UNCHANGED dev
       \/ \E i \in cand[p] :
            /\ cand' = [cand EXCEPT ![p] = @ \ {i}]
            /\ \/ dev' = dev \ {i} /\ UNCHANGED ok
               \/ UNCHANGED dev /\ ok' = [ok EXCEPT ![p] = FALSE]
            /\ UNCHANGED <<locks, pc, op, nm, src, id, seen, todo>>

-----------------------------------------------------------------------------
(* The environment                                                           *)

QemuExit(n) ==
    /\ live[n]
    /\ live' = [live EXCEPT ![n] = FALSE]
    /\ UNCHANGED <<locks, root, dev, pc, locals>>

(* A killed CLI loses its flocks and nothing else.                           *)
Crash(p) ==
    /\ "crash" \in Faults /\ pc[p] # "idle"
    /\ Return(p, FALSE)
    /\ UNCHANGED <<root, host>>

(* The host loses its processes and its TAPs, netns and flocks.              *)
Reboot ==
    /\ "reboot" \in Faults
    /\ live' = [n \in Name |-> FALSE] /\ dev' = {}
    /\ vlock' = [n \in Name |-> None] /\ gcx' = None /\ gcs' = {}
    /\ pc' = [p \in Proc |-> "idle"] /\ op' = [p \in Proc |-> "none"]
    /\ nm' = [p \in Proc |-> None] /\ src' = [p \in Proc |-> None] /\ id' = [p \in Proc |-> None]
    /\ seen' = [p \in Proc |-> {}] /\ todo' = [p \in Proc |-> {}] /\ cand' = [p \in Proc |-> {}]
    /\ ok' = [p \in Proc |-> FALSE]
    /\ UNCHANGED root

-----------------------------------------------------------------------------
Step(p) ==
    \/ Locked(p) \/ Scaffold(p) \/ Clear(p) \/ Mkdir(p) \/ MarkRoot(p) \/ Provision(p)
    \/ Commit(p) \/ Launch(p) \/ UndoNet(p) \/ UndoDir(p)
    \/ Recover(p) \/ RmStop(p) \/ Teardown(p) \/ RmMark(p) \/ RmDir(p)
    \/ GcLock(p) \/ GcList(p) \/ GcLockVM(p) \/ GcRead(p) \/ GcStray(p) \/ GcDev(p)

Next ==
    \/ \E p \in Proc : Call(p) \/ LockVM(p) \/ ProvisionLock(p) \/ Step(p) \/ Crash(p)
    \/ \E n \in Name : QemuExit(n)
    \/ Reboot

Spec == Init /\ [][Next]_vars

(* A CLI runs on unless it is killed; a flock somebody polls for is got if   *)
(* it is free again and again.                                               *)
FairSpec ==
    /\ Spec
    /\ \A p \in Proc : WF_vars(Step(p)) /\ SF_vars(LockVM(p)) /\ SF_vars(ProvisionLock(p))

-----------------------------------------------------------------------------
(* Properties                                                                *)

(* Every variable keeps its type (flocks, records and host devices).         *)
TypeOK ==
    /\ vlock \in [Name -> Proc \cup {None}]
    /\ gcx \in Proc \cup {None}
    /\ gcs \subseteq Proc
    /\ dir \in [Name -> BOOLEAN]
    /\ rec \in [Name -> Id \cup {None}]
    /\ marker \in BOOLEAN
    /\ live \in [Name -> BOOLEAN]
    /\ dev \subseteq Id
    /\ pc \in [Proc -> PC]
    /\ op \in [Proc -> AllOps \cup {"none"}]
    /\ nm \in [Proc -> Name \cup {None}]
    /\ src \in [Proc -> Name \cup {None}]
    /\ id \in [Proc -> Id \cup {None}]
    /\ seen \in [Proc -> SUBSET Name]
    /\ todo \in [Proc -> SUBSET Name]
    /\ cand \in [Proc -> SUBSET Id]
    /\ ok \in [Proc -> BOOLEAN]

(* No sweep takes a device in use: one under a running guest or a launch, or *)
(* one a create or clone has provisioned and no record names yet: gc.go:53,  *)
(* "an in-flight create, clone or rm is never read as residue".  Such a      *)
(* device goes only with the host, or in the cleanup of the very run whose   *)
(* launch failed with the guest up (cleanupFailedVM).                        *)
InUse ==
    {rec[n] : n \in {m \in Name : live[m]}}
    \cup {rec[nm[p]] : p \in {q \in Proc : pc[q] = "launch"}}
    \cup {id[p] : p \in {q \in Proc : pc[q] = "commit"}}
InUseDevicesStay ==
    [][\A i \in (dev \ dev') \cap InUse \cap InUse' :
          \E p \in Proc : id[p] = i /\ pc[p] = "undonet" /\ pc'[p] = "undodir"]_vars

(* Nobody removes the VM dir under a create, clone or launch in flight, and  *)
(* no dir with a record goes but by rm or by the run that made it.           *)
InFlightDirsStay ==
    /\ \A p \in Proc : pc[p] \in {"mark", "provision", "commit"} => dir[nm[p]]
    /\ \A n \in Name : rec[n] # None => dir[n]

(* A leaked device can still be reclaimed: the root keeps evidence that it   *)
(* has held a VM: cli.md:83, "so the evidence outlives the last VM".         *)
LeakStaysReclaimable ==
    (\E i \in dev : \A n \in Name : rec[n] # i) => marker \/ \E n \in Name : dir[n]

(* A sweep that reports success on a root that has held a VM leaves no       *)
(* device without a record: cli.md:72, "reclaim what no VM record owns".     *)
GcReclaims ==
    [][\A p \in Proc :
        /\ op[p] = "gc" /\ pc[p] # "idle" /\ pc'[p] = "idle" /\ ok'[p]
        /\ marker' \/ \E n \in Name : dir'[n]
        => \A i \in dev' : \E n \in Name : rec'[n] = i]_vars

(* Who waits for a flock waits for a CLI that can go on, or that waits       *)
(* further along: for a VM of a larger path, or, with its VM locks held, for *)
(* the gc lock, whose holder can go on (withVMLocks' path order, clones      *)
(* crossing each other, tryLockVMDirs, withProvisionLock).                   *)
Waits(p) == pc[p] = "lock" /\ Missing(p) # {}
MayGo(p) ==
    /\ pc[p] # "idle"
    /\ Waits(p) => vlock[LockOrder(p)] = None
    /\ pc[p] = "rlock" => gcx = None
NoCircularWait ==
    \A p, q \in Proc :
        /\ Waits(p) /\ vlock[LockOrder(p)] = q =>
            MayGo(q) \/ pc[q] = "rlock" \/ (Waits(q) /\ LockOrder(p) < LockOrder(q))
        /\ pc[p] = "rlock" /\ gcx = q => MayGo(q)

(* Nobody waits forever for the locks: crossing clones take theirs in path   *)
(* order, and a sweep never waits for a VM while it keeps creates waiting.   *)
EveryCallEnds == \A p \in Proc : pc[p] # "idle" ~> pc[p] = "idle"
=============================================================================
