# cocoon-macos in TLA+

`cocoon-macos` is a command-line program: there is no daemon. Every command is a short-lived
process that reads a state root (`vms/<name>/vm.json`, images, firmware), starts or kills QEMU, a VNC
proxy and network devices that outlive it, and exits. What makes it hard is exactly that: the state
is spread over files, flocks, the process table and the host's network, several CLIs run at once, any
of them can be killed between two steps, and the next one has to make sense of what it finds.

## Inventory

| part | code | state it keeps | operations |
|---|---|---|---|
| VM lifecycle | `cmd/vm/lifecycle.go`, `utils.go` | VM dir, `vm.json` (pid, VNC settings, net mode) | create, run, start, stop, rm, the launch and cleanup sequences |
| QEMU processes | `utils.go`, `internal/procutil` | process table, `qemu.pid` | verify a pid by cmdline, scan by cmdline, adopt, power down, terminate |
| VNC proxy | `cmd/vm/vnc.go` | detached process, `vnc-proxy.pid`, a host port | start, stop, repair, password gate |
| HMP monitor | `utils.go` | one socket session | set_password, system_powerdown |
| VM locks | `utils.go` | one flock per VM outside its dir | withVMLock, withVMLocks |
| provisioning lock, gc | `cmd/vm/gc.go`, `gc_linux.go` | `.gc.lock`, `.provisioned` | shared by create/clone, exclusive for a sweep |
| networking | `cmd/vm/net_linux.go` | TAP or netns per VMID, CNI forwarding | provision, recover, quiesce, unquiesce, teardown |
| snapshots | `cmd/vm/snapshot.go`, `qemu/snapshot.go` | internal qcow2 snapshots, `Snapshots` in `vm.json` | snapshot with rollback, restore, restore --force |
| clone | `cmd/vm/clone.go` | the new VM's dir | overlay, copied disks, fresh identity and device |
| data disks | `cmd/vm/datadisk.go` | qcow2 files | name and count rules, create, copy |
| OpenCore / NBD | `qemu/inject.go` | `/dev/nbd*`, qemu-nbd, a host lease | connect, mount, patch, disconnect |
| images | `cmd/image` | cloudimg store (vendored), a temp file | pull with retries, list, inspect, rm |
| SMBIOS, QEMU arguments, paths, queries, scripts | `qemu/smbios.go`, `qemu/launch.go`, `home`, `query.go`, `scripts` | none | formatting, reading |

Interactions: every `vm` operation holds the flock of the VMs it works on; create, run and clone also
hold `.gc.lock` shared until their record is written, gc holds it exclusively and then every VM's
flock. Nothing else is shared but the host: a QEMU is found by its pid in `vm.json` or by a scan of
cmdlines, a proxy by its pidfile only, a device by the VMID in a record.

What makes each part correct:

* lifecycle: one guest per set of disks, no guest without a record, stop means stopped, and the
  record says what the guest serves;
* VNC: a display reachable off the host has a password, and is gone with its QEMU;
* locks and gc: nobody waits forever, nothing in use is swept, everything that leaked is;
* snapshots: all images or none, and a restore brings all images to one moment;
* clone and data disks: the clone rests on its source's own base, has its own identity and OpenCore
  overlay, all of its source's data and no disk twice;
* OpenCore injection: no two transactions on one NBD device, no server left behind, a record only
  with the identity in the image;
* image pull: the store holds whole layers that the registry served.

PROJECT.json lists the hazards at their lines.

## Modules

| module | models | composed of |
|---|---|---|
| `VMLifecycle` | one VM name, several CLIs, all `vm` operations step by step, QEMU front and daemon, proxy, device | - |
| `VMLifecycleProofs` | theorems about it: types, the display gate, the end of an operation | EXTENDS `VMLifecycle`, TLAPS |
| `VMGuestProofs` | the guest: one, recorded, offline when its disks are worked on, stopped when reported so | EXTENDS `VMLifecycleProofs` |
| `VMPromiseProofs` | the proxy, and the refinement of `VMPromise` | EXTENDS `VMGuestProofs` |
| `VMPromise` | what a user sees of one VM: absent, stopped or running, its mode, its display | abstract; `VMLifecycle` implements it |
| `HostSweep` | several VM names on one root: locks, marker, devices, gc | - |
| `HostSweepProofs` | theorems about it | EXTENDS `HostSweep`, TLAPS |
| `Snapshots` | several images per VM, snapshot, restore, clone | - |
| `AtomicSnapshot` | a VM whose images are one state, tags that name states | abstract |
| `SnapshotRefinement` | what `AtomicSnapshot` sees of `Snapshots` | EXTENDS `Snapshots`, INSTANCE `AtomicSnapshot` |
| `SnapshotsProofs` | theorems about `Snapshots`, the refinement included | EXTENDS `SnapshotRefinement`, TLAPS |
| `NBDLease` | OpenCore injection: lease, NBD devices, qemu-nbd, mount | - |
| `NBDLeaseProofs` | theorems about it | EXTENDS `NBDLease`, TLAPS |
| `DiskLayout` | the files of a VM: base, overlay, data disks, OpenCore overlay, identity | - |
| `DiskLayoutProofs` | theorems about it | EXTENDS `DiskLayout`, TLAPS |
| `ImagePull` | pull of a registry reference: attempts, temp file, store | - |
| `ImagePullProofs` | theorems about it | EXTENDS `ImagePull`, TLAPS |
| `MC...` | symmetry and values for TLC | |

The models cut the program by state. `VMLifecycle` has everything that concerns one VM name and
sees a snapshot, and the files create lays down, as one step; `Snapshots` and `DiskLayout` open those
steps. `HostSweep` has what several VMs share through locks, the root and devices, and sees a launch
as one step; `NBDLease` has what they share through `/dev/nbd*`. `ImagePull` stands before all of
them. Locks that a module relies on but does not model are shown by another: one operation at a time
on a VM (`VMLifecycle`), a source that is locked for the whole clone (`HostSweep`).

### VMLifecycle

One variable per place the program looks: `lock` (the flock), `dir` and `rec` (VM dir and `vm.json`),
`vmm` (the QEMU processes whose cmdline names the dir), `proxy` (`listed` in its pidfile or `lost`),
`net` (the record's device); and per CLI its `pc` and locals: `r` is the `*record` the code
passes around, `pass` the `--vnc-password` of this launch, `was` what restore found running, `bad` the
error stopInstance will return, `child` what c.Run waits for and then the pid in the pidfile.

| steps | code |
|---|---|
| `Acquire`, `Load`, `Dispatch` | withVMLock, loadRec and reconcileRunningQEMU, then what each command does with the record |
| `Scaffold`, `Bake`, `Provision`, `Commit` | scaffoldVM, create |
| `Launch`, `Unproxy`, `Presave`, `Exec`, `ReadPid`, `SetPass`, `Proxy`, `ProxyPid`, `Abort`, `Postsave`, `Unquiesce` | launch and startVNCProxy; `RunFailed` is a c.Run that returned an error |
| `Kill`, `KillProxy`, `Quiesce`, `StopSave`, `Image`, `ImgSave` | stopInstance, stop, restore, snapshot |
| `Teardown`, `Reap`, `Remove` | rm and cleanupFailedVM |
| `QemuFork`, `QemuReady`, `QemuFail`, `QemuExit`, `ProxyExit`, `Crash`, `Reboot` | the environment |

`qemu -daemonize` is two processes with the same cmdline: the *front* that c.Run waits for and the
*daemon* it forks, which writes its pidfile and reports to the front before the front exits. `Killed`
says what killing either does to the other. Normally `Exec` takes both at once; with the fault `front` a
scan may see the front before the fork, or the front may get the pid an old record still holds. Runs and
proofs that exclude `front` say so, because the code does not keep these properties then (Findings,
`window`).

Faults are constants, so each run names what it assumes: `crash` (a CLI is killed anywhere),
`reboot`, `kill` (TerminateProcess reports an error, having killed or not), `net` (quiesce and
unquiesce fail, which the code only warns about), `corrupt` (`vm.json` is unreadable), `front`.
Every other error return of the code (save, bake, provision, exec, set_password, bind, teardown,
RemoveAll) can happen in every run.

Abstractions: the scan and the kills of one TerminateByCmdline are one step; the moment between fork
and exec of `ip netns exec` is left out; QEMU's own image locks are not relied on; `--net tap` with a
user's TAP is mode `user`, `tap` with an automatic one is `bridge`; a single VNC display number; the
ACPI power-down only makes QEMU exit by itself. `rm` with an unreadable record skips the proxy, as in
the code.

### HostSweep

`vlock`, `gcx`, `gcs` are the flocks, `dir`, `rec`, `marker` the root, `live` and `dev` the host. An
operation is reduced to the steps at which it takes locks, touches the root or changes a device.
`Init` also allows a root from a build that had no marker (gc.go:82). Every VM has an
automatically created device; `start` and `run` put a QEMU on it, and a launch may fail with the guest up:
the cleanup of `run` then takes the device before it kills the guest. A sweep lists dirs before it has
their locks, reads records after, and collects strays and devices one by one, any of which may fail.

### Snapshots

Per VM and image what it holds (`content`) and its internal snapshots (`points`, oldest first), the
`Snapshots` list of the record (`rec`), and where the operation under the VM's flock is. `taken` is a
history variable: the images at the moment a recorded snapshot succeeded. `Use` is start, some guest
writes and stop. qemu-img works on the first snapshot of a name. A clone is one step, because an
unfinished one leaves only a stray dir. SnapCreate and SnapApply may fail in every run. Faults: `crash`,
`interrupt` (Ctrl-C ends the context that every qemu-img runs under, the rollback's too), `undo` (a
SnapDelete of the rollback fails, which the code only logs), `save` (the record cannot be written).

`Atomic` in `SnapshotRefinement` is the refinement: a snapshot happens when the record lists it, a
restore when the first image is reverted. `AtomicSnapshot` allows a restore to `Break`, the one failure
the code reports as not atomic, but a refused restore and a rollback must be invisible, and `Done` must
find the whole VM in the saved state. A tag becomes `Spoiled` when an image carries it that no record
lists and that no snapshot is about to list or take back (`stray`; `Made` says which images the snapshot
under way has tagged): a clone brings such tags along, and a snapshot that fails may leave one (`Spoil`).
With `Faults = {}` it may not (`CleanFailures`), which is the promise of snapshot.go:129 as far as the
code keeps it: where rollbacks succeed. Listing a spoiled tag later makes *some* one state of the whole
VM of it. What all this never touches are the disks and the other tags.

### VMPromise

`Promise` in `VMLifecycle` maps the record, the one guest on the VM's disks and its display to an
abstract VM with five actions. Every step of every operation has to be one of them or invisible. This
says what no single invariant does: a VM boots only as what its record says, its mode never changes,
its display changes only by set_password, and nothing of it goes away while it runs. It is checked
under `crash`, `reboot` and `corrupt`. It does not hold with the fault `kill`, where a dir is removed
under its guest (see Also reachable), nor with `front`, where rm may take the front process of a boot
for the guest and remove the VM under the daemon (the finding `window`).

### NBDLease

`lease` is the flock, `server` what the kernel knows of each device, `child` the processes on their
way (qemu-nbd connecting, disconnecting or exiting, mount), `mount` and `dirty` the mounted partition;
`patched`, `dir`, `saved` are the image, its dir and its record; per CLI the position in InjectConfig,
the device of its loop, the cmdlines it has read, whether its context has ended, and the two errors
(`err`, `cmdErr`) that decide what it returns. A child outlives its CLI; the lease does not. Faults:
`crash`, `cancel` (Ctrl-C at any step; disconnect and the cleanups are detached from it), `kill` (some
qemu-nbd withstands TerminateByCmdline), `io` (cmdlines, pidfile, plist or umount fail).
Not modelled: the instant between fork and exec of a child whose CLI dies, a `/dev/nbdN` that does not
exist (it is skipped), reboots (they empty the host state).

`LeaseHolderAdvances` is an action property and not a liveness property because the run uses symmetry,
and because the prover can do it: whoever holds the lease is inside InjectConfig, each of its steps gives
the lease up or leads to a later place of the transaction (`Nearer`: the next device, or less left of
this one), and nothing that others, commands or the host do moves it or takes the lease from it. There
are finitely many devices, so this is why a waiting CLI gets the lease if the holder's steps and its own
commands go on.

### DiskLayout

`ref` and `blobs` are the store, `rec` the records, and per VM the base its overlay rests on, the
overlay's size, its OpenCore overlay, identity and data disks; `job` is the one create or clone in
progress. `lost` is a history variable: the blobs that were out of the store at some time of the job. A
base is identified with its content, a data disk with its name and whether a guest has written to it.
`Init` allows one VM whose record predates digest, storage and `opencore_base`. Every step may fail, and
`Fail` is also the crash, because a dir without a record is removed before anything reads it
(`HostSweep`, `ScaffoldsFresh`). The store moves only before the overlay is baked: no later step of a job
reads it, so later moves commute with the rest of the job. Identities are unique when drawn (they are
random), so `IdentitiesDiffer` is about who gets one.

`ParseDataDisks` is checked as an algorithm, and proved for every command line: `AsAsked` states what the
names must be without the order of the two passes.

### ImagePull

`remote` is the layer the registry's manifest names now, `image` what the store has, and per CLI its temp
file, with its data, whether it is flushed and whether its name still exists. Open resolves the reference
and truncates the file, so a retry may fetch another layer than the attempt before it. gc may take any
temp file at any time (its age is not modelled: a stalled download is as old as a dead one). Faults:
`crash`, `reboot` (unflushed data is lost), `cancel`. A CLI that is killed with its temp file still in
the directory is at `killed`, and its slot is occupied until gc takes the file. `EveryPullEnds` says that
every call ends there or without its temp file. `served` is a history variable: the layers named during
the call.

## Runs

| run | expects | properties | bounds | distinct states |
|---|---|---|---|---|
| crash | pass | GuestHasRecord, RestoreKeepsGate, NetServesGuest, KeepsPromise | 2 CLIs, 3 pids, 3 modes | 37k |
| kill | pass | TypeOK, OneGuest, OfflineImages, ScaffoldsFresh, DisplayRecorded, GatedDisplay, StopMeansStopped, LaunchServesDisplay | same | 207k |
| live | pass | VncGoneAfterStop, Returns | 2 CLIs, 3 pids, 2 modes | 56k |
| window | violation | see Findings | | |
| sweep_safe | pass | TypeOK, InUseDevicesStay, InFlightDirsStay, LeakStaysReclaimable, NoCircularWait, GcReclaims | 2 names, 3 CLIs, 2 VMIDs | 1.13M |
| sweep_live | pass | EveryCallEnds | 2 names, 2 CLIs, 1 VMID | 36k |
| snap_atomic | pass | SnapshotsAtomic | 2 VMs, 3 images, 2 tags, 1 write, no faults | 49k |
| snap_faults | pass | TypeOK, RecordedEverywhere, SnapshotsAtomic | 1 VM, 3 images, 2 tags, 2 writes, all faults | 36k |
| snap_clone | violation | see Findings | | |
| nbd | pass | TypeOK, SavedMeansInjected, NoServerLeft, LeaseHolderAdvances, ConnectsFreeDevice | 2 CLIs, 2 images, 2 devices | 2.4M |
| disks | pass | TypeOK, ClonesShareTheBase, StorageKept, ChainsStayOwn, IdentitiesDiffer, DisksNamedAsAsked, CopiesKeepData | 2 VMs, 2 blobs and a file, 2 sizes, 4 lists of disks | 987k |
| images | pass | StoreWhole, PulledIsServed, EveryPullEnds | 2 CLIs, 2 layers, 2 attempts | 182k |

Why the bounds are enough: the flock makes two CLIs on one VM sequential, so a second one is needed only
to wait and to follow a crashed first one; three pids are a stale pid plus the front and the daemon of
the next boot, and the scan's ">1 match" case; with fewer pids the interesting reuse of a pid cannot
happen. In `HostSweep` three CLIs are the two sides of a crossing pair plus a sweep, and two VMIDs a
device in use beside a leaked one. Three images tell the first, a middle and the last one apart in
rollback and revert; one write makes the disks differ before and after a snapshot, and two, in
`snap_faults` and `snap_clone`, also between a snapshot and a later one of the same tag. `snap_faults`
has one VM and `snap_atomic` two, one of them possibly a clone: VMs meet only in a clone, and that clones
and faults go together is proved. `MaxWrites` and `MaxPoints` bound the only counters.

In `NBDLease` two devices are the one a dead CLI's children still use and the one that is free; a third
CLI would only wait. The code has sixteen devices, and running out of two is the same branch. In
`DiskLayout` two VMs are a source and its clone, and since either may be removed and cloned from the
other, chains of clones are covered up to the limit of four data disks; one blob is smaller and the other
larger than the one value of `--storage`. In `ImagePull` two attempts are a first and a last one, two
layers the one resolved and another; two CLIs suffice because a pull shares only the store with others.

Symmetry is used in safety runs, over processes, pids, VMIDs, VM names, images, identities and tags, none
of which a definition orders (VM names in `HostSweep` and devices in `NBDLease` are ordered, and not
symmetric). The refinement `KeepsPromise` is checked with symmetry: `guest` chooses among the guests on
the VM's disks, of which the run has at most one.

Deadlock is checked in every run: the system never stops, because a new command can always be given.

### Fairness

`Returns` assumes weak fairness of each CLI's own steps (the scheduler runs a process that is not
killed) and of a booting QEMU, which either reaches its guest or fails: c.Run has no timeout, so a
QEMU hanging in its initialisation would hold the flock forever, and no property says otherwise.
`EveryCallEnds` assumes strong fairness for the two flocks: the code polls them (flock.Lock,
TryRLockContext every 50 ms), so a lock that is free again and again is got sooner or later. Calls
themselves, crashes and exits of guests are never fair. `EveryPullEnds` assumes weak fairness of each
pull's own steps, its download included: a request to the registry ends, well or not. A registry that
trickles data forever would hold a pull forever, as nothing in the code bounds it.

## What is proved

Every theorem holds for all sets of CLIs, pids, names, devices and so on, and for all bounds. PROJECT.json
lists them with the property of a run that each of them states. The order below is that of the program:
the VM, the host, the disks, the images.

### VMLifecycle

Three modules build on each other, each with an inductive invariant that contains the one before.

`VMLifecycleProofs`, for any faults: `TypeCorrect` and `TypeSafety` (`Spec => []TypeInv`, `[]TypeOK`; `TypeInv`
adds to the types that every step that uses the local record has one), `GateCorrect` (`Spec => []GateInv`) and
`DisplaySafety` (`Spec => []GatedDisplay`): no guest of a CNI VM serves its display without a password.

`GatedDisplay` alone is not inductive: a state in which two CLIs work on the VM, or a record changes
mode, or a dir is rebuilt under an old QEMU, satisfies it and leads out of it. `GateInv` adds

* `Mutex`: whoever is inside an operation holds the flock;
* `Homed`: without a VM dir there is neither a record nor a QEMU that names it;
* `FreshDir`: while a dir is being made there is no record and no QEMU that names it;
* `SameMode`: a CLI that works on a committed record has its network mode;
* `Gated`: between requireCNIVNCPassword and exec the password is still there;
* `GatedProcesses`: `GatedDisplay` for front processes and booting daemons as well.

Each step is judged by what it does to the VM (`Quiet`, `Shrinks`) and by the obligations of the place
its process goes to (`Control`), and `GotoGate`, `ReturnGate` turn that into `GateInv'`. The proof
uses two assumptions on the constants: `NoneAssumption` (`None` is neither a
process nor a pid) and `RecordAssumption` (`None` is not a record). `ModeAssumption` and
`FaultAssumption` are stated for TLC and no proof cites them.

`OperationsAreBounded`, for any faults, is the safety half of `Returns`: the flock is held exactly while
an operation runs; `StepsLeft`, at most 27, is zero exactly outside one; every step of the CLI uses some
of it up, as does every step of the boot it waits for in c.Run, and nothing else ever adds to it. What is
left for fairness is that these steps are taken. `EndInv` adds to `GateInv` that a CLI in c.Run waits for
a front that is alive (`Awaited`), which is why a boot that can still fail or succeed is always there,
and which needs that every booting daemon has one front, its own (`Fronts`): it is killed with it, dies
with it, or wakes the CLI with it. The order of the steps is not the same for all operations: the
failures of create and run end in the kill that stop, rm and restore begin with.

`VMGuestProofs`, for any faults but `front`: `GuestCorrect` (`Spec => []GuestInv`), and from it `OneGuest`,
`OfflineImages`, `DisplayRecorded`, `RestoreKeepsGate`, and the action properties `StopMeansStopped` and
`LaunchServesDisplay`. `ScaffoldsFresh` follows from `GateInv` already and needs no assumption.

None of these is inductive. `OneGuest` is broken by an exec while a guest runs, and whether one runs is not
what exec looks at: it trusts what `Load` found before it wrote the record, and `Load` trusts the pid of
`vm.json` or a scan. `GuestInv` has two parts. `HostInv` is about the host and the record:

* `Paired`: a front process and its daemon live and die together and show the same display;
* `Sole`: there is one daemon; this is `OneGuest` extended to boots under way;
* `Tracked`: if the record's pid is alive, it is that daemon and nothing else is;
* `Described`: the record tells the display of every QEMU that serves the VM, booting ones included;
* `Kept`: where kills succeed no QEMU outlives its dir.

`At(p)` says what a CLI knows at each of its steps: that nothing serves the VM between the scan and exec
and while qemu-img works (`Stopped`), which of the two pids its child is and that record and local record agree
(`Booting`), that a display has its password by the time the launch goes on (`Serving`), what restore has to
relaunch (`Forced`), that the device is up (`Wired`). Every step of a QEMU, a kill, a crash or a reboot only
takes processes away or moves a boot on (`Thins`), and one lemma per position says that what `At` promises
survives that; one lemma per step of a CLI does the rest.

The exclusion of `front` is needed, and not for the prover's sake: with it `StopMeansStopped` is false
(the finding `window`), and by the same path `OneGuest`, `OfflineImages`, `DisplayRecorded`,
`GuestHasRecord` and `RestoreKeepsGate` are: `restore --force` takes the front for the guest, goes on to
the images under the live daemon and boots a second one. `GatedDisplay`, `ScaffoldsFresh`,
`NetServesGuest` and `LaunchServesDisplay` hold with `front` too (TLC; the first two by proof). Two
properties need more: `GuestHasRecord` is proved where kills succeed, since a dir may otherwise go under
its guest (Also reachable), and `NetServesGuest` where the network obeys, since an unquiesce that fails
is only a warning in the code.

`VMPromiseProofs` proves

* `ProxyIsGone`: `Spec => VncGoneAfterStop`, where no CLI is killed, kills succeed and `vm.json` is
  readable; `front`, `net` and `reboot` are allowed. `ProxyInv` says that a proxy is `lost` only for the
  CLI between its start and its pidfile, that there is none without a record and none at the steps that
  follow stopVNCProxy. Each of the three excluded faults makes the code forget a proxy, as the hazards
  list says.
* `PromiseKept`: `Spec => KeepsPromise`, where kills succeed and there is no `front`. `GuestInv` tells
  which action of `VMPromise` a step is: Commit creates, the end of a boot boots, set_password unlocks,
  Remove removes. All others leave record, mode and display alone and the guest is either as it was or
  gone (`Fades`). The step that needs `GuestInv` most is Remove: there must be no guest left when the
  record goes.

### HostSweep

`HostSweepProofs`, for any faults: `SweepCorrect` (`Spec => []SweepInv`), and from it `TypeOK`,
`InUseDevicesStay`, `InFlightDirsStay`, `LeakStaysReclaimable` and `GcReclaims`; the second and the last
are action properties. `InUseDevicesStay` says of every step that takes a device in use which step it is:
the host's, or the teardown in the cleanup of the very run whose launch failed. A guest without a record
has no device to look for, so `SweepInv` also says that there is none.

`GcReclaims` speaks of the last step of a sweep, and needs that what the sweep read many steps before is
still true; so does `InUseDevicesStay`, of a device that was in use when the sweep began. `SweepInv` says

* `Locking`, `GcExclusive`: which flocks each position holds, and that a sweep excludes provisioning;
* `Owning`, `OneRecord`: a device belongs to one record or to the one CLI that provisions it;
* `Working`: what an operation knows of the record, dir, device and guest of the VM it has locked;
* `Marking`, `Leaks`: the marker, or a record, is there before a device is and until it is gone;
* `Surveyed`: every dir is in the list of a sweep, none of its candidates is recorded, and without an
  error every device without a record is a candidate.

`HoldsVM` and its like turn the flocks into facts (no other operation and no sweep is at this VM), and then each
step disturbs only its own VM. Used: `NoneAssumption` and `OpsAssumption`.

Two more theorems say why nobody waits forever, for any number of CLIs and VMs:

* `NoCircle`: `Spec => []NoCircularWait`. Who waits for a flock waits for a CLI that may go on, or that
  waits for a later name. It follows from `WaitInv` (`WaitCorrect`), which adds `Holding` to `SweepInv`:
  a CLI holds only flocks of its call, takes them in the order of their names, and a sweep takes them all
  before it looks at anything.
* `CallsAdvance`, the safety half of `EveryCallEnds`: each step of a CLI inside a call brings the call
  nearer to its end (`Nearer`: a later position, or less to do at this one), and no step of another, of a
  guest or of the host leads it away (`Stays`). No neighbour can make a call start over.

### Snapshots

`SnapshotsProofs`, for any number of VMs and disks and any faults: `SnapCorrect` (`Spec => []SnapInv`),
and from it `TypeOK` and `RecordedEverywhere`. The latter would be lost by a rollback that deletes a
listed tag, and kept by chance if another image still had it: `SnapInv` (`Sound`) follows a snapshot over
the disks, which of them carry the tag by now, that the tag is not a listed one, and which disks a
rollback may still rely on. The lemmas on sequences (`OldestPoint`, `WithoutPoint`, `AppendPoint`) say
what qemu-img does to the list of one image.

`SnapshotIsAtomic` is the refinement, `Spec => SnapshotsAtomic`, for any number of VMs, clones included,
of disks, tags and writes and for any faults. A step on another VM is invisible (`Apart`, from
`Untouched`); the steps on one VM follow. `HalfInv` adds to `SnapInv` (`Half`) that the images a snapshot
has tagged carry its tag as the newest point, with what they hold now, and that the disks a restore has
passed hold what the tag saved. The first is what lets a rollback that fails, a crash or a leftover of an
earlier one spoil that one tag only: `AppendHolds` and `WithoutHolds` say that adding and deleting one
tag leaves what all others hold alone, `TagDiskKept`, `UndoKept` and `EndsKept` that a step spoils no tag
but its own, and, without faults, none (`LeavesSpoils`). Then a snapshot happens at `Save`, a restore at
the `Apply` of the first disk, `Done` or `Break` at a later one, and everything else is a `Spoil` or
invisible. The state of `AtomicSnapshot` is a constant set, and `ContentsAssumption` says that `None` is
not a content of the disks.

### NBDLease

`NBDLeaseProofs`, for any faults: `InjectCorrect` (`Spec => []InjectInv`), and from it `TypeOK`,
`SavedMeansInjected`, `NoServerLeft`, the action properties `ConnectsFreeDevice` and
`LeaseHolderAdvances` (`LeaseIsGivenUp`), and `LeaseInside` (exactly the CLI inside InjectConfig holds
the lease).

The hard part is that commands outlive their CLI while the lease does not, so holding the lease does not mean
that nobody touches the devices. `InjectInv` says

* `Calling`: the lease, and that each image belongs to one call;
* `Searching`: a device that was not named in the process table read under the lease, and that the loop has
  not tried, has neither a server nor a command on its way, for later commands are the holder's own;
* `Using`: the device in use serves the call's image, and no command but the call's own is on its way to it;
* `Patching`: without an error the identity is in the image, or about to be flushed into it;
* `Releasing`: where the call may end, its server is gone or withstood its kill.

Used: `CountAssumption` and `NoneAssumption`.

### DiskLayout

`DiskLayoutProofs`, for any number of VMs, blobs, sizes, identities and lists of disks: `LayoutCorrect`
(`Spec => []LayoutInv`) and `DataCorrect` (`Spec => []DataInv`), and from them all seven properties of
the run `disks`.

A clone is right because of what it read from its source's record many steps before, and that record was
right because of the job that wrote it. `LayoutInv` therefore says of every record what holds of the files
beside it (`Based`, `Sized`, `Chained`; a record of an older build may be silent about base and size), that no
identity was drawn twice (`Distinct`), and of the job

* `Planned`: what it took from its source: its blob, if the store has had it all along, and its size;
* `Resolved`: a base it was given has no digest in the record, one the reference named has its own;
* `Built`: the overlay and its size, as far as the job has come;
* `Identified`: its OpenCore overlay is in its own dir, on the shared image, with an identity of its own.

`OpenCoreBase` is the heart of `ChainsStayOwn`: whatever record a clone meets, cloneOpenCoreBase returns
the shared image. The source stays because its flock is held; that is the one guard of `RM` the proof
needs.

`DataInv` adds the data disks: a VM's files are those its record lists, a guest had them all, and a job
copies before it adds. That an added disk never empties a copied one is a fact about the names,
`ParseGives`: for every command line and every list of names in use, whatever parseDataDisks does not
refuse is `AsAsked`. Its loop is a fold, and the library states induction for predicates, which the
provers do not instantiate; `LeastNumber` derives the least number of a set of naturals from the
library's `WFMin`, and `Induction` follows for sets. With it `FoldExists` shows that the fold's recursive
function exists, `NamedSteps` unrolls it, and `Handed` is what n turns have handed out. A free number is
always in sight, and the last one is at most eight, because at most `MaxDataDisks` names are taken
(`FreeNumber`, `RangeBound`). Used: all assumptions but `IdentAssumption`, which is for TLC, lest a job
has no identity left to draw.

### ImagePull

`ImagePullProofs` proves, for every set of CLIs, layers, attempts and faults:

* `StoreWholeHolds`: `Spec => []StoreWhole`, the store holds a whole layer or nothing;
* `ServedHolds`: `Spec => PulledIsServed`, what a pull stores the registry named during that call.

Both follow from `PullCorrect`, `Spec => []PullInv`. `StoreWhole` alone is not inductive, as Import
stores whatever its file holds. `PullInv` says what every position of a call promises (`Sound`): a
download starts from an empty file; after it, a digest that matches means that the file is the wanted
layer; what may be imported is flushed and was named during the call. It also says that every stored
image is durable, without which a power failure could tear it. A step inside a call only has to keep
the promise of the position it leads to (`LocalStep`). The one assumption used is `ContentAssumption`:
a torn or empty file is not a layer.

`PullsAreBounded` is the safety half of `EveryPullEnds`: a pull takes at most five steps in each of its
attempts, each step of its own uses one up, and neither gc, which may take its file away, nor a push, a
reboot or another pull gives it more to do; and that a call which ended without being killed left no temp
file. It uses `AttemptAssumption`.

### Only model-checked

* Liveness: `Returns`, `EveryCallEnds`, `EveryPullEnds`. Fairness and ENABLED are out of the prover's
  reach. What is proved of each is its safety half, `OperationsAreBounded`, `CallsAdvance` with
  `NoCircle`, and `PullsAreBounded`: steps only lead towards the end, and nothing leads back. What TLC
  adds is that such a step is always possible and that fairness has it taken.
* The properties that are violated. Of `RestoreReturnsToSnapshot`, `SnapshotIsAtomic` says what is left:
  the whole VM returns to one state, and for a tag that was never spoiled to that of the snapshot.

## Findings

Two runs expect a violation, each of a sentence in a doc or comment; PROJECT.json quotes them.

* `window`: a CLI killed inside c.Run leaves QEMU's front process. The scan of the next stop or rm adopts
  it before it has forked; then the daemon comes up and the front exits by itself, the kill finds nothing
  to do, and success is reported over a running guest. (If the front is killed instead, the daemon never
  comes up.) What else breaks on this path is listed with the proofs of `VMLifecycle`.
* `snap_clone`: a clone's copied images carry tags its record does not list; a snapshot of the clone
  under such a tag makes a second internal snapshot of that name, and restore picks the older one. The
  same happens when a snapshot is killed before its record write and then repeated: the check for a
  duplicate reads the record, not the images.

### Also reachable

These states the models reach and no run asserts against:

* With the fault `kill`, a run whose cleanup cannot kill QEMU still removes its dir (lifecycle.go:338).
  gc finds dirs, netns and TAPs, so the guest stays unreachable, against cli.md:39, "`gc` can reclaim
  unowned residue". `VMLifecycle` marks such a QEMU `orphan`.
* With the fault `crash`, a CLI killed between starting the VNC proxy and writing its pidfile leaves a
  proxy that holds the port through stop and rm (vnc.go:97; lifecycle.go:85 says "gone with the qemu it
  belonged to"). The run `live` therefore checks `VncGoneAfterStop` without it.
* With the fault `undo`, a snapshot fails on one image and the SnapDelete of its rollback on another,
  which is only logged (snapshot.go:135): the tag stays there and no record lists it, against the comment
  at 129, "a partial failure never leaves an untracked snapshot point on some disks". Ctrl-C does the
  same, since it ends the context of the rollback too, and a crash or a record that cannot be written
  leave such tags as well. `snap_atomic` is about rollbacks that succeed; `snap_faults` says what still
  holds when they do not.
* The cleanup of a launch that failed before its pid was known tears the network down while the guest
  still runs, and kills it right after.
* A mount that was killed with its caller's context, whose CLI died, or whose umount failed stays, and
  its NBD device is out of the pool until the host reboots (inject.go:102, 142).
* gc may unlink the temp file of a pull that stalled for an hour; the pull then downloads to the end and
  fails at import, without another attempt.

## Not modelled

The vendored cocoon providers, image store and registry client (used as steps that succeed or fail);
query commands (they read without a lock and change nothing); QEMU arguments beyond the display and the
disk ports; the strings of an SMBIOS identity; the HMP session below the outcome of a command; inherited
flags of clone that only reach the command line; scripts. In `Snapshots`, numeric tags that qemu-img
takes for ids, and a qemu-img that outlives its CLI. In `DiskLayout`, an explicit `--storage ""` of a
clone (it resets to the size of the image, clone.go:78) and a reference that is also the name of a file
in the working directory (utils.go:305). In `NBDLease`, an umount that outlives its CLI and a qemu-nbd
that dies by itself between connect and umount. In `HostSweep`, kills that fail (`VMLifecycle` has them).
The hazards with a note in PROJECT.json are the ones no property covers.

## Plan

Every safety invariant, action property and refinement that a run checks is proved, and of every liveness
property the half that is a safety property. The hypotheses that limit this are faults that break the
property, as a run, a finding or a hazard shows: no `front` in `VMGuestProofs`; kills that succeed in
`GuestIsRecorded` and `PromiseKept`; `net` excluded in `NetIsServed`; and no crash, no failing kill and
no unreadable `vm.json` in `ProxyIsGone`. What could still be modelled is listed under Not modelled; the
first candidate is the HMP session.
