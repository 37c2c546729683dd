------------------------------ MODULE NBDLease ------------------------------
(***************************************************************************)
(* Writing a VM's identity into its OpenCore image (qemu/inject.go): the   *)
(* image is served as an NBD device, its EFI partition mounted, patched    *)
(* and unmounted, and the server disconnected.  Devices and the process    *)
(* table belong to the host, so one flock, the NBD lease, serialises the   *)
(* transactions of all CLIs.  The lease is free as soon as a CLI dies,     *)
(* while its qemu-nbd and mount processes live on.                         *)
(*                                                                         *)
(* A CLI holds the flock of its VM for the whole call, so two calls never  *)
(* share an image; the callers (create and its cleanup, rm, gc) are        *)
(* modelled as far as they touch qemu-nbd.                                 *)
(***************************************************************************)
EXTENDS Naturals, FiniteSets

CONSTANTS
    Proc,      \* CLI processes
    Image,     \* OpenCore overlays, one per VM dir
    NbdCount,  \* nbdDeviceCount
    Faults,    \* "crash", "cancel", "kill", "io"
    None

ASSUME CountAssumption == NbdCount \in Nat \ {0}
ASSUME FaultAssumption == Faults \subseteq {"crash", "cancel", "kill", "io"}
ASSUME NoneAssumption == None \notin Proc \cup Image

Device == 0 .. NbdCount - 1

VARIABLES
    lease,    \* holder of /run/lock/cocoon-macos-nbd.lock
    child,    \* processes on their way: qemu-nbd connecting, disconnecting or
              \* exiting, and mount; they outlive the CLI that started them
    server,   \* per device, the image its qemu-nbd serves
    mount,    \* per device, the image whose EFI partition is mounted from it
    dirty,    \* devices whose mount holds a patched config.plist
    patched,  \* images that carry the new identity
    dir,      \* images whose VM dir exists
    saved,    \* images whose VM has a record
    stuck,    \* history: images some qemu-nbd of which withstood its kill
    (* locals of each CLI *)
    pc,
    img,      \* the image it works on
    at,       \* the device of its loop
    seen,     \* the devices named in the command lines it has read
    ended,    \* its context is cancelled
    err,      \* an error so far
    cmdErr    \* commandErr of disconnect

host == <<child, server, mount, dirty>>
files == <<patched, dir, saved>>
locals == <<img, at, seen, ended, err, cmdErr>>
vars == <<lease, host, files, stuck, pc, locals>>

Kinds == {"connect", "disconnect", "exit", "mount"}
PC == {"idle", "lock", "scan", "probe", "connect", "connecting", "retry", "unread",
       "part", "mount", "mounting", "patch", "umount", "disconnect", "disconnecting",
       "wait", "kill", "final", "commit", "cleanup"}

Goto(p, l) == pc' = [pc EXCEPT ![p] = l]
Proceeding(p, k) == [kind |-> k, img |-> img[p], dev |-> at[p]]
Start(p, k) == child' = child \cup {Proceeding(p, k)}
Fault(f) == f \in Faults

(* isFileHeld: a qemu-nbd with the image on its command line.                *)
Held(i) ==
    \/ \E d \in Device : server[d] = i
    \/ \E c \in child : c.img = i /\ c.kind \in {"connect", "exit"}

(* /sys/block/nbdN/pid: the kernel keeps it while the device has a server or *)
(* is open.                                                                  *)
SysfsPid(d) == server[d] # None \/ mount[d] # None

(* processReferencesBlockDevice over /proc/*/cmdline.                        *)
Referenced == {d \in Device : server[d] # None} \cup {c.dev : c \in child}

(* TerminateByCmdline("qemu-nbd", path): every match is dead, or some kill   *)
(* fails and the image is stuck.                                             *)
Terminated(i) ==
    /\ server' = [d \in Device |-> IF server[d] = i THEN None ELSE server[d]]
    /\ child' = {c \in child : c.img # i \/ c.kind \notin {"connect", "exit"}}
    /\ stuck' = stuck \ {i}
Unkillable(i) ==
    /\ Fault("kill") /\ Held(i)
    /\ stuck' = stuck \cup {i}
    /\ UNCHANGED <<server, child>>

Idle(p) ==
    /\ Goto(p, "idle")
    /\ img' = [img EXCEPT ![p] = None]
    /\ at' = [at EXCEPT ![p] = 0]
    /\ seen' = [seen EXCEPT ![p] = {}]
    /\ ended' = [ended EXCEPT ![p] = FALSE]
    /\ err' = [err EXCEPT ![p] = FALSE]
    /\ cmdErr' = [cmdErr EXCEPT ![p] = FALSE]

(* InjectConfig returns: the deferred Unlock of the lease, then either the   *)
(* rest of create or its cleanup.                                            *)
Leave(p, failed) ==
    /\ lease' = IF lease = p THEN None ELSE lease
    /\ Goto(p, IF failed THEN "cleanup" ELSE "commit")

Init ==
    /\ lease = None /\ child = {} /\ dirty = {}
    /\ server = [d \in Device |-> None] /\ mount = [d \in Device |-> None]
    /\ patched = {} /\ dir = {} /\ saved = {} /\ stuck = {}
    /\ pc = [p \in Proc |-> "idle"] /\ img = [p \in Proc |-> None]
    /\ at = [p \in Proc |-> 0] /\ seen = [p \in Proc |-> {}]
    /\ ended = [p \in Proc |-> FALSE]
    /\ err = [p \in Proc |-> FALSE] /\ cmdErr = [p \in Proc |-> FALSE]

-----------------------------------------------------------------------------
(* The callers                                                               *)

Unlocked(i) == \A q \in Proc : img[q] # i

(* create --random-smbios up to the baked OpenCore overlay: a VM dir without *)
(* a record is reset, which kills its qemu-nbd or refuses.                   *)
Create(p, i) ==
    /\ pc[p] = "idle" /\ Unlocked(i) /\ i \notin saved
    /\ \/ /\ i \notin dir
          /\ UNCHANGED <<server, child, stuck>>
       \/ i \in dir /\ Terminated(i)
    /\ dir' = dir \cup {i} /\ patched' = patched \ {i}
    /\ img' = [img EXCEPT ![p] = i]
    /\ Goto(p, "lock")
    /\ UNCHANGED <<lease, mount, dirty, saved, at, seen, ended, err, cmdErr>>

(* The record is saved, the VM ready to start.                               *)
Commit(p) ==
    /\ pc[p] = "commit"
    /\ saved' = saved \cup {img[p]}
    /\ Idle(p)
    /\ UNCHANGED <<lease, host, patched, dir, stuck>>

(* cleanupFailedVM removes the VM dir whether or not its helpers died.       *)
Cleanup(p) ==
    /\ pc[p] = "cleanup"
    /\ Terminated(img[p]) \/ Unkillable(img[p])
    /\ dir' = dir \ {img[p]}
    /\ Idle(p)
    /\ UNCHANGED <<lease, mount, dirty, patched, saved>>

(* gc resets a dir no create works on, rm one that has no readable record.   *)
Collect_committed(i) ==
    /\ i \in dir /\ Unlocked(i)
    /\ \/ Terminated(i) /\ dir' = dir \ {i}
       \/ Unkillable(i) /\ UNCHANGED dir
    /\ UNCHANGED <<lease, mount, dirty, patched, saved, pc, locals>>
Collect(i) ==
    /\ i \in dir \ saved /\ Unlocked(i)
    /\ \/ Terminated(i) /\ dir' = dir \ {i}
       \/ Unkillable(i) /\ UNCHANGED dir
    /\ UNCHANGED <<lease, mount, dirty, patched, saved, pc, locals>>

(* rm of a VM with a record.                                                 *)
RM(i) ==
    /\ i \in saved /\ Unlocked(i)
    /\ saved' = saved \ {i} /\ dir' = dir \ {i}
    /\ UNCHANGED <<lease, host, patched, stuck, pc, locals>>

-----------------------------------------------------------------------------
(* connectFreeNBD                                                            *)

(* withNBDLease; l.Lock gives up with the context.                           *)
Lock(p) ==
    /\ pc[p] = "lock"
    /\ \/ lease = None /\ lease' = p /\ Goto(p, "scan")
       \/ ended[p] /\ Goto(p, "cleanup") /\ UNCHANGED lease
    /\ UNCHANGED <<host, files, stuck, locals>>

(* readProcCmdlines, once before the loop.                                   *)
Scan(p) ==
    /\ pc[p] = "scan"
    /\ \/ /\ seen' = [seen EXCEPT ![p] = Referenced]
          /\ Goto(p, "probe") /\ UNCHANGED lease
       \/ Fault("io") /\ Leave(p, TRUE) /\ UNCHANGED seen
    /\ UNCHANGED <<host, files, stuck, img, at, ended, err, cmdErr>>

(* One turn of the loop over the devices; none left is an error.             *)
Probe_sysfsOnly(p) ==
    /\ pc[p] = "probe"
    /\ IF at[p] \notin Device
       THEN Leave(p, TRUE) /\ UNCHANGED at
       ELSE /\ UNCHANGED lease
            /\ IF SysfsPid(at[p])
               THEN at' = [at EXCEPT ![p] = @ + 1] /\ UNCHANGED pc
               ELSE Goto(p, "connect") /\ UNCHANGED at
    /\ UNCHANGED <<host, files, stuck, img, seen, ended, err, cmdErr>>
Probe(p) ==
    /\ pc[p] = "probe"
    /\ IF at[p] \notin Device
       THEN Leave(p, TRUE) /\ UNCHANGED at
       ELSE /\ UNCHANGED lease
            /\ IF SysfsPid(at[p]) \/ at[p] \in seen[p]
               THEN at' = [at EXCEPT ![p] = @ + 1] /\ UNCHANGED pc
               ELSE Goto(p, "connect") /\ UNCHANGED at
    /\ UNCHANGED <<host, files, stuck, img, seen, ended, err, cmdErr>>

(* qemu-nbd --connect is started, unless the context has ended.              *)
Connect(p) ==
    /\ pc[p] = "connect"
    /\ IF ended[p] THEN Goto(p, "retry") /\ UNCHANGED child
                   ELSE Goto(p, "connecting") /\ Start(p, "connect")
    /\ UNCHANGED <<lease, server, mount, dirty, files, stuck, locals>>

(* It returns, or is killed with the context: the server it has forked may   *)
(* still come up.  A pidfile that cannot be read fails the call.             *)
Connecting(p) ==
    /\ pc[p] = "connecting"
    /\ LET c == Proceeding(p, "connect") IN
       \/ /\ c \notin child
          /\ \/ server[at[p]] = img[p] /\ Goto(p, "part")
             \/ server[at[p]] = img[p] /\ Fault("io") /\ Goto(p, "unread")
             \/ server[at[p]] # img[p] /\ Goto(p, "retry")
          /\ UNCHANGED child
       \/ /\ c \in child /\ ended[p]
          /\ child' \in {child, child \ {c}}
          /\ Goto(p, "retry")
    /\ UNCHANGED <<lease, server, mount, dirty, files, stuck, locals>>

(* A failed connect is cleaned up before the next device is tried, an ended  *)
(* context ends the loop.                                                    *)
Retry_sameDevice(p) ==
    /\ pc[p] = "retry"
    /\ Terminated(img[p]) \/ Unkillable(img[p])
    /\ IF ended[p] THEN Leave(p, TRUE) ELSE Goto(p, "probe") /\ UNCHANGED lease
    /\ UNCHANGED <<mount, dirty, files, locals>>
Retry(p) ==
    /\ pc[p] = "retry"
    /\ Terminated(img[p]) \/ Unkillable(img[p])
    /\ IF ended[p]
       THEN Leave(p, TRUE) /\ UNCHANGED at
       ELSE Goto(p, "probe") /\ at' = [at EXCEPT ![p] = @ + 1] /\ UNCHANGED lease
    /\ UNCHANGED <<mount, dirty, files, img, seen, ended, err, cmdErr>>

(* The pidfile was unreadable: disconnect, kill, fail.                       *)
Unread(p) ==
    /\ pc[p] = "unread"
    /\ Terminated(img[p]) \/ Unkillable(img[p])
    /\ Leave(p, TRUE)
    /\ UNCHANGED <<mount, dirty, files, locals>>

-----------------------------------------------------------------------------
(* The mount and the patch                                                   *)

Fail(p, l) == Goto(p, l) /\ err' = [err EXCEPT ![p] = TRUE]

(* waitForPart: the partition shows up, or the wait times out or is ended.   *)
WaitForPart(p) ==
    /\ pc[p] = "part"
    /\ \/ ~ended[p] /\ Goto(p, "mount") /\ UNCHANGED err
       \/ Fail(p, "disconnect")
    /\ UNCHANGED <<lease, host, files, stuck, img, at, seen, ended, cmdErr>>

Mount(p) ==
    /\ pc[p] = "mount"
    /\ IF ended[p] THEN Fail(p, "disconnect") /\ UNCHANGED child
                   ELSE Goto(p, "mounting") /\ Start(p, "mount") /\ UNCHANGED err
    /\ UNCHANGED <<lease, server, mount, dirty, files, stuck, img, at, seen, ended, cmdErr>>

(* mount returns.  One killed with the context is taken to have failed, also *)
(* when the kernel had already mounted: cleanupNBDMount then removes only    *)
(* the directory and the mount stays.                                        *)
Mounting(p) ==
    /\ pc[p] = "mounting"
    /\ LET c == Proceeding(p, "mount") IN
       \/ /\ c \notin child /\ UNCHANGED child
          /\ \/ mount[at[p]] = img[p] /\ Goto(p, "patch") /\ UNCHANGED err
             \/ mount[at[p]] # img[p] /\ Fail(p, "disconnect")
             \/ ended[p] /\ Fail(p, "disconnect")
       \/ /\ c \in child /\ ended[p]
          /\ child' = child \ {c}
          /\ Fail(p, "disconnect")
    /\ UNCHANGED <<lease, server, mount, dirty, files, stuck, img, at, seen, ended, cmdErr>>

(* patchPlist writes the identity into the mounted file system.              *)
Patch(p) ==
    /\ pc[p] = "patch"
    /\ \/ dirty' = dirty \cup {at[p]} /\ Goto(p, "umount") /\ UNCHANGED err
       \/ Fault("io") /\ Fail(p, "umount") /\ UNCHANGED dirty
    /\ UNCHANGED <<lease, child, server, mount, files, stuck, img, at, seen, ended, cmdErr>>

(* cleanupNBDMount: umount flushes what was written, if the device is still  *)
(* served; one that fails leaves the mount behind.                           *)
Umount(p) ==
    /\ pc[p] = "umount"
    /\ \/ /\ mount' = [mount EXCEPT ![at[p]] = None]
          /\ dirty' = dirty \ {at[p]}
          /\ patched' = IF at[p] \in dirty /\ server[at[p]] = img[p]
                        THEN patched \cup {img[p]} ELSE patched
          /\ Goto(p, "disconnect") /\ UNCHANGED err
       \/ Fault("io") /\ Fail(p, "disconnect") /\ UNCHANGED <<mount, dirty, patched>>
    /\ UNCHANGED <<lease, child, server, dir, saved, stuck, img, at, seen, ended, cmdErr>>

-----------------------------------------------------------------------------
(* disconnect, detached from the caller's cancellation                       *)

Disconnect_cancellable(p) ==
    /\ pc[p] = "disconnect"
    /\ IF ended[p]
       THEN Leave(p, TRUE) /\ UNCHANGED child
       ELSE Goto(p, "disconnecting") /\ Start(p, "disconnect") /\ UNCHANGED lease
    /\ UNCHANGED <<server, mount, dirty, files, stuck, locals>>
Disconnect(p) ==
    /\ pc[p] = "disconnect"
    /\ Goto(p, "disconnecting") /\ Start(p, "disconnect")
    /\ UNCHANGED <<lease, server, mount, dirty, files, stuck, locals>>

(* The command returns or is killed at its timeout; either may leave the     *)
(* server where it is, which commandErr records.                             *)
Disconnecting(p) ==
    /\ pc[p] = "disconnecting"
    /\ child' = child \ {Proceeding(p, "disconnect")}
    /\ cmdErr' = [cmdErr EXCEPT ![p] = server[at[p]] # None]
    /\ Goto(p, "wait")
    /\ UNCHANGED <<lease, server, mount, dirty, files, stuck, img, at, seen, ended, err>>

(* WaitFor the image to be let go, for ten seconds.                          *)
WaitFree(p) ==
    /\ pc[p] = "wait"
    /\ \/ ~Held(img[p]) /\ Goto(p, "final") /\ UNCHANGED cmdErr
       \/ Held(img[p]) /\ Goto(p, "kill") /\ cmdErr' = [cmdErr EXCEPT ![p] = TRUE]
    /\ UNCHANGED <<lease, host, files, stuck, img, at, seen, ended, err>>

(* TerminateProcess on the pid of the pidfile and then on every match.       *)
KillServer(p) ==
    /\ pc[p] = "kill"
    /\ Terminated(img[p]) \/ Unkillable(img[p])
    /\ Goto(p, "final")
    /\ UNCHANGED <<lease, mount, dirty, files, locals>>

(* The last isFileHeld decides: commandErr is dropped when the image is free.*)
Final_dropsErr(p) ==
    /\ pc[p] = "final"
    /\ Leave(p, Held(img[p]) /\ cmdErr[p])
    /\ UNCHANGED <<host, files, stuck, locals>>
Final(p) ==
    /\ pc[p] = "final"
    /\ Leave(p, err[p] \/ (Held(img[p]) /\ cmdErr[p]))
    /\ UNCHANGED <<host, files, stuck, locals>>

-----------------------------------------------------------------------------
(* Processes on their way                                                    *)

(* qemu-nbd --connect: the kernel refuses a device that is taken, the image  *)
(* lock an image that is open; it may fail for other reasons.                *)
ConnectEnds(c) ==
    /\ c.kind = "connect"
    /\ child' = child \ {c}
    /\ \/ server[c.dev] = None /\ mount[c.dev] = None
          /\ server' = [server EXCEPT ![c.dev] = c.img]
       \/ UNCHANGED server
    /\ UNCHANGED <<lease, mount, dirty, files, stuck, pc, locals>>

(* qemu-nbd --disconnect: whatever serves the device lets it go and exits    *)
(* some time later.                                                          *)
DisconnectEnds(c) ==
    /\ c.kind = "disconnect"
    /\ \/ /\ server[c.dev] # None
          /\ server' = [server EXCEPT ![c.dev] = None]
          /\ child' = (child \ {c}) \cup {[kind |-> "exit", img |-> server[c.dev], dev |-> c.dev]}
       \/ child' = child \ {c} /\ UNCHANGED server
    /\ UNCHANGED <<lease, mount, dirty, files, stuck, pc, locals>>

MountEnds(c) ==
    /\ c.kind = "mount"
    /\ child' = child \ {c}
    /\ \/ server[c.dev] # None /\ mount[c.dev] = None
          /\ mount' = [mount EXCEPT ![c.dev] = server[c.dev]]
       \/ UNCHANGED mount
    /\ UNCHANGED <<lease, server, dirty, files, stuck, pc, locals>>

ExitEnds(c) ==
    /\ c.kind = "exit"
    /\ child' = child \ {c}
    /\ UNCHANGED <<lease, server, mount, dirty, files, stuck, pc, locals>>

ChildEnds(c) == ConnectEnds(c) \/ DisconnectEnds(c) \/ MountEnds(c) \/ ExitEnds(c)

(* Ctrl-C.                                                                   *)
Interrupt(p) ==
    /\ Fault("cancel") /\ pc[p] # "idle" /\ ~ended[p]
    /\ ended' = [ended EXCEPT ![p] = TRUE]
    /\ UNCHANGED <<lease, host, files, stuck, pc, img, at, seen, err, cmdErr>>

(* The CLI is killed: its flocks are free at once, its children live on.     *)
Crash(p) ==
    /\ Fault("crash") /\ pc[p] # "idle"
    /\ lease' = IF lease = p THEN None ELSE lease
    /\ Idle(p)
    /\ UNCHANGED <<host, files, stuck>>

-----------------------------------------------------------------------------
Step(p) ==
    \/ Commit(p) \/ Cleanup(p)
    \/ Lock(p) \/ Scan(p) \/ Probe(p) \/ Connect(p) \/ Connecting(p) \/ Retry(p) \/ Unread(p)
    \/ WaitForPart(p) \/ Mount(p) \/ Mounting(p) \/ Patch(p) \/ Umount(p)
    \/ Disconnect(p) \/ Disconnecting(p) \/ WaitFree(p) \/ KillServer(p) \/ Final(p)

Children == [kind : Kinds, img : Image, dev : Device]

Next ==
    \/ \E p \in Proc : Step(p) \/ Interrupt(p) \/ Crash(p) \/ \E i \in Image : Create(p, i)
    \/ \E i \in Image : Collect(i) \/ RM(i)
    \/ \E c \in child : ChildEnds(c)

Spec == Init /\ [][Next]_vars

-----------------------------------------------------------------------------
(* Properties                                                                *)

(* Every variable keeps its type, and a record never outlives its VM dir     *)
(* (create, cleanupFailedVM, gc's resetIncompleteVMDir).                     *)
TypeOK ==
    /\ lease \in Proc \cup {None}
    /\ child \subseteq Children
    /\ server \in [Device -> Image \cup {None}] /\ mount \in [Device -> Image \cup {None}]
    /\ dirty \subseteq Device
    /\ patched \subseteq Image /\ dir \subseteq Image /\ saved \subseteq dir /\ stuck \subseteq Image
    /\ pc \in [Proc -> PC] /\ img \in [Proc -> Image \cup {None}]
    /\ at \in [Proc -> 0 .. NbdCount] /\ seen \in [Proc -> SUBSET Device]
    /\ ended \in [Proc -> BOOLEAN] /\ err \in [Proc -> BOOLEAN] /\ cmdErr \in [Proc -> BOOLEAN]

(* qemu-nbd --connect only ever goes to a device nobody uses: no server, no  *)
(* mount and no process on its way, of another CLI or of one that was killed *)
(* and whose lease is free (connectFreeNBD, processReferencesBlockDevice).   *)
InUse(d) == SysfsPid(d) \/ \E c \in child : c.dev = d
ConnectsFreeDevice ==
    [][\A c \in child' \ child : c.kind = "connect" => ~InUse(c.dev)]_vars

(* A VM gets its record only with its identity in the OpenCore image and     *)
(* with no qemu-nbd holding that image, which QEMU could not open otherwise  *)
(* (InjectConfig, disconnect; TestPatchPlist tests the patch alone).         *)
SavedMeansInjected ==
    \A i \in Image :
        i \in saved \/ (\E p \in Proc : pc[p] = "commit" /\ img[p] = i) => i \in patched /\ ~Held(i)

(* A call whose caller is interrupted, or that fails anywhere, takes its     *)
(* server down before it returns, and the server of a CLI that was killed    *)
(* dies with its VM dir at the latest, unless a kill failed (disconnect's    *)
(* context.WithoutCancel, the cleanups of connectFreeNBD,                    *)
(* resetIncompleteVMDir, reapStrayHelpers).                                  *)
Returned(i) == \E p \in Proc : img[p] = i /\ pc[p] \in {"commit", "cleanup"}
NoServerLeft == \A i \in Image : (i \notin dir \/ Returned(i)) /\ Held(i) => i \in stuck

(* The places of a transaction, by the steps left at its present device.     *)
Left == [scan |-> 15, probe |-> 14, connect |-> 13, connecting |-> 12, retry |-> 11, unread |-> 11,
         part |-> 9, mount |-> 8, mounting |-> 7, patch |-> 6, umount |-> 5,
         disconnect |-> 4, disconnecting |-> 3, wait |-> 2, kill |-> 1, final |-> 0]
Nearer(p) == at'[p] > at[p] \/ (at'[p] = at[p] /\ Left[pc'[p]] < Left[pc[p]])

(* The holder of the lease gives it up after a bounded number of its own     *)
(* steps, nothing others do sets it back, and a CLI outside InjectConfig     *)
(* holds none: a lease that stays would stop every other CLI, which wait     *)
(* without a timeout (withNBDLease, connectFreeNBD's loop, disconnect).      *)
LeaseHolderAdvances ==
    [][\A p \in Proc : lease = p =>
        /\ pc[p] \in DOMAIN Left
        /\ \/ lease' = None
           \/ lease' = p /\ Nearer(p)
           \/ ~Step(p) /\ UNCHANGED <<lease, pc[p], at[p]>>]_vars
=============================================================================
