---------------------------- MODULE VMLifecycle ----------------------------
(***************************************************************************)
(* The life of one VM name: every `cocoon-macos vm` operation on it, the   *)
(* QEMU processes it leaves behind, the VNC proxy of a CNI VM and the      *)
(* network device its record owns.                                         *)
(*                                                                         *)
(* An operation is a sequence of steps of one CLI process that holds the   *)
(* VM's flock (cmd/vm/utils.go, withVMLock).  QEMU daemonizes and outlives *)
(* the CLI, a CLI may be killed between any two steps, and the next CLI    *)
(* only sees what is on disk and in the process table.                     *)
(***************************************************************************)
EXTENDS Naturals, FiniteSets

CONSTANTS
    Proc,    \* CLI processes
    Pid,     \* process ids a QEMU of this VM may get
    Mode,    \* the --net modes in play
    Faults,  \* what the environment may do, see AllFaults
    None     \* "no process", "no pid", "no record"

(* "crash": a CLI is killed.  "reboot": the host restarts.  "kill": the     *)
(* TerminateProcess of a live process reports an error.  "net": quiesce and *)
(* unquiesce fail (the code only warns).  "corrupt": vm.json is unreadable. *)
(* "front": QEMU's short-lived front process passes for the daemon, because *)
(* a scan sees it before it forks or because it gets the pid the record     *)
(* still holds.                                                             *)
AllFaults == {"crash", "reboot", "kill", "net", "corrupt", "front"}

ASSUME ModeAssumption == Mode \subseteq {"user", "bridge", "cni"}
ASSUME FaultAssumption == Faults \subseteq AllFaults
ASSUME NoneAssumption == None \notin Proc \cup Pid

VARIABLES
    (* on disk *)
    lock,     \* the process holding .locks/<name>.lock, or None
    dir,      \* the VM dir exists
    rec,      \* vm.json, or None
    (* on the host *)
    vmm,      \* process table: the QEMU processes whose cmdline names this VM dir
    proxy,    \* the VNC proxy: "none", "listed" in its pidfile, or "lost"
    net,      \* the device of the record's VMID
    (* locals of each CLI process *)
    pc, op, r, pass, was, bad, child,
    out       \* how the last operation of each process ended

disk == <<dir, rec>>
host == <<vmm, proxy, net>>
locals == <<op, r, pass, was, bad, child>>
vars == <<lock, disk, host, pc, locals, out>>

Op == {"create", "run", "start", "stop", "rm", "snapshot", "restore", "clone"}
PC == {"idle", "load", "scaffold", "bake", "provision", "commit",
       "launch", "unproxy", "presave", "exec", "wait", "runfailed", "readpid", "setpass",
       "proxy", "proxypid", "abort", "postsave", "unquiesce",
       "kill", "killproxy", "quiesce", "stopsave", "image", "imgsave",
       "teardown", "reap", "remove"}

(* vnc: VNCDisp >= 0.  owned (TapOwned) and Netns follow from the mode.      *)
Record == [pid : Pid \cup {None}, vnc : BOOLEAN, passSet : BOOLEAN, mode : Mode]
ASSUME RecordAssumption == None \notin Record
owned(m) == m \in {"bridge", "cni"}
hasNetns(m) == m = "cni"

(* A QEMU boot is a front process that forks the daemon and waits for it to  *)
(* initialise; "up" is a running guest.  disp: no VNC, VNC without a         *)
(* password, password=on with none set yet, password set.  orphan: the VM    *)
(* dir was removed under it.                                                 *)
Dead == [phase |-> "dead", disp |-> "off", front |-> None, orphan |-> FALSE]
Display == {"off", "open", "locked", "set"}
VMM == [phase : {"dead", "front", "init", "doomed", "up"}, disp : Display,
        front : Pid \cup {None}, orphan : BOOLEAN]

Live == {q \in Pid : vmm[q].phase # "dead"}
Free == Pid \ Live
Owned == {q \in Live : ~vmm[q].orphan}
Guests == {q \in Pid : vmm[q].phase = "up"}

(* The pid names a live process with this VM's qemu.pid in its cmdline, and  *)
(* FindVMMByCmdline's scan for any such process.                             *)
isRunning(rc) == rc.pid \in Live
Scan_nothing == {}
Scan == Live

(* What the process table is after the processes of S are killed: the front  *)
(* exits when its daemon dies, a daemon that cannot report to its front      *)
(* exits instead of starting the guest.                                      *)
Killed(S) ==
    [q \in Pid |->
        IF q \in S \/ \E d \in S : vmm[d].phase = "init" /\ vmm[d].front = q
        THEN Dead
        ELSE IF vmm[q].phase = "init" /\ vmm[q].front \in S
        THEN [vmm[q] EXCEPT !.phase = "doomed", !.front = None]
        ELSE vmm[q]]

NoLocals(p) ==
    /\ op' = [op EXCEPT ![p] = "none"]
    /\ r' = [r EXCEPT ![p] = None]
    /\ pass' = [pass EXCEPT ![p] = FALSE]
    /\ was' = [was EXCEPT ![p] = "stopped"]
    /\ bad' = [bad EXCEPT ![p] = FALSE]
    /\ child' = [child EXCEPT ![p] = None]

Goto(p, l) == pc' = [pc EXCEPT ![p] = l] /\ UNCHANGED <<lock, out>>
Keep == UNCHANGED locals

(* The operation returns and the deferred Unlock runs.                       *)
Return_keepsLock(p, result) ==
    /\ pc' = [pc EXCEPT ![p] = "idle"]
    /\ out' = [out EXCEPT ![p] = result]
    /\ lock' = IF result = "err" THEN lock ELSE None
    /\ NoLocals(p)
Return(p, result) ==
    /\ pc' = [pc EXCEPT ![p] = "idle"]
    /\ out' = [out EXCEPT ![p] = result]
    /\ lock' = None
    /\ NoLocals(p)

Init ==
    /\ lock = None /\ dir = FALSE /\ rec = None
    /\ vmm = [q \in Pid |-> Dead] /\ proxy = "none" /\ net = "absent"
    /\ pc = [p \in Proc |-> "idle"] /\ op = [p \in Proc |-> "none"]
    /\ r = [p \in Proc |-> None] /\ pass = [p \in Proc |-> FALSE]
    /\ was = [p \in Proc |-> "stopped"] /\ bad = [p \in Proc |-> FALSE]
    /\ child = [p \in Proc |-> None] /\ out = [p \in Proc |-> "none"]

-----------------------------------------------------------------------------
(* Taking the lock, loading the record, reconciling it with the host.        *)

(* withVMLock: the flock is free again as soon as its holder dies.           *)
Acquire(p) ==
    /\ pc[p] = "idle" /\ lock = None
    /\ \E o \in Op :
        /\ op' = [op EXCEPT ![p] = o]
        /\ pc' = [pc EXCEPT ![p] = IF o \in {"create", "run"} THEN "scaffold" ELSE "load"]
    /\ lock' = p
    /\ out' = [out EXCEPT ![p] = "none"]
    /\ UNCHANGED <<disk, host, r, pass, was, bad, child>>

(* restore --force may relaunch without a password only a display that has   *)
(* none and stays on the loopback.                                           *)
NeedsPassword_cniOnly(rc) == rc.vnc /\ hasNetns(rc.mode)
NeedsPassword(rc) == rc.vnc /\ (rc.passSet \/ hasNetns(rc.mode))

(* What each operation does with a reconciled record rc.                     *)
Dispatch(p, rc, running) ==
    \/ /\ op[p] = "start" /\ running
       /\ Goto(p, IF hasNetns(rc.mode) /\ rc.vnc /\ proxy # "listed"
                  THEN "proxy" ELSE "unquiesce")
       /\ r' = [r EXCEPT ![p] = rc]
       /\ was' = [was EXCEPT ![p] = "running"]
       /\ UNCHANGED <<op, pass, bad, child>>
    \/ /\ op[p] = "start" /\ ~running
       /\ \E vnc, pw \in BOOLEAN :
            /\ r' = [r EXCEPT ![p] = [rc EXCEPT !.vnc = vnc]]
            /\ pass' = [pass EXCEPT ![p] = pw]
       /\ Goto(p, "launch")
       /\ UNCHANGED <<op, was, bad, child>>
    \/ /\ op[p] \in {"stop", "rm"}
       /\ r' = [r EXCEPT ![p] = rc]
       /\ Goto(p, "kill")
       /\ UNCHANGED <<op, pass, was, bad, child>>
    \/ /\ op[p] \in {"snapshot", "clone"} /\ running
       /\ Return(p, "err")
    \/ /\ op[p] \in {"snapshot", "clone", "restore"} /\ ~running
       /\ r' = [r EXCEPT ![p] = rc]
       /\ Goto(p, "image")
       /\ UNCHANGED <<op, pass, was, bad, child>>
    \/ /\ op[p] = "restore" /\ running
       /\ Return(p, "err")                                  \* no --force
    \/ /\ op[p] = "restore" /\ running                      \* --force
       /\ \E pw \in BOOLEAN :
            /\ pw \/ ~NeedsPassword(rc)
            /\ pass' = [pass EXCEPT ![p] = pw]
       /\ r' = [r EXCEPT ![p] = rc]
       /\ was' = [was EXCEPT ![p] = IF \E q \in Owned : vmm[q].disp \in {"locked", "set"}
                                    THEN "gated" ELSE "running"]
       /\ Goto(p, "kill")
       /\ UNCHANGED <<op, bad, child>>

(* loadRec and reconcileRunningQEMU.                                         *)
Load(p) ==
    /\ pc[p] = "load"
    /\ UNCHANGED <<dir, host>>
    /\ \/ /\ rec = None \/ "corrupt" \in Faults
          /\ UNCHANGED rec
          /\ IF op[p] = "rm" /\ dir
             THEN Goto(p, "reap") /\ Keep
             ELSE Return(p, IF op[p] = "rm" /\ ~dir THEN "ok" ELSE "err")
       \/ /\ rec # None /\ isRunning(rec)
          /\ UNCHANGED rec
          /\ Dispatch(p, rec, TRUE)
       \/ /\ rec # None /\ ~isRunning(rec) /\ Scan = {}
          /\ UNCHANGED rec
          /\ Dispatch(p, rec, FALSE)
       \/ /\ rec # None /\ ~isRunning(rec)
          /\ \E q \in Pid :
                /\ Scan = {q}
                /\ LET adopted == [rec EXCEPT !.pid = q] IN
                   /\ rec' = adopted
                   /\ Dispatch(p, adopted, TRUE)
       \/ /\ rec # None /\ ~isRunning(rec) /\ Scan # {}     \* >1 match, a failed scan or save
          /\ UNCHANGED rec
          /\ Return(p, "err")

-----------------------------------------------------------------------------
(* create and run: everything before the record exists.                      *)

(* scaffoldVM refuses a committed record; resetIncompleteVMDir refuses a     *)
(* stray dir a live QEMU still references and removes any other.             *)
Scaffold_unscanned(p) ==
    /\ pc[p] = "scaffold"
    /\ UNCHANGED <<rec, vmm, net>>
    /\ \/ /\ rec = None
          /\ dir' = FALSE
          /\ proxy' = IF dir /\ proxy = "listed" THEN "lost" ELSE proxy
          /\ Goto(p, "bake") /\ Keep
       \/ /\ UNCHANGED <<dir, proxy>>
          /\ Return(p, "err")
Scaffold(p) ==
    /\ pc[p] = "scaffold"
    /\ UNCHANGED <<rec, vmm, net>>
    /\ \/ /\ rec = None /\ (dir => Live = {})
          /\ dir' = FALSE
          /\ proxy' = IF dir /\ proxy = "listed" THEN "lost" ELSE proxy
          /\ Goto(p, "bake") /\ Keep
       \/ /\ UNCHANGED <<dir, proxy>>
          /\ Return(p, "err")

(* The dir, the overlay and the OVMF vars.  When baking or copying fails the *)
(* error return has already set the named result `dir` to "", so the         *)
(* deferred RemoveAll removes nothing.                                       *)
Bake(p) ==
    /\ pc[p] = "bake"
    /\ UNCHANGED <<rec, host>>
    /\ \/ dir' = TRUE /\ Goto(p, "provision") /\ Keep
       \/ dir' \in {dir, TRUE} /\ Return(p, "err")

(* Disks and OpenCore, then applyNet: a device for the fresh VMID.  Any      *)
(* failure returns `nil, err`, so the deferred cleanup gets no record.       *)
Provision_modeUnset(p) ==
    /\ pc[p] = "provision"
    /\ UNCHANGED <<disk, host, op, was, bad, child>>
    /\ \E vnc, pw \in BOOLEAN :
        /\ r' = [r EXCEPT ![p] = [pid |-> None, vnc |-> vnc, passSet |-> FALSE, mode |-> ""]]
        /\ pass' = [pass EXCEPT ![p] = pw]
    /\ Goto(p, "commit")
Provision(p) ==
    /\ pc[p] = "provision"
    /\ UNCHANGED <<disk, vmm, proxy>>
    /\ \/ /\ \E m \in Mode, vnc, pw \in BOOLEAN :
              /\ hasNetns(m) /\ vnc => pw
              /\ r' = [r EXCEPT ![p] = [pid |-> None, vnc |-> vnc, passSet |-> FALSE, mode |-> m]]
              /\ pass' = [pass EXCEPT ![p] = pw]
              /\ net' = IF owned(m) THEN "up" ELSE "absent"
          /\ Goto(p, "commit")
          /\ UNCHANGED <<op, was, bad, child>>
       \/ /\ net' = "absent"
          /\ Goto(p, "reap") /\ Keep

Commit(p) ==
    /\ pc[p] = "commit"
    /\ UNCHANGED <<dir, host>>
    /\ \/ /\ rec' = r[p]
          /\ IF op[p] = "run" THEN Goto(p, "launch") /\ Keep ELSE Return(p, "ok")
       \/ /\ UNCHANGED rec
          /\ Goto(p, "kill") /\ Keep

-----------------------------------------------------------------------------
(* launch                                                                    *)

(* A failed launch: run cleans the VM up, start and restore return the error.*)
LaunchFails(p) ==
    IF op[p] = "run" THEN Goto(p, "kill") /\ Keep ELSE Return(p, "err")

(* requireCNIVNCPassword, then recoverNet when Verify finds the device gone. *)
Launch_ungated(p) ==
    /\ pc[p] = "launch"
    /\ UNCHANGED <<disk, vmm, proxy>>
    /\ \/ /\ net' = IF owned(r[p].mode) /\ net = "absent" THEN "up" ELSE net
          /\ Goto(p, "unproxy") /\ Keep
       \/ UNCHANGED net /\ LaunchFails(p)
Launch(p) ==
    /\ pc[p] = "launch"
    /\ UNCHANGED <<disk, vmm, proxy>>
    /\ \/ /\ hasNetns(r[p].mode) /\ r[p].vnc => pass[p]
          /\ net' = IF owned(r[p].mode) /\ net = "absent" THEN "up" ELSE net
          /\ Goto(p, "unproxy") /\ Keep
       \/ UNCHANGED net /\ LaunchFails(p)

(* stopVNCProxy: the kill is best effort, the pidfile is always removed.     *)
proxyAfterStop ==
    IF proxy # "listed" THEN {proxy}
    ELSE {"none"} \cup IF "kill" \in Faults THEN {"lost"} ELSE {}

Unproxy(p) ==
    /\ pc[p] = "unproxy"
    /\ proxy' \in proxyAfterStop
    /\ Goto(p, "presave") /\ Keep
    /\ UNCHANGED <<disk, vmm, net>>

(* VNCPassSet is on disk before the QEMU it describes can exist.             *)
Presave_memoryOnly(p) ==
    /\ pc[p] = "presave"
    /\ UNCHANGED <<disk, host>>
    /\ r' = [r EXCEPT ![p].passSet = pass[p]]
    /\ Goto(p, "exec")
    /\ UNCHANGED <<op, pass, was, bad, child>>
Presave(p) ==
    /\ pc[p] = "presave"
    /\ UNCHANGED <<dir, host>>
    /\ LET gated == [r[p] EXCEPT !.passSet = pass[p]] IN
       \/ /\ rec' = gated
          /\ r' = [r EXCEPT ![p] = gated]
          /\ Goto(p, "exec")
          /\ UNCHANGED <<op, pass, was, bad, child>>
       \/ UNCHANGED rec /\ LaunchFails(p)

DaemonOf(front, f) == [front EXCEPT !.phase = "init", !.front = f]

(* c.Run: exec `qemu -daemonize`, then wait for the front process.           *)
Exec(p) ==
    /\ pc[p] = "exec"
    /\ UNCHANGED <<disk, proxy, net>>
    /\ \/ \E f \in Free :
            /\ LET front == [phase |-> "front", front |-> None, orphan |-> FALSE,
                             disp |-> IF ~r[p].vnc THEN "off" ELSE IF pass[p] THEN "locked" ELSE "open"] IN
               \/ "front" \in Faults /\ vmm' = [vmm EXCEPT ![f] = front]
               \/ /\ f # rec.pid
                  /\ \E d \in Free \ {f} : vmm' = [vmm EXCEPT ![f] = front, ![d] = DaemonOf(front, f)]
            /\ child' = [child EXCEPT ![p] = f]
            /\ Goto(p, "wait")
            /\ UNCHANGED <<op, r, pass, was, bad>>
       \/ UNCHANGED vmm /\ LaunchFails(p)

RunFailed(p) ==
    /\ pc[p] = "runfailed"
    /\ LaunchFails(p)
    /\ UNCHANGED <<disk, host>>

(* ReadPIDFile and isRunning, after a front process that exited with 0.      *)
ReadPid(p) ==
    /\ pc[p] = "readpid"
    /\ UNCHANGED <<disk, host>>
    /\ \/ /\ child[p] \in Live
          /\ r' = [r EXCEPT ![p].pid = child[p]]
          /\ Goto(p, IF pass[p] THEN "setpass"
                     ELSE IF hasNetns(r[p].mode) /\ r[p].vnc THEN "proxy" ELSE "postsave")
          /\ UNCHANGED <<op, pass, was, bad, child>>
       \/ LaunchFails(p)

(* setVNCPassword over the monitor.                                          *)
SetPass_warns(p) ==
    /\ pc[p] = "setpass"
    /\ UNCHANGED <<disk, proxy, net>>
    /\ \/ /\ r[p].pid \in Guests /\ vmm[r[p].pid].disp = "locked"
          /\ vmm' = [vmm EXCEPT ![r[p].pid].disp = "set"]
       \/ UNCHANGED vmm
    /\ Goto(p, IF hasNetns(r[p].mode) THEN "proxy" ELSE "postsave") /\ Keep
SetPass(p) ==
    /\ pc[p] = "setpass"
    /\ UNCHANGED <<disk, proxy, net>>
    /\ \/ /\ r[p].pid \in Guests /\ vmm[r[p].pid].disp = "locked"
          /\ vmm' = [vmm EXCEPT ![r[p].pid].disp = "set"]
          /\ Goto(p, IF hasNetns(r[p].mode) THEN "proxy" ELSE "postsave") /\ Keep
       \/ UNCHANGED vmm /\ Goto(p, "abort") /\ Keep

(* start repairs the proxy of a guest that already runs; launch starts one.  *)
repairing(p) == op[p] = "start" /\ was[p] = "running"
ProxyFails(p) == IF repairing(p) THEN Return(p, "err") ELSE Goto(p, "abort") /\ Keep

(* startVNCProxy up to c.Start: stop the old proxy, wait for QEMU's socket,  *)
(* whose file a killed QEMU leaves, bind the display's port, which a lost    *)
(* proxy still holds.                                                        *)
Proxy(p) ==
    /\ pc[p] = "proxy"
    /\ UNCHANGED <<disk, vmm, net>>
    /\ \E stopped \in proxyAfterStop :
        \/ /\ stopped = "none"
           /\ proxy' = "lost"
           /\ Goto(p, "proxypid") /\ Keep
        \/ /\ proxy' = stopped
           /\ ProxyFails(p)

(* The pidfile names the proxy, or the write fails and the child is killed.  *)
ProxyPid_leaves(p) ==
    /\ pc[p] = "proxypid"
    /\ UNCHANGED <<disk, vmm, net>>
    /\ \/ /\ proxy' = IF proxy = "lost" THEN "listed" ELSE proxy
          /\ Goto(p, IF repairing(p) THEN "unquiesce" ELSE "postsave") /\ Keep
       \/ /\ UNCHANGED proxy
          /\ ProxyFails(p)
ProxyPid(p) ==
    /\ pc[p] = "proxypid"
    /\ UNCHANGED <<disk, vmm, net>>
    /\ \/ /\ proxy' = IF proxy = "lost" THEN "listed" ELSE proxy
          /\ Goto(p, IF repairing(p) THEN "unquiesce" ELSE "postsave") /\ Keep
       \/ /\ proxy' = "none"
          /\ ProxyFails(p)

(* terminate(ctx, r, 0) of a launch that cannot serve its display.           *)
Abort(p) ==
    /\ pc[p] = "abort"
    /\ UNCHANGED <<disk, proxy, net>>
    /\ vmm' \in {Killed({r[p].pid})} \cup IF "kill" \in Faults THEN {vmm} ELSE {}
    /\ LaunchFails(p)

Postsave(p) ==
    /\ pc[p] = "postsave"
    /\ UNCHANGED <<dir, host>>
    /\ \/ /\ rec' = r[p]
          /\ IF op[p] = "run" THEN Return(p, "ok") ELSE Goto(p, "unquiesce") /\ Keep
       \/ UNCHANGED rec /\ LaunchFails(p)

(* toggleNet(up): the bridge backend has nothing to toggle.                  *)
Unquiesce_never(p) ==
    /\ pc[p] = "unquiesce"
    /\ Return(p, "ok")
    /\ UNCHANGED <<disk, host>>
Unquiesce(p) ==
    /\ pc[p] = "unquiesce"
    /\ net' \in {IF net = "quiesced" THEN "up" ELSE net}
                \cup IF "net" \in Faults THEN {net} ELSE {}
    /\ Return(p, "ok")
    /\ UNCHANGED <<disk, vmm, proxy>>

-----------------------------------------------------------------------------
(* Stopping, offline work and removal                                        *)

cleaning(p) == op[p] \in {"create", "run"}

(* stopInstance: the power-down only makes QEMU exit by itself, terminate    *)
(* skips a record without a pid and a pid that is no QEMU of this VM.        *)
Kill_powerdownOnly(p) ==
    /\ pc[p] = "kill"
    /\ UNCHANGED <<disk, host, bad>>
    /\ Goto(p, "killproxy")
    /\ UNCHANGED <<op, r, pass, was, child>>
Kill(p) ==
    /\ pc[p] = "kill"
    /\ UNCHANGED <<disk, proxy, net>>
    /\ \/ /\ vmm' = Killed({r[p].pid} \cap Live)
          /\ UNCHANGED bad
       \/ /\ "kill" \in Faults /\ isRunning(r[p])
          /\ vmm' \in {vmm, Killed({r[p].pid})}
          /\ bad' = [bad EXCEPT ![p] = TRUE]
    /\ Goto(p, "killproxy")
    /\ UNCHANGED <<op, r, pass, was, child>>

(* The proxy goes even when terminate failed; then stop, rm and restore      *)
(* return its error while a cleanup carries on.                              *)
KillProxy_ignoresError(p) ==
    /\ pc[p] = "killproxy"
    /\ proxy' \in proxyAfterStop
    /\ UNCHANGED <<disk, vmm, net>>
    /\ Keep
    /\ Goto(p, IF op[p] \in {"stop", "restore"} THEN "quiesce" ELSE "teardown")
KillProxy(p) ==
    /\ pc[p] = "killproxy"
    /\ proxy' \in proxyAfterStop
    /\ UNCHANGED <<disk, vmm, net>>
    /\ IF bad[p] /\ ~cleaning(p) THEN Return(p, "err")
       ELSE /\ Keep
            /\ Goto(p, IF op[p] \in {"stop", "restore"} THEN "quiesce" ELSE "teardown")

Quiesce(p) ==
    /\ pc[p] = "quiesce"
    /\ net' \in {IF hasNetns(r[p].mode) /\ net = "up" THEN "quiesced" ELSE net}
                \cup IF "net" \in Faults THEN {net} ELSE {}
    /\ Goto(p, "stopsave") /\ Keep
    /\ UNCHANGED <<disk, vmm, proxy>>

(* stop forgets the launch-scoped VNC settings, restore only the pid.        *)
StopSave(p) ==
    /\ pc[p] = "stopsave"
    /\ UNCHANGED <<dir, host>>
    /\ LET stopped == IF op[p] = "stop"
                      THEN [r[p] EXCEPT !.pid = None, !.vnc = FALSE, !.passSet = FALSE]
                      ELSE [r[p] EXCEPT !.pid = None] IN
       \/ /\ rec' = stopped
          /\ IF op[p] = "stop" THEN Return(p, "ok")
             ELSE /\ r' = [r EXCEPT ![p] = stopped]
                  /\ Goto(p, "image")
                  /\ UNCHANGED <<op, pass, was, bad, child>>
       \/ UNCHANGED rec /\ Return(p, "err")

(* qemu-img on the VM's disks: snapshot, restore, or the read of a clone.    *)
Image(p) ==
    /\ pc[p] = "image"
    /\ UNCHANGED <<disk, host>>
    /\ \/ Return(p, "err")
       \/ op[p] = "clone" /\ Return(p, "ok")
       \/ op[p] = "restore" /\ was[p] # "stopped" /\ Goto(p, "launch") /\ Keep
       \/ op[p] \in {"snapshot", "restore"} /\ was[p] = "stopped" /\ Goto(p, "imgsave") /\ Keep

ImgSave(p) ==
    /\ pc[p] = "imgsave"
    /\ UNCHANGED <<dir, host>>
    /\ \/ rec' = r[p] /\ Return(p, "ok")
       \/ UNCHANGED rec /\ Return(p, "err")

(* teardownNet quiesces what a Delete that fails then leaves.  rm returns an *)
(* error here, a cleanup joins it and goes on.                               *)
Teardown(p) ==
    /\ pc[p] = "teardown"
    /\ UNCHANGED <<disk, vmm, proxy>>
    /\ \/ /\ net' = IF owned(r[p].mode) THEN "absent" ELSE net
          /\ Goto(p, IF op[p] = "rm" THEN "remove" ELSE "reap") /\ Keep
       \/ /\ owned(r[p].mode)
          /\ net' \in {net, "absent"} \cup {n \in {"quiesced"} : hasNetns(r[p].mode) /\ net = "up"}
          /\ IF op[p] = "rm" THEN Return(p, "err") ELSE Goto(p, "reap") /\ Keep

(* reapStrayHelpers: every QEMU whose cmdline names the dir.                 *)
Reap_nbdOnly(p) ==
    /\ pc[p] = "reap"
    /\ UNCHANGED <<disk, host>>
    /\ Goto(p, "remove") /\ Keep
Reap(p) ==
    /\ pc[p] = "reap"
    /\ UNCHANGED <<disk, proxy, net>>
    /\ \/ /\ vmm' = Killed(Live)
          /\ Goto(p, "remove") /\ Keep
       \/ /\ "kill" \in Faults
          /\ \E S \in SUBSET Live : vmm' = Killed(S)
          /\ IF op[p] = "rm" THEN Return(p, "err") ELSE Goto(p, "remove") /\ Keep

(* RemoveAll.  A failed one may have unlinked vm.json and the pidfiles.      *)
Remove(p) ==
    /\ pc[p] = "remove"
    /\ UNCHANGED net
    /\ \/ /\ dir' = FALSE /\ rec' = None
          /\ vmm' = [q \in Pid |-> IF q \in Live THEN [vmm[q] EXCEPT !.orphan = TRUE] ELSE vmm[q]]
          /\ proxy' = IF proxy = "listed" THEN "lost" ELSE proxy
          /\ Return(p, IF op[p] = "rm" THEN "ok" ELSE "err")
       \/ /\ rec' \in {rec, None}
          /\ UNCHANGED <<dir, vmm, proxy>>
          /\ Return(p, "err")

-----------------------------------------------------------------------------
(* The environment                                                           *)

(* A CLI dies: its flock is released, everything it started lives on.        *)
Crash(p) ==
    /\ "crash" \in Faults /\ pc[p] # "idle"
    /\ Return(p, "crash")
    /\ UNCHANGED <<disk, host>>

Reboot ==
    /\ "reboot" \in Faults
    /\ lock' = None
    /\ vmm' = [q \in Pid |-> Dead] /\ proxy' = "none" /\ net' = "absent"
    /\ pc' = [p \in Proc |-> "idle"] /\ op' = [p \in Proc |-> "none"]
    /\ r' = [p \in Proc |-> None] /\ pass' = [p \in Proc |-> FALSE]
    /\ was' = [p \in Proc |-> "stopped"] /\ bad' = [p \in Proc |-> FALSE]
    /\ child' = [p \in Proc |-> None] /\ out' = [p \in Proc |-> "crash"]
    /\ UNCHANGED disk

Forked(f) == \E d \in Pid : vmm[d].phase = "init" /\ vmm[d].front = f

(* The front forks the daemon and waits for its status.                      *)
QemuFork(f) ==
    /\ vmm[f].phase = "front" /\ ~Forked(f)
    /\ \E d \in Free :
        vmm' = [vmm EXCEPT ![d] = DaemonOf(vmm[f], f)]
    /\ UNCHANGED <<lock, disk, proxy, net, pc, locals, out>>

(* c.Run returns in the CLI that started front f, if it still waits.         *)
Wake(f, l, d) ==
    LET waiting == {p \in Proc : pc[p] = "wait" /\ child[p] = f} IN
    /\ pc' = [p \in Proc |-> IF p \in waiting THEN l[p] ELSE pc[p]]
    /\ child' = [p \in Proc |-> IF p \in waiting THEN d ELSE child[p]]

(* The daemon wrote its pidfile and runs the guest; the front exits with 0.  *)
QemuReady(d) ==
    /\ vmm[d].phase = "init"
    /\ LET f == vmm[d].front IN
       /\ vmm' = [vmm EXCEPT ![d].phase = "up", ![d].front = None, ![f] = Dead]
       /\ Wake(f, [p \in Proc |-> "readpid"], d)
    /\ UNCHANGED <<lock, disk, proxy, net, op, r, pass, was, bad, out>>

(* A boot fails before or after the fork, and the front exits with 1.        *)
QemuFail(f) ==
    /\ vmm[f].phase = "front"
    /\ vmm' = [q \in Pid |-> IF q = f \/ (vmm[q].phase = "init" /\ vmm[q].front = f)
                             THEN Dead ELSE vmm[q]]
    /\ Wake(f, [p \in Proc |-> "runfailed"], None)
    /\ UNCHANGED <<lock, disk, proxy, net, op, r, pass, was, bad, out>>

(* A guest powers off, reboots under -no-reboot or crashes; a daemon without *)
(* its front gives up.                                                       *)
QemuExit(d) ==
    /\ vmm[d].phase \in {"up", "doomed"}
    /\ vmm' = [vmm EXCEPT ![d] = Dead]
    /\ UNCHANGED <<lock, disk, proxy, net, pc, locals, out>>

ProxyExit ==
    /\ proxy # "none"
    /\ proxy' = "none"
    /\ UNCHANGED <<lock, disk, vmm, net, pc, locals, out>>

-----------------------------------------------------------------------------
Step(p) ==
    \/ Load(p) \/ Scaffold(p) \/ Bake(p) \/ Provision(p) \/ Commit(p)
    \/ Launch(p) \/ Unproxy(p) \/ Presave(p) \/ Exec(p) \/ RunFailed(p) \/ ReadPid(p)
    \/ SetPass(p) \/ Proxy(p) \/ ProxyPid(p) \/ Abort(p) \/ Postsave(p) \/ Unquiesce(p)
    \/ Kill(p) \/ KillProxy(p) \/ Quiesce(p) \/ StopSave(p) \/ Image(p) \/ ImgSave(p)
    \/ Teardown(p) \/ Reap(p) \/ Remove(p)

Boot(q) == QemuFork(q) \/ QemuReady(q) \/ QemuFail(q)

Next ==
    \/ \E p \in Proc : Acquire(p) \/ Step(p) \/ Crash(p)
    \/ \E q \in Pid : Boot(q) \/ QemuExit(q)
    \/ Reboot \/ ProxyExit

Spec == Init /\ [][Next]_vars

-----------------------------------------------------------------------------
(* Properties                                                                *)

(* Every variable keeps its type (the record and process tables of           *)
(* cmd/vm/handler.go and the host).                                          *)
TypeOK ==
    /\ lock \in Proc \cup {None}
    /\ dir \in BOOLEAN
    /\ rec \in Record \cup {None}
    /\ vmm \in [Pid -> VMM]
    /\ proxy \in {"none", "listed", "lost"}
    /\ net \in {"absent", "up", "quiesced"}
    /\ pc \in [Proc -> PC]
    /\ op \in [Proc -> Op \cup {"none"}]
    /\ r \in [Proc -> Record \cup {None}]
    /\ pass \in [Proc -> BOOLEAN]
    /\ was \in [Proc -> {"stopped", "running", "gated"}]
    /\ bad \in [Proc -> BOOLEAN]
    /\ child \in [Proc -> Pid \cup {None}]
    /\ out \in [Proc -> {"none", "ok", "err", "crash"}]

(* At most one guest runs on the VM's disks, whatever was killed in the      *)
(* middle of a launch: utils.go:245, reconcileRunningQEMU adopts a QEMU that *)
(* daemonized before its pid was saved instead of booting a second one.      *)
OneGuest == Cardinality(Guests \cap Owned) <= 1

(* qemu-img never works on the disks of a running guest, not even when       *)
(* restore --force could not kill it: snapshot.go:37, "qemu-img snapshot on  *)
(* a live image corrupts it".                                                *)
OfflineImages == \A p \in Proc : pc[p] = "image" => Guests \cap Owned = {}

(* create, run and clone only ever scaffold a dir without a record and       *)
(* without a guest: utils.go:131, "a second create/clone under the same name *)
(* would truncate the live overlay".                                         *)
ScaffoldsFresh ==
    \A p \in Proc : pc[p] \in {"bake", "provision", "commit"} =>
        rec = None /\ Guests \cap Owned = {}

(* A running guest always has the record that start, stop and rm reach it    *)
(* by: lifecycle.go:103, nothing changes between terminate and RemoveAll.    *)
GuestHasRecord == Guests # {} => rec # None

(* What the record says of the display is what the guest serves, also for a  *)
(* QEMU adopted after a crash: lifecycle.go:271 saves VNCPassSet before the  *)
(* exec, and restore --force decides by it whether a password is needed.     *)
DisplayRecorded ==
    \A q \in Guests \cap Owned :
        rec # None => /\ rec.vnc = (vmm[q].disp # "off")
                      /\ vmm[q].disp \in {"locked", "set"} => rec.passSet
                      /\ vmm[q].disp = "open" => ~rec.passSet

(* A display reachable off the host (CNI, behind the proxy on 0.0.0.0) never *)
(* serves without a password: vnc.go:42, requireCNIVNCPassword.              *)
GatedDisplay ==
    \A q \in Guests \cap Owned :
        rec # None /\ hasNetns(rec.mode) => vmm[q].disp # "open"

(* restore --force never relaunches a password-gated display open, whoever   *)
(* started the guest and whichever CLI died since: snapshot.go:78 and        *)
(* snapshots.md:11, "every CNI display, optionally others".                  *)
RestoreKeepsGate ==
    \A p \in Proc : was[p] = "gated" /\ pc[p] \in {"image", "launch", "exec"} => pass[p]

Returned(p, o, result) == op[p] = o /\ lock = p /\ lock' = None /\ out'[p] = result

(* An operation that launched a guest reports success only if the display it *)
(* asked for can be opened: lifecycle.go:290, "qemu keeps password=on with   *)
(* no password set, so every VNC auth would fail".                           *)
LaunchServesDisplay ==
    [][\A p \in Proc : \A o \in {"run", "start", "restore"} :
            Returned(p, o, "ok") /\ child[p] \in Guests => vmm[child[p]].disp # "locked"]_vars

(* stop and rm never report success over a guest that still runs:            *)
(* docs/cli.md:41, "if QEMU is still running after that they send SIGTERM    *)
(* and SIGKILL at once", and lifecycle.go:81 returns what that fails with.   *)
(* It fails where a front process is taken for the daemon (run window).      *)
StopMeansStopped ==
    [][\A p \in Proc : Returned(p, "stop", "ok") \/ Returned(p, "rm", "ok")
            => Guests \cap Owned = {}]_vars

(* A guest that run, start or restore leaves behind with success does not    *)
(* sit behind a quiesced network, also one adopted after a crashed restore:  *)
(* snapshots.md:21, "`vm start`, which also restores forwarding when it      *)
(* adopts an already-running QEMU after a failed record write".              *)
NetServesGuest ==
    [][\A p \in Proc : \A o \in {"run", "start", "restore"} :
            Returned(p, o, "ok") /\ Guests \cap Owned # {} => net' # "quiesced"]_vars

(* stop and rm end the display with the guest, host port included:           *)
(* lifecycle.go:85, "VNC is launch-scoped: gone with the qemu it belonged to"*)
VncGoneAfterStop ==
    [][\A p \in Proc : Returned(p, "stop", "ok") \/ Returned(p, "rm", "ok")
            => proxy' = "none"]_vars

-----------------------------------------------------------------------------
(* Refinement: the record, the one guest on the VM's disks and its display.  *)

guest == CHOOSE q \in Pid : q \in Guests /\ ~vmm[q].orphan

Promise == INSTANCE VMPromise WITH
    Modes <- Mode, Gated <- hasNetns, NoMode <- None,
    status <- IF Guests \cap Owned # {} THEN "running"
              ELSE IF rec # None THEN "stopped" ELSE "absent",
    mode   <- IF rec = None THEN None ELSE rec.mode,
    screen <- IF Guests \cap Owned # {} THEN vmm[guest].disp ELSE "off"

(* The steps of all operations together, with CLIs killed between any two of *)
(* them, look like a VM that is created, boots, halts and goes away: nothing *)
(* of it vanishes under its guest, its mode never changes, and its display   *)
(* only by set_password (lifecycle.go:103 and 290, utils.go:245).            *)
KeepsPromise == Promise!Spec

-----------------------------------------------------------------------------
(* Fairness: a CLI that is not killed runs on, and a QEMU boot either        *)
(* reaches its guest or fails.                                               *)
FairSpec ==
    /\ Spec
    /\ \A p \in Proc : WF_vars(Step(p))
    /\ \A q \in Pid : WF_vars(Boot(q))

(* Every operation that holds the VM's lock ends and gives it up: no error   *)
(* path keeps it and c.Run, which no context bounds, always returns.         *)
Returns == \A p \in Proc : lock = p ~> lock # p
=============================================================================
