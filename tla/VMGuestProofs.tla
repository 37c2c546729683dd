--------------------------- MODULE VMGuestProofs ---------------------------
(***************************************************************************)
(* Theorems about the guest of VMLifecycle: at most one runs on the VM's   *)
(* disks, vm.json leads to it and tells its display, no operation works on *)
(* the disks under it or reports a stop over it.                           *)
(*                                                                         *)
(* They hold for any number of CLI processes and pids, any network modes   *)
(* and any faults but "front": a QEMU whose front process passes for the   *)
(* daemon is stopped too early, and StopMeansStopped is then violated.     *)
(*                                                                         *)
(* GuestInv is inductive.  HostInv speaks of the host and vm.json: a front *)
(* process and its daemon live and die together, there is one daemon, the  *)
(* record's pid can only be that daemon, the record tells its display.     *)
(* At(p) speaks of process p: what it knows at the step it is at.          *)
(***************************************************************************)
EXTENDS VMLifecycleProofs, FiniteSetTheorems

-----------------------------------------------------------------------------
(* "front" is no fault of this host.                                         *)
Sober == "front" \notin Faults

(* The VM's QEMU processes that are not just waiting for their daemon.       *)
Daemons == {q \in Owned : vmm[q].phase # "front"}

(* The two processes of a boot live and die together.                        *)
Paired ==
    /\ \A q \in Pid : vmm[q].phase = "front" =>
          \E d \in Pid : vmm[d].phase = "init" /\ vmm[d].front = q
    /\ \A d \in Pid : vmm[d].phase = "init" =>
          /\ vmm[d].front \in Pid
          /\ vmm[vmm[d].front].phase = "front"
          /\ vmm[vmm[d].front].orphan = vmm[d].orphan
          /\ vmm[vmm[d].front].disp = vmm[d].disp
          /\ vmm[d].disp # "set"
    /\ \A d, e \in Pid : vmm[d].phase = "init" /\ vmm[e].phase = "init"
                         /\ vmm[d].front = vmm[e].front => d = e

Sole == \A x, y \in Daemons : x = y

Tracked == rec # None /\ rec.pid \in Live => Daemons \subseteq {rec.pid}

Shown(rc, q) ==
    /\ rc.vnc = (vmm[q].disp # "off")
    /\ vmm[q].disp \in {"locked", "set"} => rc.passSet
    /\ vmm[q].disp = "open" => ~rc.passSet

Described == rec # None => \A q \in Owned : Shown(rec, q)

Kept ==
    "kill" \notin Faults =>
        /\ \A q \in Live : ~vmm[q].orphan
        /\ rec = None => Live = {}

HostInv == Paired /\ Sole /\ Tracked /\ Described /\ Kept

Settled == {"launch", "unproxy", "presave", "exec", "image", "imgsave"}
Attached == {"setpass", "proxy", "proxypid", "abort", "postsave"}

Route(p) ==
    /\ pc[p] \in {"launch", "unproxy", "presave", "exec", "wait", "runfailed", "readpid"}
                \cup Attached
          => op[p] \in {"run", "start", "restore"}
    /\ pc[p] = "unquiesce" => op[p] \in {"start", "restore"}
    /\ pc[p] \in {"image", "imgsave"} => op[p] \in {"snapshot", "restore", "clone"}
    /\ pc[p] \in {"quiesce", "stopsave"} => op[p] \in {"stop", "restore"}
    /\ pc[p] \in {"kill", "killproxy"} => op[p] \in {"create", "run", "stop", "rm", "restore"}
    /\ pc[p] \in {"teardown", "reap", "remove"} => op[p] \in {"create", "run", "rm"}

Stopped(p) ==
    /\ pc[p] = "commit" => r[p].pid = None
    /\ pc[p] \in Settled \cup {"quiesce", "stopsave"} => Owned = {}
    /\ pc[p] \in Settled => rec.pid \notin Live /\ r[p].pid \notin Live
    /\ pc[p] = "kill" /\ ~cleaning(p) => Daemons \subseteq {r[p].pid}
    /\ pc[p] = "killproxy" /\ ~cleaning(p) /\ ~bad[p] => Owned = {}
    /\ pc[p] \in {"teardown", "remove"} /\ op[p] = "rm" => Owned = {}
    /\ "kill" \notin Faults => ~bad[p] /\ (pc[p] = "remove" => Live = {})

Booting(p) ==
    /\ pc[p] = "wait" => child[p] \in Owned /\ vmm[child[p]].phase = "front"
    /\ pc[p] = "readpid" /\ child[p] \in Live => child[p] \in Daemons
    /\ pc[p] \in {"setpass", "abort"} => r[p].pid \in Pid
    /\ pc[p] \in {"proxy", "proxypid"} /\ ~repairing(p) => r[p].pid \in Pid
    /\ pc[p] \in Attached /\ r[p].pid \in Live => Daemons \subseteq {r[p].pid}
    /\ pc[p] = "exec" => rec = r[p] /\ r[p].passSet = pass[p]
    /\ pc[p] \in {"wait", "readpid"} \cup Attached
          => rec.vnc = r[p].vnc /\ rec.passSet = r[p].passSet

Serving(p) ==
    /\ pc[p] \in {"wait", "readpid"} /\ child[p] \in Live
          => (vmm[child[p]].disp = "locked" => pass[p])
    /\ pc[p] = "setpass" => r[p].pid = child[p]
    /\ pc[p] \in {"proxy", "proxypid", "postsave", "unquiesce"} /\ child[p] \in Live
          => vmm[child[p]].disp # "locked"
    /\ \/ pc[p] \in {"idle", "load", "quiesce", "stopsave", "image", "imgsave"}
       \/ pc[p] \in {"kill", "killproxy"} /\ ~cleaning(p)
       => child[p] = None

Forced(p) == was[p] = "gated" => op[p] = "restore" /\ pass[p] /\ pc[p] # "idle"

Wired(p) ==
    pc[p] \in {"commit", "launch", "unproxy", "presave", "exec", "wait", "readpid"} \cup Attached
    /\ op[p] = "run" => net # "quiesced"

At(p) == Route(p) /\ Stopped(p) /\ Booting(p) /\ Serving(p) /\ Forced(p) /\ Wired(p)

GuestInv == GateInv /\ HostInv /\ \A p \in Proc : At(p)

-----------------------------------------------------------------------------
(* What a step does to the process table.                                    *)

(* A step under which processes only die.                                    *)
Thins ==
    \A q \in Pid :
        \/ vmm'[q] = vmm[q]
        \/ vmm'[q].phase = "dead"
        \/ /\ vmm[q].phase = "init" /\ vmm'[q].phase \in {"doomed", "up"}
           /\ vmm'[q].orphan = vmm[q].orphan
           /\ vmm'[q].disp = vmm[q].disp

(* Without a step of a QEMU the process table is as it was.                  *)
LEMMA SameTable ==
    ASSUME UNCHANGED vmm
    PROVE  /\ Live' = Live /\ Owned' = Owned /\ Daemons' = Daemons /\ Guests' = Guests
           /\ Paired' = Paired /\ Sole' = Sole
  BY DEF Live, Owned, Daemons, Guests, Paired, Sole

(* Processes that die leave fewer of every kind, with their displays.        *)
LEMMA ThinsFewer ==
    ASSUME Thins
    PROVE  /\ Live' \subseteq Live
           /\ Owned' \subseteq Owned
           /\ Daemons' \subseteq Daemons
           /\ \A q \in Live' : vmm'[q].disp = vmm[q].disp /\ vmm'[q].orphan = vmm[q].orphan
           /\ \A q \in Live' : q \in Daemons => q \in Daemons'
  BY DEF Thins, Live, Owned, Daemons

(* What holds of the host and vm.json holds when processes die.              *)
LEMMA ThinsHost ==
    ASSUME HostInv, Thins, Paired', UNCHANGED rec
    PROVE  HostInv'
<1>1. Sole'  BY ThinsFewer DEF HostInv, Sole
<1>2. Tracked'  BY ThinsFewer DEF HostInv, Tracked
<1>3. Described'  BY ThinsFewer DEF HostInv, Described, Shown, Owned
<1>4. Kept'  BY ThinsFewer DEF HostInv, Kept
<1>5. QED  BY <1>1, <1>2, <1>3, <1>4 DEF HostInv

(* ... and when nothing happens to either,                                   *)
LEMMA SameHost ==
    ASSUME HostInv, UNCHANGED <<vmm, rec>>
    PROVE  HostInv'
  BY SameTable DEF HostInv, Tracked, Described, Shown, Kept

(* ... or when vm.json is written while no QEMU of the VM runs.              *)
LEMMA SaveHost ==
    ASSUME HostInv, UNCHANGED vmm, Owned = {},
           rec' = None => "kill" \in Faults \/ Live = {}
    PROVE  HostInv'
<1>1. Daemons = {}  BY DEF Daemons
<1>2. QED  BY <1>1, SameTable DEF HostInv, Tracked, Described, Kept

(* A VM without a daemon has no QEMU at all.                                 *)
LEMMA NoDaemon == TypeInv /\ Paired /\ Daemons = {} => Owned = {}
<1> SUFFICES ASSUME TypeInv, Paired, Daemons = {}, NEW q \in Owned PROVE FALSE  OBVIOUS
<1>1. q \in Pid /\ vmm[q].phase = "front"  BY DEF Daemons, Owned, Live
<1>2. PICK d \in Pid : vmm[d].phase = "init" /\ vmm[d].front = q  BY <1>1 DEF Paired
<1>3. d \in Owned  BY <1>1, <1>2 DEF Paired, Owned, Live
<1>4. QED  BY <1>2, <1>3 DEF Daemons

(* Killing processes (terminate, TerminateByCmdline) only thins the table.   *)
LEMMA KilledThins ==
    ASSUME TypeInv, NEW S, vmm' = Killed(S)
    PROVE  Thins
  BY DEF Thins, Killed, Dead, VMM, TypeInv, DataOK

(* A front exits with its daemon, a daemon without its front is doomed.      *)
LEMMA KilledPaired ==
    ASSUME TypeInv, Paired, NEW S \in SUBSET Pid, vmm' = Killed(S)
    PROVE  Paired'
<1>1. \A q \in Pid : vmm'[q].phase = "front" =>
          /\ vmm'[q] = vmm[q] /\ q \notin S
          /\ \A d \in Pid : vmm[d].phase = "init" /\ vmm[d].front = q => d \notin S
  BY DEF Killed, Dead, VMM, TypeInv, DataOK
<1>2. \A d \in Pid : vmm'[d].phase = "init" =>
          vmm'[d] = vmm[d] /\ d \notin S /\ vmm[d].front \notin S
  BY DEF Killed, Dead, VMM, TypeInv, DataOK
<1>3. \A d \in Pid : vmm[d].phase = "init" /\ d \notin S /\ vmm[d].front \notin S
                     => vmm'[d] = vmm[d]
  BY DEF Killed, Paired
<1>4. ASSUME NEW q \in Pid, vmm'[q].phase = "front"
      PROVE  \E d \in Pid : vmm'[d].phase = "init" /\ vmm'[d].front = q
  <2>1. PICK d \in Pid : vmm[d].phase = "init" /\ vmm[d].front = q  BY <1>1, <1>4 DEF Paired
  <2>2. vmm'[d] = vmm[d]  BY <1>1, <1>3, <1>4, <2>1
  <2>3. QED  BY <2>1, <2>2
<1>5. ASSUME NEW d \in Pid, vmm'[d].phase = "init"
      PROVE  vmm'[d] = vmm[d] /\ vmm[d].front \in Pid /\ vmm'[vmm[d].front] = vmm[vmm[d].front]
  <2>1. vmm'[d] = vmm[d] /\ d \notin S /\ vmm[d].front \notin S  BY <1>2, <1>5
  <2> DEFINE f == vmm[d].front
  <2>2. f \in Pid /\ vmm[f].phase = "front"  BY <1>5, <2>1 DEF Paired
  <2>3. \A e \in Pid : vmm[e].phase = "init" /\ vmm[e].front = f => e = d
    BY <1>5, <2>1 DEF Paired
  <2>4. vmm'[f] = vmm[f]  BY <2>1, <2>2, <2>3 DEF Killed
  <2>5. QED  BY <2>1, <2>2, <2>4
<1>6. QED  BY <1>4, <1>5 DEF Paired

(* Killing the daemon leaves nothing of the VM.                              *)
LEMMA KilledAll ==
    ASSUME TypeInv, Paired, NEW x, Daemons \subseteq {x},
           NEW S \in SUBSET Pid, x \in Live => x \in S,
           vmm' = Killed(S), TypeInv'
    PROVE  Owned' = {}
<1>1. Paired' /\ Thins  BY KilledPaired, KilledThins
<1>2. Daemons' \subseteq {x}  BY <1>1, ThinsFewer
<1>3. x \notin Daemons'
  BY DEF Daemons, Owned, Live, Killed, Dead
<1>4. Daemons' = {}  BY <1>2, <1>3
<1>5. (TypeInv /\ Paired /\ Daemons = {} => Owned = {})'  BY NoDaemon, PTL
<1>6. QED  BY <1>1, <1>4, <1>5

-----------------------------------------------------------------------------
(* Where a process goes.                                                     *)

(* A process outside any operation has clean locals and knows nothing.       *)
LEMMA IdleAt ==
    ASSUME NEW x \in Proc, At(x), pc[x] = "idle", pc'[x] = "idle",
           child'[x] = child[x], was'[x] = was[x], bad'[x] = bad[x]
    PROVE  At(x)'
  BY DEF At, Route, Stopped, Booting, Serving, Forced, Wired, Settled, Attached

(* Under the flock it is enough to look at the one process that works.       *)
LEMMA OnlyAt ==
    ASSUME GuestInv, NEW p \in Proc, pc[p] # "idle", At(p)',
           \A x \in Proc \ {p} : /\ pc'[x] = pc[x] /\ child'[x] = child[x]
                                 /\ was'[x] = was[x] /\ bad'[x] = bad[x]
    PROVE  \A x \in Proc : At(x)'
<1>1. \A x \in Proc \ {p} : pc[x] = "idle"  BY Alone DEF GuestInv, GateInv
<1>2. \A x \in Proc \ {p} : At(x)'  BY <1>1, IdleAt DEF GuestInv
<1>3. QED  BY <1>2

(* A step that goes on with the locals it has.                               *)
LEMMA KeepAt ==
    ASSUME GuestInv, NEW p \in Proc, pc[p] # "idle", NEW l, Goto(p, l), Keep, At(p)'
    PROVE  \A x \in Proc : At(x)'
<1>1. \A x \in Proc \ {p} : /\ pc'[x] = pc[x] /\ child'[x] = child[x]
                            /\ was'[x] = was[x] /\ bad'[x] = bad[x]
  BY DEF Goto, Keep, locals, GuestInv, GateInv, TypeInv, ControlOK
<1>2. QED  BY <1>1, OnlyAt

(* A step that ends the operation.                                           *)
LEMMA ReturnAt ==
    ASSUME GuestInv, NEW p \in Proc, pc[p] # "idle", NEW result, Return(p, result)
    PROVE  \A x \in Proc : At(x)'
<1> USE DEF Return, NoLocals
<1>1. \A x \in Proc \ {p} : /\ pc'[x] = pc[x] /\ child'[x] = child[x]
                            /\ was'[x] = was[x] /\ bad'[x] = bad[x]
  BY DEF GuestInv, GateInv, TypeInv, ControlOK
<1>2. pc'[p] = "idle" /\ child'[p] = None /\ was'[p] = "stopped" /\ bad'[p] = FALSE
  BY DEF GuestInv, GateInv, TypeInv, ControlOK
<1>3. At(p)'
  BY <1>2 DEF At, Route, Stopped, Booting, Serving, Forced, Wired, Settled, Attached
<1>4. QED  BY <1>1, <1>3, OnlyAt

(* A launch that fails: run's cleanup knows nothing of the guest.            *)
LEMMA LaunchFailsAt ==
    ASSUME GuestInv, NEW p \in Proc, pc[p] # "idle", LaunchFails(p)
    PROVE  \A x \in Proc : At(x)'
<1>1. CASE op[p] = "run" /\ Goto(p, "kill") /\ Keep
  <2>1. At(p)'
    BY <1>1
       DEF Goto, Keep, locals, GuestInv, GateInv, TypeInv, ControlOK, At, Route, Stopped,
           Booting, Serving, Forced, Wired, Settled, Attached, cleaning
  <2>2. QED  BY <1>1, <2>1, KeepAt
<1>2. CASE Return(p, "err")  BY <1>2, ReturnAt
<1>3. QED  BY <1>1, <1>2 DEF LaunchFails

(* A process whose locals stay learns nothing from processes that die.       *)
LEMMA ThinsAt ==
    ASSUME GuestInv, TypeInv', Thins, UNCHANGED <<rec, net>>, NEW x \in Proc,
           pc'[x] = pc[x], pc[x] # "wait", op'[x] = op[x], r'[x] = r[x], pass'[x] = pass[x],
           was'[x] = was[x], bad'[x] = bad[x], child'[x] = child[x]
    PROVE  At(x)'
<1> USE DEF GuestInv, At
<1>1. Route(x)' /\ Forced(x)' /\ Wired(x)'
  BY DEF Route, Forced, Wired, Attached
<1>2. Stopped(x)'  BY ThinsFewer DEF Stopped, Settled, cleaning
<1>3. Booting(x)'
  <2>1. r[x].pid \in Live' => r[x].pid \in Live  BY ThinsFewer
  <2>2. child[x] \in Live' => child[x] \in Live  BY ThinsFewer
  <2>3. pc[x] = "readpid" /\ child[x] \in Live' => child[x] \in Daemons'
    BY <2>2, ThinsFewer DEF Booting
  <2>4. QED  BY <2>1, <2>3, ThinsFewer DEF Booting, Attached, repairing
<1>4. Serving(x)'
  <2>1. child[x] \in Live' => child[x] \in Live /\ vmm'[child[x]].disp = vmm[child[x]].disp
    BY ThinsFewer
  <2>2. QED  BY <2>1 DEF Serving, cleaning
<1>5. QED  BY <1>1, <1>2, <1>3, <1>4

(* Where every kill works, no QEMU outlives the VM dir it was started in.    *)
LEMMA LiveOwned ==
    ASSUME HostInv, "kill" \notin Faults
    PROVE  Live = Owned
  BY DEF HostInv, Kept, Owned

-----------------------------------------------------------------------------
(* The steps of an operation that leave the process table alone.             *)

(* The guest: utils.go, scaffoldVM, resetIncompleteVMDir.                    *)
LEMMA ScaffoldGuest ==
    ASSUME Sober, GuestInv, TypeInv', NEW p \in Proc, Scaffold(p)
    PROVE  HostInv' /\ \A x \in Proc : At(x)'
<1>1. HostInv' /\ pc[p] = "scaffold"  BY SameHost DEF Scaffold, GuestInv
<1>2. Live' = Live /\ Owned' = Owned /\ Daemons' = Daemons  BY SameTable DEF Scaffold
<1>3. CASE Goto(p, "bake") /\ Keep
  <2>1. /\ pc'[p] = "bake" /\ rec' = rec /\ vmm' = vmm
      /\ UNCHANGED <<op[p], r[p], pass[p], was[p], bad[p], child[p]>>
    BY <1>3
       DEF Scaffold, Goto, Keep, locals, GuestInv, GateInv, TypeInv, DataOK, ControlOK
  <2>2. At(p)'
    BY <1>1, <1>2, <1>3, <2>1
       DEF GuestInv, At, Route, Stopped, Booting, Serving, Forced, Wired, Settled, Attached,
           cleaning, repairing
  <2>3. QED  BY <1>1, <1>3, <2>2, KeepAt
<1>4. CASE Return(p, "err")
  BY <1>1, <1>4, ReturnAt
<1>5. QED  BY <1>1, <1>3, <1>4 DEF Scaffold

(* The guest: utils.go, scaffoldVM.                                          *)
LEMMA BakeGuest ==
    ASSUME Sober, GuestInv, TypeInv', NEW p \in Proc, Bake(p)
    PROVE  HostInv' /\ \A x \in Proc : At(x)'
<1>1. HostInv' /\ pc[p] = "bake"  BY SameHost DEF Bake, host, GuestInv
<1>2. Live' = Live /\ Owned' = Owned /\ Daemons' = Daemons  BY SameTable DEF Bake, host
<1>3. CASE Goto(p, "provision") /\ Keep
  <2>1. /\ pc'[p] = "provision" /\ rec' = rec /\ vmm' = vmm
      /\ UNCHANGED <<op[p], r[p], pass[p], was[p], bad[p], child[p]>>
    BY <1>3 DEF Bake, Goto, Keep, locals, host, GuestInv, GateInv, TypeInv, DataOK, ControlOK
  <2>2. At(p)'
    BY <1>1, <1>2, <1>3, <2>1
       DEF GuestInv, At, Route, Stopped, Booting, Serving, Forced, Wired, Settled, Attached,
           cleaning, repairing
  <2>3. QED  BY <1>1, <1>3, <2>2, KeepAt
<1>4. CASE Return(p, "err")
  BY <1>1, <1>4, ReturnAt
<1>5. QED  BY <1>1, <1>3, <1>4 DEF Bake

(* The guest: lifecycle.go, launch, up to stopVNCProxy.                      *)
LEMMA LaunchGuest ==
    ASSUME Sober, GuestInv, TypeInv', NEW p \in Proc, Launch(p)
    PROVE  HostInv' /\ \A x \in Proc : At(x)'
<1>1. HostInv' /\ pc[p] = "launch"  BY SameHost DEF Launch, disk, GuestInv
<1>2. Live' = Live /\ Owned' = Owned /\ Daemons' = Daemons  BY SameTable DEF Launch, disk
<1>3. CASE /\ net' = "quiesced" => net = "quiesced"
         /\ Goto(p, "unproxy") /\ Keep
  <2>1. /\ pc'[p] = "unproxy" /\ rec' = rec /\ vmm' = vmm
      /\ UNCHANGED <<op[p], r[p], pass[p], was[p], bad[p], child[p]>>
    BY <1>3 DEF Launch, Goto, Keep, locals, disk, GuestInv, GateInv, TypeInv, DataOK, ControlOK
  <2>2. At(p)'
    BY <1>1, <1>2, <1>3, <2>1
       DEF GuestInv, At, Route, Stopped, Booting, Serving, Forced, Wired, Settled, Attached,
           cleaning, repairing
  <2>3. QED  BY <1>1, <1>3, <2>2, KeepAt
<1>4. CASE LaunchFails(p)
  BY <1>1, <1>4, LaunchFailsAt
<1>5. QED  BY <1>1, <1>3, <1>4 DEF Launch

(* The guest: vnc.go, stopVNCProxy.                                          *)
LEMMA UnproxyGuest ==
    ASSUME Sober, GuestInv, TypeInv', NEW p \in Proc, Unproxy(p)
    PROVE  HostInv' /\ \A x \in Proc : At(x)'
<1>1. HostInv' /\ pc[p] = "unproxy"  BY SameHost DEF Unproxy, disk, GuestInv
<1>2. Live' = Live /\ Owned' = Owned /\ Daemons' = Daemons  BY SameTable DEF Unproxy, disk
<1>3. CASE Goto(p, "presave") /\ Keep
  <2>1. /\ pc'[p] = "presave" /\ rec' = rec /\ vmm' = vmm
      /\ UNCHANGED <<op[p], r[p], pass[p], was[p], bad[p], child[p]>>
      /\ net' = net
    BY <1>3 DEF Unproxy, Goto, Keep, locals, disk, GuestInv, GateInv, TypeInv, DataOK, ControlOK
  <2>2. At(p)'
    BY <1>1, <1>2, <1>3, <2>1
       DEF GuestInv, At, Route, Stopped, Booting, Serving, Forced, Wired, Settled, Attached,
           cleaning, repairing
  <2>3. QED  BY <1>1, <1>3, <2>2, KeepAt
<1>4. QED  BY <1>1, <1>3 DEF Unproxy

(* The guest: lifecycle.go, launch.                                          *)
LEMMA RunFailedGuest ==
    ASSUME Sober, GuestInv, TypeInv', NEW p \in Proc, RunFailed(p)
    PROVE  HostInv' /\ \A x \in Proc : At(x)'
<1>1. HostInv' /\ pc[p] = "runfailed"  BY SameHost DEF RunFailed, disk, host, GuestInv
<1>2. Live' = Live /\ Owned' = Owned /\ Daemons' = Daemons  BY SameTable
   DEF RunFailed, disk, host
<1>3. CASE LaunchFails(p)
  BY <1>1, <1>3, LaunchFailsAt
<1>4. QED  BY <1>1, <1>3 DEF RunFailed

(* The guest: vnc.go, startVNCProxy.                                         *)
LEMMA ProxyGuest ==
    ASSUME Sober, GuestInv, TypeInv', NEW p \in Proc, Proxy(p)
    PROVE  HostInv' /\ \A x \in Proc : At(x)'
<1>1. HostInv' /\ pc[p] = "proxy"  BY SameHost DEF Proxy, disk, GuestInv
<1>2. Live' = Live /\ Owned' = Owned /\ Daemons' = Daemons  BY SameTable DEF Proxy, disk
<1>3. CASE Goto(p, "proxypid") /\ Keep
  <2>1. /\ pc'[p] = "proxypid" /\ rec' = rec /\ vmm' = vmm
      /\ UNCHANGED <<op[p], r[p], pass[p], was[p], bad[p], child[p]>>
      /\ net' = net
    BY <1>3 DEF Proxy, Goto, Keep, locals, disk, GuestInv, GateInv, TypeInv, DataOK, ControlOK
  <2>2. At(p)'
    BY <1>1, <1>2, <1>3, <2>1
       DEF GuestInv, At, Route, Stopped, Booting, Serving, Forced, Wired, Settled, Attached,
           cleaning, repairing
  <2>3. QED  BY <1>1, <1>3, <2>2, KeepAt
<1>4. CASE /\ ~repairing(p)
         /\ Goto(p, "abort") /\ Keep
  <2>1. /\ pc'[p] = "abort" /\ rec' = rec /\ vmm' = vmm
      /\ UNCHANGED <<op[p], r[p], pass[p], was[p], bad[p], child[p]>>
      /\ net' = net
    BY <1>4 DEF Proxy, Goto, Keep, locals, disk, GuestInv, GateInv, TypeInv, DataOK, ControlOK
  <2>2. At(p)'
    BY <1>1, <1>2, <1>4, <2>1
       DEF GuestInv, At, Route, Stopped, Booting, Serving, Forced, Wired, Settled, Attached,
           cleaning, repairing
  <2>3. QED  BY <1>1, <1>4, <2>2, KeepAt
<1>5. CASE Return(p, "err")
  BY <1>1, <1>5, ReturnAt
<1>6. QED  BY <1>1, <1>3, <1>4, <1>5 DEF Proxy, ProxyFails

(* The guest: vnc.go, startVNCProxy.                                         *)
LEMMA ProxyPidGuest ==
    ASSUME Sober, GuestInv, TypeInv', NEW p \in Proc, ProxyPid(p)
    PROVE  HostInv' /\ \A x \in Proc : At(x)'
<1>1. HostInv' /\ pc[p] = "proxypid"  BY SameHost DEF ProxyPid, disk, GuestInv
<1>2. Live' = Live /\ Owned' = Owned /\ Daemons' = Daemons  BY SameTable DEF ProxyPid, disk
<1>3. CASE /\ repairing(p)
         /\ Goto(p, "unquiesce") /\ Keep
  <2>1. /\ pc'[p] = "unquiesce" /\ rec' = rec /\ vmm' = vmm
      /\ UNCHANGED <<op[p], r[p], pass[p], was[p], bad[p], child[p]>>
      /\ net' = net
    BY <1>3
       DEF ProxyPid, Goto, Keep, locals, disk, GuestInv, GateInv, TypeInv, DataOK, ControlOK
  <2>2. At(p)'
    BY <1>1, <1>2, <1>3, <2>1
       DEF GuestInv, At, Route, Stopped, Booting, Serving, Forced, Wired, Settled, Attached,
           cleaning, repairing
  <2>3. QED  BY <1>1, <1>3, <2>2, KeepAt
<1>4. CASE Goto(p, "postsave") /\ Keep
  <2>1. /\ pc'[p] = "postsave" /\ rec' = rec /\ vmm' = vmm
      /\ UNCHANGED <<op[p], r[p], pass[p], was[p], bad[p], child[p]>>
      /\ net' = net
    BY <1>4
       DEF ProxyPid, Goto, Keep, locals, disk, GuestInv, GateInv, TypeInv, DataOK, ControlOK
  <2>2. At(p)'
    BY <1>1, <1>2, <1>4, <2>1
       DEF GuestInv, At, Route, Stopped, Booting, Serving, Forced, Wired, Settled, Attached,
           cleaning, repairing
  <2>3. QED  BY <1>1, <1>4, <2>2, KeepAt
<1>5. CASE /\ ~repairing(p)
         /\ Goto(p, "abort") /\ Keep
  <2>1. /\ pc'[p] = "abort" /\ rec' = rec /\ vmm' = vmm
      /\ UNCHANGED <<op[p], r[p], pass[p], was[p], bad[p], child[p]>>
      /\ net' = net
    BY <1>5
       DEF ProxyPid, Goto, Keep, locals, disk, GuestInv, GateInv, TypeInv, DataOK, ControlOK
  <2>2. At(p)'
    BY <1>1, <1>2, <1>5, <2>1
       DEF GuestInv, At, Route, Stopped, Booting, Serving, Forced, Wired, Settled, Attached,
           cleaning, repairing
  <2>3. QED  BY <1>1, <1>5, <2>2, KeepAt
<1>6. CASE Return(p, "err")
  BY <1>1, <1>6, ReturnAt
<1>7. QED  BY <1>1, <1>3, <1>4, <1>5, <1>6 DEF ProxyPid, ProxyFails

(* The guest: net_linux.go, toggleNet.                                       *)
LEMMA UnquiesceGuest ==
    ASSUME Sober, GuestInv, TypeInv', NEW p \in Proc, Unquiesce(p)
    PROVE  HostInv' /\ \A x \in Proc : At(x)'
<1>1. HostInv' /\ pc[p] = "unquiesce"  BY SameHost DEF Unquiesce, disk, GuestInv
<1>2. Live' = Live /\ Owned' = Owned /\ Daemons' = Daemons  BY SameTable DEF Unquiesce, disk
<1>3. CASE Return(p, "ok")
  BY <1>1, <1>3, ReturnAt
<1>4. QED  BY <1>1, <1>3 DEF Unquiesce

(* The guest: utils.go, stopInstance.                                        *)
LEMMA KillProxyGuest ==
    ASSUME Sober, GuestInv, TypeInv', NEW p \in Proc, KillProxy(p)
    PROVE  HostInv' /\ \A x \in Proc : At(x)'
<1>1. HostInv' /\ pc[p] = "killproxy"  BY SameHost DEF KillProxy, disk, GuestInv
<1>2. Live' = Live /\ Owned' = Owned /\ Daemons' = Daemons  BY SameTable DEF KillProxy, disk
<1>3. CASE /\ op[p] \in {"stop", "restore"} /\ (~bad[p] \/ cleaning(p))
         /\ Goto(p, "quiesce") /\ Keep
  <2>1. /\ pc'[p] = "quiesce" /\ rec' = rec /\ vmm' = vmm
      /\ UNCHANGED <<op[p], r[p], pass[p], was[p], bad[p], child[p]>>
    BY <1>3
       DEF KillProxy, Goto, Keep, locals, disk, GuestInv, GateInv, TypeInv, DataOK, ControlOK
  <2>2. At(p)'
    BY <1>1, <1>2, <1>3, <2>1
       DEF GuestInv, At, Route, Stopped, Booting, Serving, Forced, Wired, Settled, Attached,
           cleaning, repairing
  <2>3. QED  BY <1>1, <1>3, <2>2, KeepAt
<1>4. CASE /\ op[p] \notin {"stop", "restore"} /\ (~bad[p] \/ cleaning(p))
         /\ Goto(p, "teardown") /\ Keep
  <2>1. /\ pc'[p] = "teardown" /\ rec' = rec /\ vmm' = vmm
      /\ UNCHANGED <<op[p], r[p], pass[p], was[p], bad[p], child[p]>>
    BY <1>4
       DEF KillProxy, Goto, Keep, locals, disk, GuestInv, GateInv, TypeInv, DataOK, ControlOK
  <2>2. At(p)'
    BY <1>1, <1>2, <1>4, <2>1
       DEF GuestInv, At, Route, Stopped, Booting, Serving, Forced, Wired, Settled, Attached,
           cleaning, repairing
  <2>3. QED  BY <1>1, <1>4, <2>2, KeepAt
<1>5. CASE Return(p, "err")
  BY <1>1, <1>5, ReturnAt
<1>6. QED  BY <1>1, <1>3, <1>4, <1>5 DEF KillProxy

(* The guest: net_linux.go, toggleNet.                                       *)
LEMMA QuiesceGuest ==
    ASSUME Sober, GuestInv, TypeInv', NEW p \in Proc, Quiesce(p)
    PROVE  HostInv' /\ \A x \in Proc : At(x)'
<1>1. HostInv' /\ pc[p] = "quiesce"  BY SameHost DEF Quiesce, disk, GuestInv
<1>2. Live' = Live /\ Owned' = Owned /\ Daemons' = Daemons  BY SameTable DEF Quiesce, disk
<1>3. CASE Goto(p, "stopsave") /\ Keep
  <2>1. /\ pc'[p] = "stopsave" /\ rec' = rec /\ vmm' = vmm
      /\ UNCHANGED <<op[p], r[p], pass[p], was[p], bad[p], child[p]>>
    BY <1>3 DEF Quiesce, Goto, Keep, locals, disk, GuestInv, GateInv, TypeInv, DataOK, ControlOK
  <2>2. At(p)'
    BY <1>1, <1>2, <1>3, <2>1
       DEF GuestInv, At, Route, Stopped, Booting, Serving, Forced, Wired, Settled, Attached,
           cleaning, repairing
  <2>3. QED  BY <1>1, <1>3, <2>2, KeepAt
<1>4. QED  BY <1>1, <1>3 DEF Quiesce

(* The guest: snapshot.go.                                                   *)
LEMMA ImageGuest ==
    ASSUME Sober, GuestInv, TypeInv', NEW p \in Proc, Image(p)
    PROVE  HostInv' /\ \A x \in Proc : At(x)'
<1>1. HostInv' /\ pc[p] = "image"  BY SameHost DEF Image, disk, host, GuestInv
<1>2. Live' = Live /\ Owned' = Owned /\ Daemons' = Daemons  BY SameTable DEF Image, disk, host
<1>3. CASE /\ op[p] = "restore"
         /\ Goto(p, "launch") /\ Keep
  <2>1. /\ pc'[p] = "launch" /\ rec' = rec /\ vmm' = vmm
      /\ UNCHANGED <<op[p], r[p], pass[p], was[p], bad[p], child[p]>>
    BY <1>3
       DEF Image, Goto, Keep, locals, disk, host, GuestInv, GateInv, TypeInv, DataOK, ControlOK
  <2>2. At(p)'
    BY <1>1, <1>2, <1>3, <2>1
       DEF GuestInv, At, Route, Stopped, Booting, Serving, Forced, Wired, Settled, Attached,
           cleaning, repairing
  <2>3. QED  BY <1>1, <1>3, <2>2, KeepAt
<1>4. CASE /\ op[p] # "run"
         /\ Goto(p, "imgsave") /\ Keep
  <2>1. /\ pc'[p] = "imgsave" /\ rec' = rec /\ vmm' = vmm
      /\ UNCHANGED <<op[p], r[p], pass[p], was[p], bad[p], child[p]>>
    BY <1>4
       DEF Image, Goto, Keep, locals, disk, host, GuestInv, GateInv, TypeInv, DataOK, ControlOK
  <2>2. At(p)'
    BY <1>1, <1>2, <1>4, <2>1
       DEF GuestInv, At, Route, Stopped, Booting, Serving, Forced, Wired, Settled, Attached,
           cleaning, repairing
  <2>3. QED  BY <1>1, <1>4, <2>2, KeepAt
<1>5. CASE Return(p, "ok") \/ Return(p, "err")
  BY <1>1, <1>5, ReturnAt
<1>6. QED  BY <1>1, <1>3, <1>4, <1>5 DEF Image

(* The guest: net_linux.go, teardownNet.                                     *)
LEMMA TeardownGuest ==
    ASSUME Sober, GuestInv, TypeInv', NEW p \in Proc, Teardown(p)
    PROVE  HostInv' /\ \A x \in Proc : At(x)'
<1>1. HostInv' /\ pc[p] = "teardown"  BY SameHost DEF Teardown, disk, GuestInv
<1>2. Live' = Live /\ Owned' = Owned /\ Daemons' = Daemons  BY SameTable DEF Teardown, disk
<1>3. CASE /\ op[p] = "rm"
         /\ Goto(p, "remove") /\ Keep
  <2>1. /\ pc'[p] = "remove" /\ rec' = rec /\ vmm' = vmm
      /\ UNCHANGED <<op[p], r[p], pass[p], was[p], bad[p], child[p]>>
    BY <1>3
       DEF Teardown, Goto, Keep, locals, disk, GuestInv, GateInv, TypeInv, DataOK, ControlOK
  <2>2. At(p)'
    BY LiveOwned, <1>1, <1>2, <1>3, <2>1
       DEF GuestInv, At, Route, Stopped, Booting, Serving, Forced, Wired, Settled, Attached,
           cleaning, repairing
  <2>3. QED  BY <1>1, <1>3, <2>2, KeepAt
<1>4. CASE /\ op[p] # "rm"
         /\ Goto(p, "reap") /\ Keep
  <2>1. /\ pc'[p] = "reap" /\ rec' = rec /\ vmm' = vmm
      /\ UNCHANGED <<op[p], r[p], pass[p], was[p], bad[p], child[p]>>
    BY <1>4
       DEF Teardown, Goto, Keep, locals, disk, GuestInv, GateInv, TypeInv, DataOK, ControlOK
  <2>2. At(p)'
    BY LiveOwned, <1>1, <1>2, <1>4, <2>1
       DEF GuestInv, At, Route, Stopped, Booting, Serving, Forced, Wired, Settled, Attached,
           cleaning, repairing
  <2>3. QED  BY <1>1, <1>4, <2>2, KeepAt
<1>5. CASE Return(p, "err")
  BY <1>1, <1>5, ReturnAt
<1>6. QED  BY <1>1, <1>3, <1>4, <1>5 DEF Teardown

-----------------------------------------------------------------------------
(* The steps of an operation that write vm.json or change the process's      *)
(* locals.                                                                   *)

(* withVMLock: a process starts with clean locals.                           *)
LEMMA AcquireGuest ==
    ASSUME Sober, GuestInv, TypeInv', NEW p \in Proc, Acquire(p)
    PROVE  HostInv' /\ \A x \in Proc : At(x)'
<1>1. HostInv'  BY SameHost DEF Acquire, disk, host, GuestInv
<1>2. \A x \in Proc : pc[x] = "idle"
  BY NoneAssumption DEF Acquire, GuestInv, GateInv, Mutex
<1>3. \A x \in Proc \ {p} : At(x)'
  BY <1>2, IdleAt DEF Acquire, GuestInv, GateInv, TypeInv, ControlOK
<1>4. /\ pc'[p] \in {"load", "scaffold"}
      /\ UNCHANGED <<was[p], bad[p], child[p]>>
  BY DEF Acquire, GuestInv, GateInv, TypeInv, ControlOK
<1>5. At(p)'
  BY <1>2, <1>4
     DEF GuestInv, At, Route, Stopped, Booting, Serving, Forced, Wired, Settled, Attached
<1>6. QED  BY <1>1, <1>3, <1>5

(* The guest: the CLI that is killed.                                        *)
LEMMA CrashGuest ==
    ASSUME Sober, GuestInv, TypeInv', NEW p \in Proc, Crash(p)
    PROVE  HostInv' /\ \A x \in Proc : At(x)'
<1>1. HostInv'  BY SameHost DEF Crash, disk, host, GuestInv
<1>2. QED  BY <1>1, ReturnAt DEF Crash

(* The guest: lifecycle.go, create.                                          *)
LEMMA ProvisionGuest ==
    ASSUME Sober, GuestInv, TypeInv', NEW p \in Proc, Provision(p)
    PROVE  HostInv' /\ \A x \in Proc : At(x)'
<1>1. HostInv' /\ pc[p] = "provision"  BY SameHost DEF Provision, disk, GuestInv
<1>2. op[p] \in {"create", "run"} /\ was[p] # "gated"
  BY <1>1 DEF GuestInv, GateInv, FreshDir, Making, At, Forced
<1>3. CASE Goto(p, "reap") /\ Keep
  <2>1. pc'[p] = "reap" /\ UNCHANGED <<op[p], was[p], bad[p]>>
    BY <1>3 DEF Goto, Keep, locals, GuestInv, GateInv, TypeInv, ControlOK
  <2>2. At(p)'
    BY <1>1, <1>2, <2>1
       DEF GuestInv, At, Route, Stopped, Booting, Serving, Forced, Wired, Settled, Attached
  <2>3. QED  BY <1>1, <1>3, <2>2, KeepAt
<1>4. ASSUME NEW m \in Mode, NEW vnc \in BOOLEAN, NEW pw \in BOOLEAN,
             r' = [r EXCEPT ![p] = [pid |-> None, vnc |-> vnc, passSet |-> FALSE, mode |-> m]],
             pass' = [pass EXCEPT ![p] = pw],
             net' = IF owned(m) THEN "up" ELSE "absent",
             Goto(p, "commit"), UNCHANGED <<op, was, bad, child>>
      PROVE  \A x \in Proc : At(x)'
  <2>1. /\ pc'[p] = "commit" /\ r'[p].pid = None /\ net' # "quiesced"
        /\ UNCHANGED <<op[p], was[p], bad[p]>>
    BY <1>4 DEF Goto, GuestInv, GateInv, TypeInv, ControlOK
  <2>2. At(p)'
    BY <1>1, <1>2, <2>1
       DEF GuestInv, At, Route, Stopped, Booting, Serving, Forced, Wired, Settled, Attached
  <2>3. \A x \in Proc \ {p} : /\ pc'[x] = pc[x] /\ child'[x] = child[x]
                              /\ was'[x] = was[x] /\ bad'[x] = bad[x]
    BY <1>4 DEF Goto, GuestInv, GateInv, TypeInv, ControlOK
  <2>4. QED  BY <1>1, <2>2, <2>3, OnlyAt
<1>5. QED  BY <1>1, <1>3, <1>4 DEF Provision

(* The guest: lifecycle.go, createVM, its save.                              *)
LEMMA CommitGuest ==
    ASSUME Sober, GuestInv, TypeInv', NEW p \in Proc, Commit(p)
    PROVE  HostInv' /\ \A x \in Proc : At(x)'
<1>1. pc[p] = "commit" /\ Owned = {} /\ op[p] \in {"create", "run"}
  BY DEF Commit, GuestInv, GateInv, FreshDir, Making
<1>2. r[p] \in Record /\ r[p].pid \notin Pid /\ was[p] # "gated"
  BY <1>1, NoneAssumption
     DEF GuestInv, GateInv, TypeInv, ControlOK, WithRecord, PC, At, Stopped, Forced
<1>3. Live' = Live /\ Owned' = {}  BY <1>1, SameTable DEF Commit, host
<1>4. HostInv'
  <2>1. CASE UNCHANGED rec  BY <2>1, SameHost DEF Commit, host, GuestInv
  <2>2. CASE rec' = r[p]
    BY <1>1, <1>2, <2>2, SaveHost, RecordAssumption DEF Commit, host, GuestInv
  <2>3. QED  BY <2>1, <2>2 DEF Commit
<1>5. CASE rec' = r[p] /\ op[p] = "run" /\ Goto(p, "launch") /\ Keep
  <2>1. /\ pc'[p] = "launch" /\ rec' = r[p] /\ net' = net
        /\ UNCHANGED <<op[p], r[p], was[p], bad[p]>>
    BY <1>5 DEF Commit, host, Goto, Keep, locals, GuestInv, GateInv, TypeInv, ControlOK
  <2>2. At(p)'
    BY <1>1, <1>2, <1>3, <1>5, <2>1
       DEF GuestInv, At, Route, Stopped, Booting, Serving, Forced, Wired, Settled, Attached,
           Live
  <2>3. QED  BY <1>1, <1>4, <1>5, <2>2, KeepAt
<1>6. CASE Goto(p, "kill") /\ Keep
  <2>1. pc'[p] = "kill" /\ UNCHANGED <<op[p], was[p], bad[p]>>
    BY <1>6 DEF Goto, Keep, locals, GuestInv, GateInv, TypeInv, ControlOK
  <2>2. At(p)'
    BY <1>1, <1>2, <2>1
       DEF GuestInv, At, Route, Stopped, Booting, Serving, Forced, Wired, Settled, Attached,
           cleaning
  <2>3. QED  BY <1>1, <1>4, <1>6, <2>2, KeepAt
<1>7. CASE Return(p, "ok")  BY <1>1, <1>4, <1>7, ReturnAt
<1>8. QED  BY <1>5, <1>6, <1>7 DEF Commit

(* VNCPassSet is saved while no QEMU runs that it could be wrong about.      *)
LEMMA PresaveGuest ==
    ASSUME Sober, GuestInv, TypeInv', NEW p \in Proc, Presave(p)
    PROVE  HostInv' /\ \A x \in Proc : At(x)'
<1> DEFINE gated == [r[p] EXCEPT !.passSet = pass[p]]
<1>1. /\ pc[p] = "presave" /\ Owned = {} /\ r[p].pid \notin Live
      /\ op[p] \in {"run", "start", "restore"}
  BY DEF Presave, GuestInv, At, Stopped, Settled, Route
<1>2. r[p] \in Record /\ pass[p] \in BOOLEAN
  BY <1>1 DEF GuestInv, GateInv, TypeInv, ControlOK, WithRecord, PC
<1>3. /\ gated \in Record /\ gated.pid = r[p].pid
      /\ gated.vnc = r[p].vnc /\ gated.passSet = pass[p]
  BY <1>2 DEF Record
<1>4. Live' = Live /\ Owned' = {}  BY <1>1, SameTable DEF Presave, host
<1>5. HostInv'
  <2>1. CASE UNCHANGED rec  BY <2>1, SameHost DEF Presave, host, GuestInv
  <2>2. CASE rec' = gated
    BY <1>1, <1>3, <2>2, SaveHost, RecordAssumption DEF Presave, host, GuestInv
  <2>3. QED  BY <2>1, <2>2 DEF Presave
<1>6. CASE /\ rec' = gated /\ r' = [r EXCEPT ![p] = gated]
           /\ Goto(p, "exec") /\ UNCHANGED <<op, pass, was, bad, child>>
  <2>1. /\ pc'[p] = "exec" /\ r'[p] = gated /\ rec' = gated /\ net' = net
        /\ UNCHANGED <<op[p], pass[p], was[p], bad[p]>>
    BY <1>6 DEF Presave, host, Goto, GuestInv, GateInv, TypeInv, ControlOK
  <2>2. At(p)'
    BY <1>1, <1>3, <1>4, <2>1
       DEF GuestInv, At, Route, Stopped, Booting, Serving, Forced, Wired, Settled, Attached
  <2>3. \A x \in Proc \ {p} : /\ pc'[x] = pc[x] /\ child'[x] = child[x]
                              /\ was'[x] = was[x] /\ bad'[x] = bad[x]
    BY <1>6 DEF Goto, GuestInv, GateInv, TypeInv, ControlOK
  <2>4. QED  BY <1>1, <1>5, <2>2, <2>3, OnlyAt
<1>7. CASE LaunchFails(p)  BY <1>1, <1>5, <1>7, LaunchFailsAt
<1>8. QED  BY <1>6, <1>7 DEF Presave

(* The guest: ReadPIDFile after a front process that exited with 0.          *)
LEMMA ReadPidGuest ==
    ASSUME Sober, GuestInv, TypeInv', NEW p \in Proc, ReadPid(p)
    PROVE  HostInv' /\ \A x \in Proc : At(x)'
<1>1. HostInv' /\ pc[p] = "readpid"  BY SameHost DEF ReadPid, disk, host, GuestInv
<1>2. Live' = Live /\ Owned' = Owned /\ Daemons' = Daemons
  BY SameTable DEF ReadPid, host
<1>3. /\ r[p] \in Record /\ op[p] \in {"run", "start", "restore"}
      /\ rec.vnc = r[p].vnc /\ rec.passSet = r[p].passSet
  BY <1>1
     DEF GuestInv, GateInv, TypeInv, ControlOK, WithRecord, PC, At, Route, Booting
<1>4. CASE LaunchFails(p)  BY <1>1, <1>4, LaunchFailsAt
<1>5. ASSUME NEW l \in {"setpass", "proxy", "postsave"}, child[p] \in Live, Goto(p, l),
             pass[p] => l = "setpass",
             r' = [r EXCEPT ![p].pid = child[p]], UNCHANGED <<op, pass, was, bad, child>>
      PROVE  \A x \in Proc : At(x)'
  <2>1. child[p] \in Pid /\ Daemons \subseteq {child[p]}
    BY <1>1, <1>5 DEF GuestInv, HostInv, Sole, At, Booting, Live
  <2>2. /\ r'[p].pid = child[p] /\ r'[p].vnc = r[p].vnc /\ r'[p].passSet = r[p].passSet
    BY <1>3, <1>5 DEF Record, GuestInv, GateInv, TypeInv, ControlOK
  <2>3. /\ pc'[p] = l /\ net' = net /\ rec' = rec /\ vmm' = vmm
        /\ UNCHANGED <<op[p], pass[p], was[p], bad[p], child[p]>>
    BY <1>5 DEF ReadPid, disk, host, Goto, GuestInv, GateInv, TypeInv, ControlOK
  <2>4. At(p)'
    BY <1>1, <1>2, <1>3, <1>5, <2>1, <2>2, <2>3
       DEF GuestInv, At, Route, Stopped, Booting, Serving, Forced, Wired, Settled, Attached
  <2>5. \A x \in Proc \ {p} : /\ pc'[x] = pc[x] /\ child'[x] = child[x]
                              /\ was'[x] = was[x] /\ bad'[x] = bad[x]
    BY <1>5 DEF Goto, GuestInv, GateInv, TypeInv, ControlOK
  <2>6. QED  BY <1>1, <2>4, <2>5, OnlyAt
<1>6. QED  BY <1>1, <1>4, <1>5 DEF ReadPid

(* The pid that is saved is that of the VM's daemon.                         *)
LEMMA PostsaveGuest ==
    ASSUME Sober, GuestInv, TypeInv', NEW p \in Proc, Postsave(p)
    PROVE  HostInv' /\ \A x \in Proc : At(x)'
<1>1. /\ pc[p] = "postsave" /\ rec # None /\ op[p] \in {"run", "start", "restore"}
  BY DEF Postsave, GuestInv, GateInv, SameMode, OnRecord, WithRecord, PC, At, Route, Attached
<1>2. /\ r[p] \in Record /\ rec.vnc = r[p].vnc /\ rec.passSet = r[p].passSet
      /\ r[p].pid \in Live => Daemons \subseteq {r[p].pid}
  BY <1>1 DEF GuestInv, GateInv, TypeInv, ControlOK, WithRecord, PC, At, Booting, Attached
<1>3. Live' = Live /\ Owned' = Owned /\ Daemons' = Daemons
  BY SameTable DEF Postsave, host
<1>4. HostInv'
  <2>1. CASE UNCHANGED rec  BY <2>1, SameHost DEF Postsave, host, GuestInv
  <2>2. CASE rec' = r[p]
    <3>1. Paired' /\ Sole'  BY SameTable DEF Postsave, host, GuestInv, HostInv
    <3>2. Tracked'  BY <1>2, <1>3, <2>2 DEF Tracked
    <3>3. Described'
      BY <1>1, <1>2, <1>3, <2>2 DEF Postsave, host, GuestInv, HostInv, Described, Shown
    <3>4. Kept'
      BY <1>2, <1>3, <2>2, RecordAssumption DEF Postsave, host, GuestInv, HostInv, Kept
    <3>5. QED  BY <3>1, <3>2, <3>3, <3>4 DEF HostInv
  <2>3. QED  BY <2>1, <2>2 DEF Postsave
<1>5. CASE op[p] # "run" /\ Goto(p, "unquiesce") /\ Keep
  <2>1. /\ pc'[p] = "unquiesce" /\ vmm' = vmm
        /\ UNCHANGED <<op[p], pass[p], was[p], bad[p], child[p]>>
    BY <1>5 DEF Postsave, host, Goto, Keep, locals, GuestInv, GateInv, TypeInv, ControlOK
  <2>2. At(p)'
    BY <1>1, <1>3, <1>5, <2>1
       DEF GuestInv, At, Route, Stopped, Booting, Serving, Forced, Wired, Settled, Attached
  <2>3. QED  BY <1>1, <1>4, <1>5, <2>2, KeepAt
<1>6. CASE Return(p, "ok")  BY <1>1, <1>4, <1>6, ReturnAt
<1>7. CASE LaunchFails(p)  BY <1>1, <1>4, <1>7, LaunchFailsAt
<1>8. QED  BY <1>5, <1>6, <1>7 DEF Postsave

(* The pid is forgotten once no QEMU of the VM runs.                         *)
LEMMA StopSaveGuest ==
    ASSUME Sober, GuestInv, TypeInv', NEW p \in Proc, StopSave(p)
    PROVE  HostInv' /\ \A x \in Proc : At(x)'
<1> DEFINE stopped == IF op[p] = "stop"
                      THEN [r[p] EXCEPT !.pid = None, !.vnc = FALSE, !.passSet = FALSE]
                      ELSE [r[p] EXCEPT !.pid = None]
<1>1. /\ pc[p] = "stopsave" /\ Owned = {} /\ op[p] \in {"stop", "restore"}
      /\ child[p] = None
  BY DEF StopSave, GuestInv, At, Stopped, Route, Serving
<1>2. r[p] \in Record
  BY <1>1 DEF GuestInv, GateInv, TypeInv, ControlOK, WithRecord, PC
<1>3. stopped \in Record /\ stopped.pid = None  BY <1>2 DEF Record
<1>4. Live' = Live /\ Owned' = {} /\ None \notin Live
  BY <1>1, SameTable, NoneAssumption DEF StopSave, host, Live
<1>5. HostInv'
  <2>1. CASE UNCHANGED rec  BY <2>1, SameHost DEF StopSave, host, GuestInv
  <2>2. CASE rec' = stopped
    BY <1>1, <1>3, <2>2, SaveHost, RecordAssumption DEF StopSave, host, GuestInv
  <2>3. QED  BY <2>1, <2>2 DEF StopSave
<1>6. CASE /\ op[p] # "stop" /\ rec' = stopped /\ r' = [r EXCEPT ![p] = stopped]
           /\ Goto(p, "image") /\ UNCHANGED <<op, pass, was, bad, child>>
  <2>1. /\ pc'[p] = "image" /\ r'[p] = stopped
        /\ UNCHANGED <<op[p], pass[p], was[p], bad[p], child[p]>>
    BY <1>6 DEF Goto, GuestInv, GateInv, TypeInv, ControlOK
  <2>2. At(p)'
    <3> HIDE DEF stopped
    <3>1. QED
      BY <1>1, <1>3, <1>4, <1>6, <2>1
         DEF GuestInv, At, Route, Stopped, Booting, Serving, Forced, Wired, Settled, Attached
  <2>3. \A x \in Proc \ {p} : /\ pc'[x] = pc[x] /\ child'[x] = child[x]
                              /\ was'[x] = was[x] /\ bad'[x] = bad[x]
    BY <1>6 DEF Goto, GuestInv, GateInv, TypeInv, ControlOK
  <2>4. QED  BY <1>1, <1>5, <2>2, <2>3, OnlyAt
<1>7. CASE Return(p, "ok") \/ Return(p, "err")  BY <1>1, <1>5, <1>7, ReturnAt
<1>8. QED  BY <1>6, <1>7 DEF StopSave

(* The guest: snapshot.go, the save of a stopped VM.                         *)
LEMMA ImgSaveGuest ==
    ASSUME Sober, GuestInv, TypeInv', NEW p \in Proc, ImgSave(p)
    PROVE  HostInv' /\ \A x \in Proc : At(x)'
<1>1. pc[p] = "imgsave" /\ Owned = {}
  BY DEF ImgSave, GuestInv, At, Stopped, Settled
<1>2. r[p] \in Record
  BY <1>1 DEF GuestInv, GateInv, TypeInv, ControlOK, WithRecord, PC
<1>3. HostInv'
  <2>1. CASE UNCHANGED rec  BY <2>1, SameHost DEF ImgSave, host, GuestInv
  <2>2. CASE rec' = r[p]
    BY <1>1, <1>2, <2>2, SaveHost, RecordAssumption DEF ImgSave, host, GuestInv
  <2>3. QED  BY <2>1, <2>2 DEF ImgSave
<1>4. QED  BY <1>1, <1>3, ReturnAt DEF ImgSave

(* What an operation does with a record it has reconciled with the host.     *)
LEMMA DispatchGuest ==
    ASSUME GuestInv, NEW p \in Proc, pc[p] = "load", NEW rc \in Record, NEW running \in BOOLEAN,
           Dispatch(p, rc, running), rec # None, rec' = rc, UNCHANGED <<vmm, net>>,
           rc.vnc = rec.vnc, rc.passSet = rec.passSet,
           running => Daemons \subseteq {rc.pid} /\ rc.pid \in Pid,
           ~running => Live = {}
    PROVE  \A x \in Proc : At(x)'
<1> USE DEF GuestInv
<1>1. /\ Live' = Live /\ Owned' = Owned /\ Daemons' = Daemons
      /\ Live = {} => Owned = {} /\ Daemons = {}
  BY SameTable DEF Owned, Daemons
<1>2. child[p] = None /\ ("kill" \notin Faults => ~bad[p])
  BY DEF At, Serving, Stopped
<1>3. ASSUME NEW l, Goto(p, l), NEW rx, r' = [r EXCEPT ![p] = rx],
             pass' \in [Proc -> BOOLEAN], \A x \in Proc \ {p} : was'[x] = was[x],
             UNCHANGED <<op, bad, child>>, At(p)'
      PROVE  \A x \in Proc : At(x)'
  <2>1. \A x \in Proc \ {p} : /\ pc'[x] = pc[x] /\ child'[x] = child[x]
                              /\ was'[x] = was[x] /\ bad'[x] = bad[x]
    BY <1>3 DEF Goto, GateInv, TypeInv, ControlOK
  <2>2. QED  BY <1>3, <2>1, OnlyAt
<1>4. CASE Return(p, "err")  BY <1>4, ReturnAt
<1>5. CASE /\ op[p] = "start" /\ running
           /\ Goto(p, IF hasNetns(rc.mode) /\ rc.vnc /\ proxy # "listed"
                      THEN "proxy" ELSE "unquiesce")
           /\ r' = [r EXCEPT ![p] = rc]
           /\ was' = [was EXCEPT ![p] = "running"]
           /\ UNCHANGED <<op, pass, bad, child>>
  <2>1. PICK l \in {"proxy", "unquiesce"} : Goto(p, l)  BY <1>5
  <2>2. /\ pc'[p] = l /\ r'[p] = rc /\ was'[p] = "running"
        /\ UNCHANGED <<op[p], bad[p], child[p], pass[p]>>
    BY <1>5, <2>1 DEF Goto, GateInv, TypeInv, ControlOK
  <2>3. At(p)'
    BY <1>1, <1>2, <1>5, <2>2, NoneAssumption
       DEF At, Route, Stopped, Booting, Serving, Forced, Wired, Settled, Attached, Live,
           repairing
  <2>4. QED  BY <1>3, <1>5, <2>1, <2>3 DEF GateInv, TypeInv, ControlOK
<1>6. CASE /\ op[p] = "start" /\ ~running
           /\ \E vnc, pw \in BOOLEAN :
                /\ r' = [r EXCEPT ![p] = [rc EXCEPT !.vnc = vnc]]
                /\ pass' = [pass EXCEPT ![p] = pw]
           /\ Goto(p, "launch")
           /\ UNCHANGED <<op, was, bad, child>>
  <2>1. PICK vnc \in BOOLEAN, pw \in BOOLEAN :
            /\ r' = [r EXCEPT ![p] = [rc EXCEPT !.vnc = vnc]]
            /\ pass' = [pass EXCEPT ![p] = pw]
    BY <1>6
  <2>2. /\ pc'[p] = "launch" /\ UNCHANGED <<op[p], was[p], bad[p], child[p]>>
    BY <1>6 DEF Goto, GateInv, TypeInv, ControlOK
  <2>3. At(p)'
    BY <1>1, <1>2, <1>6, <2>2
       DEF At, Route, Stopped, Booting, Serving, Forced, Wired, Settled, Attached
  <2>4. QED  BY <1>3, <1>6, <2>1, <2>3 DEF GateInv, TypeInv, ControlOK
<1>7. CASE /\ \/ op[p] \in {"stop", "rm"} /\ Goto(p, "kill")
              \/ op[p] \in {"snapshot", "clone", "restore"} /\ ~running /\ Goto(p, "image")
           /\ r' = [r EXCEPT ![p] = rc]
           /\ UNCHANGED <<op, pass, was, bad, child>>
  <2>1. PICK l \in {"kill", "image"} :
            /\ Goto(p, l)
            /\ l = "kill" => op[p] \in {"stop", "rm"}
            /\ l = "image" => op[p] \in {"snapshot", "clone", "restore"} /\ ~running
    BY <1>7
  <2>2. /\ pc'[p] = l /\ r'[p] = rc /\ UNCHANGED <<op[p], pass[p], was[p], bad[p], child[p]>>
    BY <1>7, <2>1 DEF Goto, GateInv, TypeInv, ControlOK
  <2>3. At(p)'
    BY <1>1, <1>2, <2>1, <2>2
       DEF At, Route, Stopped, Booting, Serving, Forced, Wired, Settled, Attached
  <2>4. QED  BY <1>3, <1>7, <2>1, <2>3 DEF GateInv, TypeInv, ControlOK
<1>8. CASE /\ op[p] = "restore" /\ running
           /\ \E pw \in BOOLEAN :
                /\ pw \/ ~NeedsPassword(rc)
                /\ pass' = [pass EXCEPT ![p] = pw]
           /\ r' = [r EXCEPT ![p] = rc]
           /\ was' = [was EXCEPT ![p] = IF \E q \in Owned : vmm[q].disp \in {"locked", "set"}
                                        THEN "gated" ELSE "running"]
           /\ Goto(p, "kill")
           /\ UNCHANGED <<op, bad, child>>
  <2>1. PICK pw \in BOOLEAN : (pw \/ ~NeedsPassword(rc)) /\ pass' = [pass EXCEPT ![p] = pw]
    BY <1>8
  <2>2. /\ pc'[p] = "kill" /\ r'[p] = rc /\ pass'[p] = pw
        /\ UNCHANGED <<op[p], bad[p], child[p]>>
    BY <1>8, <2>1 DEF Goto, GateInv, TypeInv, ControlOK
  <2>3. was'[p] = "gated" => pass'[p]
    <3>1. SUFFICES ASSUME NEW q \in Owned, vmm[q].disp \in {"locked", "set"} PROVE pw
      BY <1>8, <2>2 DEF GateInv, TypeInv, ControlOK
    <3>2. rc.vnc /\ rc.passSet  BY <3>1 DEF HostInv, Described, Shown
    <3>3. QED  BY <2>1, <3>2 DEF NeedsPassword
  <2>4. At(p)'
    BY <1>1, <1>2, <1>8, <2>2, <2>3
       DEF At, Route, Stopped, Booting, Serving, Forced, Wired, Settled, Attached
  <2>5. QED  BY <1>3, <1>8, <2>1, <2>4 DEF GateInv, TypeInv, ControlOK
<1>9. QED  BY <1>4, <1>5, <1>6, <1>7, <1>8 DEF Dispatch

(* The guest: utils.go, loadRec, reconcileRunningQEMU.                       *)
LEMMA LoadGuest ==
    ASSUME Sober, GuestInv, TypeInv', NEW p \in Proc, Load(p)
    PROVE  HostInv' /\ \A x \in Proc : At(x)'
<1>1. pc[p] = "load" /\ UNCHANGED <<vmm, net>>  BY DEF Load, host
<1>2. CASE /\ UNCHANGED rec
           /\ \/ op[p] = "rm" /\ Goto(p, "reap") /\ Keep
              \/ \E result \in {"ok", "err"} : Return(p, result)
  <2>1. HostInv'  BY <1>1, <1>2, SameHost DEF GuestInv
  <2>2. ASSUME op[p] = "rm", Goto(p, "reap"), Keep PROVE At(p)'
    <3>1. pc'[p] = "reap" /\ UNCHANGED <<op[p], pass[p], was[p], bad[p]>>
      BY <2>2 DEF Goto, Keep, locals, GuestInv, GateInv, TypeInv, ControlOK
    <3>2. QED
      BY <1>1, <2>2, <3>1
         DEF GuestInv, At, Route, Stopped, Booting, Serving, Forced, Wired, Settled, Attached
  <2>3. QED  BY <1>1, <1>2, <2>1, <2>2, KeepAt, ReturnAt
<1>3. ASSUME rec # None, UNCHANGED rec, NEW running \in BOOLEAN, Dispatch(p, rec, running),
             running => rec.pid \in Live, ~running => Live = {}
      PROVE  HostInv' /\ \A x \in Proc : At(x)'
  <2>1. HostInv'  BY <1>1, <1>3, SameHost DEF GuestInv
  <2>2. rec \in Record  BY <1>3 DEF GuestInv, GateInv, TypeInv, DataOK
  <2>3. rec.pid \in Live => Daemons \subseteq {rec.pid} /\ rec.pid \in Pid
    BY <1>3 DEF GuestInv, HostInv, Tracked, Live
  <2>4. QED  BY <1>1, <1>3, <2>1, <2>2, <2>3, DispatchGuest
<1>4. ASSUME rec # None, NEW q \in Pid, Live = {q}, rec' = [rec EXCEPT !.pid = q],
             Dispatch(p, [rec EXCEPT !.pid = q], TRUE)
      PROVE  HostInv' /\ \A x \in Proc : At(x)'
  <2> DEFINE adopted == [rec EXCEPT !.pid = q]
  <2>1. rec \in Record  BY <1>4 DEF GuestInv, GateInv, TypeInv, DataOK
  <2>2. /\ adopted \in Record /\ adopted.pid = q
        /\ adopted.vnc = rec.vnc /\ adopted.passSet = rec.passSet
    BY <2>1 DEF Record
  <2>3. Daemons \subseteq {q}  BY <1>4 DEF Daemons, Owned
  <2>4. HostInv'
    <3>1. Paired' /\ Sole' /\ Daemons' = Daemons /\ Owned' = Owned /\ Live' = Live
      BY <1>1, SameTable DEF GuestInv, HostInv
    <3>2. Tracked'  BY <1>4, <2>2, <2>3, <3>1 DEF Tracked
    <3>3. Described'  BY <1>1, <1>4, <2>2, <3>1 DEF GuestInv, HostInv, Described, Shown
    <3>4. Kept'  BY <1>1, <1>4, <2>2, <3>1, RecordAssumption DEF GuestInv, HostInv, Kept
    <3>5. QED  BY <3>1, <3>2, <3>3, <3>4 DEF HostInv
  <2>5. \A x \in Proc : At(x)'  BY <1>1, <1>4, <2>2, <2>3, DispatchGuest
  <2>6. QED  BY <2>4, <2>5
<1>5. QED  BY <1>2, <1>3, <1>4 DEF Load, isRunning, Scan

-----------------------------------------------------------------------------
(* The steps of an operation that change the process table.                  *)

(* The process table once a front process f has forked its daemon d.         *)
Started(front, f, d) == [vmm EXCEPT ![f] = front, ![d] = DaemonOf(front, f)]

(* c.Run: the front process and its daemon are the VM's only ones.           *)
LEMMA ExecTable ==
    ASSUME GuestInv, TypeInv', NEW p \in Proc, pc[p] = "exec", NEW f \in Free, NEW d \in Free \ {f},
           f # rec.pid, UNCHANGED rec, NEW front \in VMM,
           front.phase = "front", ~front.orphan,
           front.disp = IF ~r[p].vnc THEN "off" ELSE IF pass[p] THEN "locked" ELSE "open",
           vmm' = Started(front, f, d)
    PROVE  HostInv' /\ f \in Owned' /\ vmm'[f] = front
<1>1. /\ Owned = {} /\ rec.pid \notin Live /\ rec = r[p] /\ r[p].passSet = pass[p]
      /\ rec # None
  BY DEF GuestInv, At, Stopped, Settled, Booting, GateInv, SameMode, OnRecord, WithRecord, PC
<1>2. rec \in Record  BY <1>1 DEF GuestInv, GateInv, TypeInv, DataOK
<1>3. f \in Pid /\ d \in Pid /\ f # d /\ vmm[f].phase = "dead" /\ vmm[d].phase = "dead"
  BY DEF Free, Live
<1>4. /\ vmm'[f] = front
      /\ vmm'[d].phase = "init" /\ vmm'[d].front = f /\ vmm'[d].disp = front.disp
      /\ ~vmm'[d].orphan
      /\ \A q \in Pid \ {f, d} : vmm'[q] = vmm[q]
  BY <1>3 DEF Started, DaemonOf, VMM, GuestInv, GateInv, TypeInv, DataOK
<1>5. /\ vmm'[f].phase = "front" /\ ~vmm'[f].orphan /\ vmm'[f].disp = vmm'[d].disp
      /\ vmm'[d].disp # "set"
  BY <1>4
<1>6. Live' = Live \cup {f, d}
  <2>1. \A q \in Pid : vmm'[q].phase # "dead" <=> vmm[q].phase # "dead" \/ q \in {f, d}
    BY <1>3, <1>4, <1>5
  <2>2. QED  BY <1>3, <2>1 DEF Live
<1>7. Owned' = {f, d} /\ Daemons' = {d}
  <2>1. \A q \in Live : vmm[q].orphan /\ vmm'[q] = vmm[q]
    BY <1>1, <1>3, <1>4 DEF Owned, Live
  <2>2. Owned' = {f, d}  BY <1>4, <1>5, <1>6, <2>1 DEF Owned
  <2>3. QED  BY <1>3, <1>4, <1>5, <2>2 DEF Daemons
<1>8. Paired'
  <2>1. ASSUME NEW q \in Pid, vmm'[q].phase = "front"
        PROVE  \E e \in Pid : vmm'[e].phase = "init" /\ vmm'[e].front = q
    <3>1. CASE q = f  BY <1>3, <1>4, <3>1
    <3>2. CASE q # f
      <4>1. q # d /\ vmm[q].phase = "front"  BY <1>4, <2>1, <3>2
      <4>2. PICK e \in Pid : vmm[e].phase = "init" /\ vmm[e].front = q
        BY <4>1 DEF GuestInv, HostInv, Paired
      <4>3. vmm'[e] = vmm[e]  BY <1>3, <1>4, <4>2
      <4>4. QED  BY <4>2, <4>3
    <3>3. QED  BY <3>1, <3>2
  <2>2. ASSUME NEW e \in Pid, vmm'[e].phase = "init", e # d
        PROVE  /\ vmm'[e] = vmm[e] /\ vmm[e].front \in Pid \ {f, d}
               /\ vmm'[vmm[e].front] = vmm[vmm[e].front]
    <3>1. e # f /\ vmm'[e] = vmm[e]  BY <1>4, <1>5, <2>2
    <3>2. vmm[e].front \in Pid /\ vmm[vmm[e].front].phase = "front"
      BY <2>2, <3>1 DEF GuestInv, HostInv, Paired
    <3>3. QED  BY <1>3, <1>4, <3>1, <3>2
  <2>3. ASSUME NEW e \in Pid, vmm'[e].phase = "init"
        PROVE  /\ vmm'[e].front \in Pid
               /\ vmm'[vmm'[e].front].phase = "front"
               /\ vmm'[vmm'[e].front].orphan = vmm'[e].orphan
               /\ vmm'[vmm'[e].front].disp = vmm'[e].disp
               /\ vmm'[e].disp # "set"
    <3>1. CASE e = d
      <4>1. vmm'[e].front = f /\ vmm'[e].disp = vmm'[d].disp /\ ~vmm'[e].orphan
        BY <1>4, <3>1
      <4>2. vmm'[f].orphan = vmm'[e].orphan
        <5>1. vmm'[f].orphan = FALSE /\ vmm'[e].orphan = FALSE
          BY <1>3, <1>5, <4>1, <2>3 DEF VMM, TypeInv, DataOK
        <5>2. QED  BY <5>1
      <4>3. QED  BY <1>3, <1>5, <4>1, <4>2
    <3>2. CASE e # d
      <4> DEFINE h == vmm[e].front
      <4>1. vmm'[e] = vmm[e] /\ h \in Pid /\ vmm'[h] = vmm[h]  BY <2>2, <2>3, <3>2
      <4>2. /\ vmm[h].phase = "front" /\ vmm[h].orphan = vmm[e].orphan
            /\ vmm[h].disp = vmm[e].disp /\ vmm[e].disp # "set"
        BY <2>3, <4>1 DEF GuestInv, HostInv, Paired
      <4>3. QED  BY <4>1, <4>2
    <3>3. QED  BY <3>1, <3>2
  <2>4. ASSUME NEW e \in Pid, NEW g \in Pid, vmm'[e].phase = "init", vmm'[g].phase = "init",
               vmm'[e].front = vmm'[g].front
        PROVE  e = g
    <3>1. CASE e # d /\ g # d  BY <2>2, <2>4, <3>1 DEF GuestInv, HostInv, Paired
    <3>2. CASE e = d \/ g = d
      <4>1. e # d => vmm'[e].front # f  BY <2>2, <2>4
      <4>2. g # d => vmm'[g].front # f  BY <2>2, <2>4
      <4>3. QED  BY <1>4, <2>4, <3>2, <4>1, <4>2
    <3>3. QED  BY <3>1, <3>2
  <2>5. QED  BY <2>1, <2>3, <2>4 DEF Paired
<1>9. Sole'  BY <1>7 DEF Sole
<1>10. Tracked'  BY <1>1, <1>6, <1>7 DEF Tracked
<1>11. Described'
  <2>1. /\ rec.vnc = (front.disp # "off")
        /\ front.disp \in {"locked", "set"} => rec.passSet
        /\ front.disp = "open" => ~rec.passSet
    BY <1>1, <1>2 DEF Record
  <2>2. QED  BY <1>4, <1>7, <2>1 DEF Described, Shown
<1>12. Kept'  BY <1>1, <1>4, <1>5, <1>6, <1>3 DEF GuestInv, HostInv, Kept, Live
<1>13. QED  BY <1>4, <1>7, <1>8, <1>9, <1>10, <1>11, <1>12 DEF HostInv

(* The guest: lifecycle.go, launch, its c.Run.                               *)
LEMMA ExecGuest ==
    ASSUME Sober, GuestInv, TypeInv', NEW p \in Proc, Exec(p)
    PROVE  HostInv' /\ \A x \in Proc : At(x)'
<1> DEFINE front == [phase |-> "front", front |-> None, orphan |-> FALSE,
                     disp |-> IF ~r[p].vnc THEN "off" ELSE IF pass[p] THEN "locked" ELSE "open"]
<1>1. /\ pc[p] = "exec" /\ op[p] \in {"run", "start", "restore"}
      /\ rec = r[p]
      /\ was[p] = "gated" => pass[p]
  BY DEF Exec, GuestInv, At, Route, Booting, Forced
<1>2. /\ front \in VMM /\ front.phase = "front" /\ ~front.orphan
      /\ front.disp = IF ~r[p].vnc THEN "off" ELSE IF pass[p] THEN "locked" ELSE "open"
  BY DEF VMM, Display
<1>3. CASE UNCHANGED vmm /\ LaunchFails(p)
  BY <1>1, <1>3, SameHost, LaunchFailsAt DEF Exec, disk, GuestInv
<1>4. ASSUME NEW f \in Free, f # rec.pid, NEW d \in Free \ {f},
             vmm' = [vmm EXCEPT ![f] = front, ![d] = DaemonOf(front, f)],
             child' = [child EXCEPT ![p] = f], Goto(p, "wait"), UNCHANGED <<op, r, pass, was, bad>>
      PROVE  HostInv' /\ \A x \in Proc : At(x)'
  <2>1. HostInv' /\ f \in Owned' /\ vmm'[f] = front
    <3>1. UNCHANGED rec  BY DEF Exec, disk
    <3>2. PICK fr \in VMM : fr = front  BY <1>2
    <3>3. /\ fr.phase = "front" /\ ~fr.orphan
          /\ fr.disp = IF ~r[p].vnc THEN "off" ELSE IF pass[p] THEN "locked" ELSE "open"
          /\ vmm' = Started(fr, f, d)
      BY <1>2, <1>4, <3>2 DEF Started
    <3>4. HostInv' /\ f \in Owned' /\ vmm'[f] = fr
      <4> HIDE DEF front
      <4>1. pc[p] = "exec" /\ f # rec.pid  BY <1>1, <1>4
      <4>2. QED  BY <4>1, <3>1, <3>3, ExecTable
    <3>5. QED  BY <3>2, <3>4
  <2>2. /\ pc'[p] = "wait" /\ child'[p] = f /\ rec' = rec /\ net' = net
        /\ UNCHANGED <<op[p], r[p], pass[p], was[p], bad[p]>>
    BY <1>1, <1>4 DEF Exec, disk, Goto, GuestInv, GateInv, TypeInv, ControlOK
  <2>3. vmm'[f].phase = "front" /\ (vmm'[f].disp = "locked" => pass[p])
    BY <1>2, <2>1
  <2>4. At(p)'
    <3> HIDE DEF front
    <3>1. QED
      BY <1>1, <2>1, <2>2, <2>3
         DEF GuestInv, At, Route, Stopped, Booting, Serving, Forced, Wired, Settled, Attached
  <2>5. \A x \in Proc \ {p} : /\ pc'[x] = pc[x] /\ child'[x] = child[x]
                              /\ was'[x] = was[x] /\ bad'[x] = bad[x]
    BY <1>4 DEF Goto, GuestInv, GateInv, TypeInv, ControlOK
  <2>6. QED  BY <1>1, <2>1, <2>4, <2>5, OnlyAt
<1>5. QED  BY <1>3, <1>4 DEF Exec, Sober

(* set_password: the display that asks for one gets it.                      *)
LEMMA SetPassGuest ==
    ASSUME Sober, GuestInv, TypeInv', NEW p \in Proc, SetPass(p)
    PROVE  HostInv' /\ \A x \in Proc : At(x)'
<1> DEFINE g == r[p].pid
<1>1. /\ pc[p] = "setpass" /\ op[p] \in {"run", "start", "restore"}
      /\ g = child[p] /\ UNCHANGED <<rec, net>>
  BY DEF SetPass, disk, GuestInv, At, Route, Attached, Serving
<1>2. CASE /\ g \in Guests /\ vmm[g].disp = "locked"
           /\ vmm' = [vmm EXCEPT ![g].disp = "set"]
           /\ \E l \in {"proxy", "postsave"} : Goto(p, l)
           /\ Keep
  <2>1. g \in Pid /\ vmm[g] \in VMM /\ vmm[g].phase = "up"
    BY <1>2 DEF Guests, GuestInv, GateInv, TypeInv, DataOK
  <2>2. /\ vmm'[g].phase = "up" /\ vmm'[g].orphan = vmm[g].orphan /\ vmm'[g].disp = "set"
        /\ \A q \in Pid \ {g} : vmm'[q] = vmm[q]
    BY <1>2, <2>1 DEF VMM, GuestInv, GateInv, TypeInv, DataOK
  <2>3. Live' = Live /\ Owned' = Owned /\ Daemons' = Daemons
    BY <2>1, <2>2 DEF Live, Owned, Daemons
  <2>4. Paired'
    <3>1. \A q \in Pid : vmm[q].phase # "up" \/ vmm'[q].phase # "up" => q # g /\ vmm'[q] = vmm[q]
      BY <2>1, <2>2
    <3>2. Paired  BY DEF GuestInv, HostInv
    <3>3. \A q \in Pid : vmm'[q].phase \in {"front", "init"} => vmm'[q] = vmm[q]
      BY <3>1
    <3>4. \A q \in Pid : vmm[q].phase \in {"front", "init"} => vmm'[q] = vmm[q]
      BY <3>1
    <3>5. QED  BY <3>2, <3>3, <3>4 DEF Paired
  <2>5. Described'
    <3>1. ASSUME rec # None, NEW q \in Owned PROVE Shown(rec, q)'
      <4>1. Shown(rec, q) /\ q \in Pid  BY <3>1 DEF GuestInv, HostInv, Described, Owned, Live
      <4>2. CASE q = g  BY <1>1, <1>2, <2>2, <4>1, <4>2 DEF Shown
      <4>3. CASE q # g  BY <1>1, <2>2, <4>1, <4>3 DEF Shown
      <4>4. QED  BY <4>2, <4>3
    <3>2. QED  BY <1>1, <2>3, <3>1 DEF Described
  <2>6. Sole' /\ Tracked'  BY <1>1, <2>3 DEF GuestInv, HostInv, Sole, Tracked
  <2>7. Kept'
    <3>1. \A q \in Live : vmm'[q].orphan = vmm[q].orphan  BY <2>2 DEF Live
    <3>2. QED  BY <1>1, <2>3, <3>1 DEF GuestInv, HostInv, Kept
  <2>8. HostInv'  BY <2>4, <2>5, <2>6, <2>7 DEF HostInv
  <2>9. PICK l \in {"proxy", "postsave"} : Goto(p, l)  BY <1>2
  <2>10. pc'[p] = l /\ UNCHANGED <<op[p], r[p], pass[p], was[p], bad[p], child[p]>>
    BY <1>2, <2>9 DEF Goto, Keep, locals, GuestInv, GateInv, TypeInv, ControlOK
  <2>11. At(p)'
    BY <1>1, <2>2, <2>3, <2>10
       DEF GuestInv, At, Route, Stopped, Booting, Serving, Forced, Wired, Settled, Attached,
           repairing
  <2>12. QED  BY <1>1, <1>2, <2>8, <2>9, <2>11, KeepAt
<1>3. CASE UNCHANGED vmm /\ Goto(p, "abort") /\ Keep
  <2>1. HostInv'  BY <1>1, <1>3, SameHost DEF GuestInv
  <2>2. Live' = Live /\ Owned' = Owned /\ Daemons' = Daemons  BY <1>3, SameTable
  <2>3. pc'[p] = "abort" /\ UNCHANGED <<op[p], r[p], pass[p], was[p], bad[p], child[p]>>
    BY <1>3 DEF Goto, Keep, locals, GuestInv, GateInv, TypeInv, ControlOK
  <2>4. At(p)'
    BY <1>1, <2>2, <2>3
       DEF GuestInv, At, Route, Stopped, Booting, Serving, Forced, Wired, Settled, Attached,
           repairing
  <2>5. QED  BY <1>1, <1>3, <2>1, <2>4, KeepAt
<1>4. QED  BY <1>2, <1>3 DEF SetPass

(* The guest: lifecycle.go, launch, its terminate.                           *)
LEMMA AbortGuest ==
    ASSUME Sober, GuestInv, TypeInv', NEW p \in Proc, Abort(p)
    PROVE  HostInv' /\ \A x \in Proc : At(x)'
<1>1. pc[p] = "abort"  BY DEF Abort
<1>2. CASE UNCHANGED vmm
  BY <1>1, <1>2, SameHost, LaunchFailsAt DEF Abort, disk, GuestInv
<1>3. CASE vmm' = Killed({r[p].pid})
  <2>1. {r[p].pid} \in SUBSET Pid  BY <1>1 DEF GuestInv, At, Booting
  <2>2. Thins /\ Paired'
    BY <1>3, <2>1, KilledThins, KilledPaired DEF GuestInv, GateInv, HostInv
  <2>3. HostInv'  BY <2>2, ThinsHost DEF Abort, disk, GuestInv
  <2>4. QED  BY <1>1, <2>3, LaunchFailsAt DEF Abort
<1>4. QED  BY <1>2, <1>3 DEF Abort

(* A kill that works leaves nothing of the VM whose daemon the record names. *)
LEMMA KillGuest ==
    ASSUME Sober, GuestInv, TypeInv', NEW p \in Proc, Kill(p)
    PROVE  HostInv' /\ \A x \in Proc : At(x)'
<1> DEFINE S == {r[p].pid} \cap Live
<1>1. /\ pc[p] = "kill" /\ UNCHANGED <<rec, net>> /\ Goto(p, "killproxy")
      /\ UNCHANGED <<op, r, pass, was, child>>
      /\ op[p] \in {"create", "run", "stop", "rm", "restore"}
  BY DEF Kill, disk, GuestInv, At, Route
<1>2. /\ TypeInv /\ Paired /\ HostInv
      /\ S \in SUBSET Pid
      /\ ~cleaning(p) => Daemons \subseteq {r[p].pid}
  BY <1>1 DEF GuestInv, GateInv, HostInv, At, Stopped, Live
<1>3. /\ pc'[p] = "killproxy" /\ UNCHANGED <<op[p], r[p], pass[p], was[p], child[p]>>
      /\ \A x \in Proc \ {p} : pc'[x] = pc[x] /\ child'[x] = child[x] /\ was'[x] = was[x]
  BY <1>1 DEF Goto, GuestInv, GateInv, TypeInv, ControlOK
<1>4. vmm' = vmm \/ vmm' = Killed(S)
  <2>1. isRunning(r[p]) => S = {r[p].pid}  BY DEF isRunning
  <2>2. QED  BY <2>1 DEF Kill
<1>5. HostInv'
  <2>1. CASE vmm' = vmm  BY <1>1, <1>2, <2>1, SameHost
  <2>2. CASE vmm' = Killed(S)
    <3>1. Thins /\ Paired'  BY <1>2, <2>2, KilledThins, KilledPaired
    <3>2. QED  BY <1>1, <1>2, <3>1, ThinsHost
  <2>3. QED  BY <1>4, <2>1, <2>2
<1>6. /\ ~bad'[p] /\ ~cleaning(p) => Owned' = {}
      /\ "kill" \notin Faults => ~bad'[p]
      /\ \A x \in Proc \ {p} : bad'[x] = bad[x]
  <2>1. CASE vmm' = Killed(S) /\ UNCHANGED bad
    <3>1. ~cleaning(p) => Owned' = {}  BY <1>2, <2>1, KilledAll
    <3>2. "kill" \notin Faults => ~bad[p]  BY DEF GuestInv, At, Stopped
    <3>3. QED  BY <2>1, <3>1, <3>2
  <2>2. CASE "kill" \in Faults /\ bad' = [bad EXCEPT ![p] = TRUE]
    BY <2>2 DEF GuestInv, GateInv, TypeInv, ControlOK
  <2>3. QED  BY <2>1, <2>2 DEF Kill
<1>7. At(p)'
  BY <1>1, <1>3, <1>6
     DEF GuestInv, At, Route, Stopped, Booting, Serving, Forced, Wired, Settled, Attached,
         cleaning
<1>8. QED  BY <1>1, <1>3, <1>5, <1>6, <1>7, OnlyAt

(* The guest: utils.go, reapStrayHelpers.                                    *)
LEMMA ReapGuest ==
    ASSUME Sober, GuestInv, TypeInv', NEW p \in Proc, Reap(p)
    PROVE  HostInv' /\ \A x \in Proc : At(x)'
<1>1. pc[p] = "reap" /\ UNCHANGED <<rec, net>> /\ op[p] \in {"create", "run", "rm"}
  BY DEF Reap, disk, GuestInv, At, Route
<1>2. PICK S \in SUBSET Live : vmm' = Killed(S)  BY DEF Reap
<1>3. HostInv'
  <2>1. S \in SUBSET Pid  BY DEF Live
  <2>2. Thins /\ Paired'
    BY <1>2, <2>1, KilledThins, KilledPaired DEF GuestInv, GateInv, HostInv
  <2>3. QED  BY <1>1, <2>2, ThinsHost DEF GuestInv
<1>4. CASE Return(p, "err")  BY <1>1, <1>3, <1>4, ReturnAt
<1>5. CASE /\ Goto(p, "remove") /\ Keep
           /\ (vmm' = Killed(Live)) \/ ("kill" \in Faults /\ op[p] # "rm")
  <2>1. pc'[p] = "remove" /\ UNCHANGED <<op[p], r[p], pass[p], was[p], bad[p], child[p]>>
    BY <1>5 DEF Goto, Keep, locals, GuestInv, GateInv, TypeInv, ControlOK
  <2>2. ASSUME vmm' = Killed(Live) PROVE Live' = {} /\ Owned' = {}
    <3>1. \A q \in Pid : vmm'[q].phase = "dead"
      BY <2>2 DEF Killed, Live, Dead
    <3>2. QED  BY <3>1 DEF Live, Owned
  <2>3. At(p)'
    BY <1>1, <1>5, <2>1, <2>2
       DEF GuestInv, At, Route, Stopped, Booting, Serving, Forced, Wired, Settled, Attached
  <2>4. QED  BY <1>1, <1>3, <1>5, <2>3, KeepAt
<1>6. QED  BY <1>4, <1>5 DEF Reap

(* RemoveAll: what still runs is an orphan of the VM dir.                    *)
LEMMA RemoveGuest ==
    ASSUME Sober, GuestInv, TypeInv', NEW p \in Proc, Remove(p)
    PROVE  HostInv' /\ \A x \in Proc : At(x)'
<1>1. /\ pc[p] = "remove" /\ HostInv
      /\ "kill" \notin Faults => Live = {}
  BY DEF Remove, GuestInv, At, Stopped
<1>2. CASE rec' \in {rec, None} /\ UNCHANGED vmm
  <2>1. CASE rec' = rec  BY <1>1, <1>2, <2>1, SameHost, ReturnAt DEF Remove
  <2>2. CASE rec' = None
    <3>1. Paired' /\ Sole' /\ Live' = Live /\ \A q \in Live : vmm'[q] = vmm[q]
      BY <1>1, <1>2, SameTable DEF HostInv
    <3>2. HostInv'
      BY <1>1, <2>2, <3>1 DEF HostInv, Tracked, Described, Kept
    <3>3. QED  BY <1>1, <3>2, ReturnAt DEF Remove
  <2>3. QED  BY <1>2, <2>1, <2>2
<1>3. CASE /\ rec' = None
           /\ vmm' = [q \in Pid |-> IF q \in Live THEN [vmm[q] EXCEPT !.orphan = TRUE]
                                                  ELSE vmm[q]]
  <2>1. \A q \in Pid : /\ vmm'[q].phase = vmm[q].phase /\ vmm'[q].front = vmm[q].front
                       /\ vmm'[q].disp = vmm[q].disp
                       /\ q \in Live => vmm'[q].orphan
    BY <1>3 DEF VMM, GuestInv, GateInv, TypeInv, DataOK
  <2>2. Live' = Live  BY <2>1 DEF Live
  <2>3. Owned' = {}  BY <2>1, <2>2 DEF Owned, Live
  <2>4. Paired'
    <3>1. \A d \in Pid : vmm[d].phase = "init" =>
              /\ vmm[d].front \in Pid /\ vmm[vmm[d].front].phase = "front"
              /\ d \in Live /\ vmm[d].front \in Live
      BY <1>1 DEF HostInv, Paired, Live
    <3>2. ASSUME NEW q \in Pid, vmm'[q].phase = "front"
          PROVE  \E d \in Pid : vmm'[d].phase = "init" /\ vmm'[d].front = q
      BY <1>1, <2>1, <3>2 DEF HostInv, Paired
    <3>3. ASSUME NEW d \in Pid, vmm'[d].phase = "init"
          PROVE  /\ vmm'[d].front \in Pid
                 /\ vmm'[vmm'[d].front].phase = "front"
                 /\ vmm'[vmm'[d].front].orphan = vmm'[d].orphan
                 /\ vmm'[vmm'[d].front].disp = vmm'[d].disp
                 /\ vmm'[d].disp # "set"
      <4> DEFINE f == vmm[d].front
      <4>1. /\ f \in Pid /\ vmm[f].phase = "front" /\ f \in Live /\ d \in Live
            /\ vmm[f].disp = vmm[d].disp /\ vmm[d].disp # "set"
        BY <1>1, <2>1, <3>1, <3>3 DEF HostInv, Paired
      <4>2. vmm'[d].orphan = TRUE /\ vmm'[f].orphan = TRUE
        BY <1>3, <4>1 DEF VMM, GuestInv, GateInv, TypeInv, DataOK
      <4>3. QED  BY <2>1, <4>1, <4>2
    <3>4. \A d, e \in Pid : vmm'[d].phase = "init" /\ vmm'[e].phase = "init"
                            /\ vmm'[d].front = vmm'[e].front => d = e
      BY <1>1, <2>1 DEF HostInv, Paired
    <3>5. QED  BY <3>2, <3>3, <3>4 DEF Paired
  <2>5. HostInv'
    BY <1>1, <1>3, <2>2, <2>3, <2>4 DEF HostInv, Sole, Tracked, Described, Kept, Daemons
  <2>6. QED  BY <1>1, <2>5, ReturnAt DEF Remove
<1>4. QED  BY <1>2, <1>3 DEF Remove

-----------------------------------------------------------------------------
(* The environment                                                           *)

(* Without the "front" fault every front process has its daemon already.     *)
LEMMA QemuForkGuest ==
    ASSUME Sober, GuestInv, NEW f \in Pid, QemuFork(f)
    PROVE  FALSE
  BY DEF QemuFork, Forked, GuestInv, HostInv, Paired

(* The daemon outlives its front, and c.Run returns in the CLI that waits.   *)
LEMMA QemuReadyGuest ==
    ASSUME Sober, GuestInv, TypeInv', NEW d \in Pid, QemuReady(d)
    PROVE  HostInv' /\ \A x \in Proc : At(x)'
<1> DEFINE f == vmm[d].front
<1>1. /\ vmm[d].phase = "init" /\ f \in Pid /\ vmm[f].phase = "front" /\ f # d
      /\ vmm[f].orphan = vmm[d].orphan /\ vmm[f].disp = vmm[d].disp
      /\ \A e \in Pid : vmm[e].phase = "init" /\ vmm[e].front = f => e = d
      /\ UNCHANGED <<rec, net, op, r, pass, was, bad>>
  BY DEF QemuReady, disk, GuestInv, HostInv, Paired
<1>2. /\ vmm'[d].phase = "up" /\ vmm'[d].orphan = vmm[d].orphan /\ vmm'[d].disp = vmm[d].disp
      /\ vmm'[f] = Dead
      /\ \A q \in Pid \ {d, f} : vmm'[q] = vmm[q]
  BY <1>1 DEF QemuReady, VMM, GuestInv, GateInv, TypeInv, DataOK
<1>3. Thins  BY <1>1, <1>2 DEF Thins, Dead
<1>4. Paired'
  <2>1. \A q \in Pid : vmm'[q].phase \in {"front", "init"} => q \notin {d, f} /\ vmm'[q] = vmm[q]
    BY <1>2 DEF Dead
  <2>2. \A q \in Pid \ {d} : vmm[q].phase = "init" => vmm[q].front # f  BY <1>1
  <2>3. ASSUME NEW q \in Pid, vmm'[q].phase = "front"
        PROVE  \E e \in Pid : vmm'[e].phase = "init" /\ vmm'[e].front = q
    <3>1. q \notin {d, f} /\ vmm[q].phase = "front"  BY <2>1, <2>3
    <3>2. PICK e \in Pid : vmm[e].phase = "init" /\ vmm[e].front = q
      BY <3>1 DEF GuestInv, HostInv, Paired
    <3>3. e # d /\ e # f  BY <1>1, <3>1, <3>2
    <3>4. QED  BY <1>2, <3>2, <3>3
  <2>4. ASSUME NEW e \in Pid, vmm'[e].phase = "init"
        PROVE  /\ vmm'[e] = vmm[e] /\ vmm[e].front \in Pid
               /\ vmm'[vmm[e].front] = vmm[vmm[e].front]
    <3>1. e \notin {d, f} /\ vmm'[e] = vmm[e]  BY <2>1, <2>4
    <3>2. /\ vmm[e].front \in Pid /\ vmm[vmm[e].front].phase = "front"
      BY <2>4, <3>1 DEF GuestInv, HostInv, Paired
    <3>3. vmm[e].front \notin {d, f}  BY <1>1, <2>2, <2>4, <3>1, <3>2
    <3>4. QED  BY <1>2, <3>1, <3>2, <3>3
  <2>5. QED  BY <2>3, <2>4 DEF GuestInv, HostInv, Paired
<1>5. HostInv'  BY <1>1, <1>3, <1>4, ThinsHost DEF GuestInv
<1>6. ASSUME NEW x \in Proc PROVE At(x)'
  <2>1. CASE pc[x] = "wait" /\ child[x] = f
    <3>1. pc'[x] = "readpid" /\ child'[x] = d
      BY <2>1 DEF QemuReady, Wake, GuestInv, GateInv, TypeInv, ControlOK
    <3>2. f \in Owned /\ (vmm[f].disp = "locked" => pass[x])
      BY <1>1, <2>1 DEF GuestInv, At, Booting, Serving, Live
    <3>3. d \in Daemons'
      <4>1. ~vmm[f].orphan  BY <3>2 DEF Owned
      <4>2. QED  BY <1>1, <1>2, <4>1 DEF Daemons, Owned, Live
    <3>4. UNCHANGED <<op[x], r[x], pass[x], was[x], bad[x]>>  BY <1>1
    <3>5. At(x)'
      BY <1>1, <1>2, <2>1, <3>1, <3>2, <3>3, <3>4
         DEF GuestInv, At, Route, Stopped, Booting, Serving, Forced, Wired, Settled, Attached
    <3>6. QED  BY <3>5
  <2>2. CASE pc[x] = "wait" /\ child[x] # f
    <3>1. pc'[x] = "wait" /\ child'[x] = child[x]
      BY <2>2 DEF QemuReady, Wake, GuestInv, GateInv, TypeInv, ControlOK
    <3>2. child[x] \in Owned /\ vmm[child[x]].phase = "front" /\ child[x] \in Pid
      BY <2>2 DEF GuestInv, At, Booting, Owned, Live
    <3>3. vmm'[child[x]] = vmm[child[x]]  BY <1>1, <1>2, <2>2, <3>2
    <3>4. child[x] \in Owned' /\ child[x] \in Live  BY <3>2, <3>3 DEF Owned, Live
    <3>5. UNCHANGED <<op[x], r[x], pass[x], was[x], bad[x]>>  BY <1>1
    <3>6. QED
      BY <1>1, <2>2, <3>1, <3>2, <3>3, <3>4, <3>5
         DEF GuestInv, At, Route, Stopped, Booting, Serving, Forced, Wired, Settled, Attached
  <2>3. CASE pc[x] # "wait"
    <3>1. pc'[x] = pc[x] /\ child'[x] = child[x]
      BY <2>3 DEF QemuReady, Wake, GuestInv, GateInv, TypeInv, ControlOK
    <3>2. QED  BY <1>1, <1>3, <2>3, <3>1, ThinsAt
  <2>4. QED  BY <2>1, <2>2, <2>3
<1>7. QED  BY <1>5, <1>6

(* A boot that fails takes both its processes along.                         *)
LEMMA QemuFailGuest ==
    ASSUME Sober, GuestInv, TypeInv', NEW f \in Pid, QemuFail(f)
    PROVE  HostInv' /\ \A x \in Proc : At(x)'
<1>1. /\ vmm[f].phase = "front"
      /\ UNCHANGED <<rec, net, op, r, pass, was, bad>>
  BY DEF QemuFail, disk
<1>2. \A q \in Pid : vmm'[q] = IF q = f \/ (vmm[q].phase = "init" /\ vmm[q].front = f)
                               THEN Dead ELSE vmm[q]
  BY DEF QemuFail
<1>3. Thins  BY <1>2 DEF Thins, Dead
<1>4. Paired'
  <2>1. ASSUME NEW q \in Pid, vmm'[q].phase = "front"
        PROVE  \E e \in Pid : vmm'[e].phase = "init" /\ vmm'[e].front = q
    <3>1. q # f /\ vmm[q].phase = "front"  BY <1>2, <2>1 DEF Dead
    <3>2. PICK e \in Pid : vmm[e].phase = "init" /\ vmm[e].front = q
      BY <3>1 DEF GuestInv, HostInv, Paired
    <3>3. vmm'[e] = vmm[e]  BY <1>1, <1>2, <3>1, <3>2
    <3>4. QED  BY <3>2, <3>3
  <2>2. ASSUME NEW e \in Pid, vmm'[e].phase = "init"
        PROVE  /\ vmm'[e] = vmm[e] /\ vmm[e].front \in Pid
               /\ vmm'[vmm[e].front] = vmm[vmm[e].front]
    <3>1. vmm'[e] = vmm[e] /\ vmm[e].front # f  BY <1>2, <2>2 DEF Dead
    <3>2. vmm[e].front \in Pid /\ vmm[vmm[e].front].phase = "front"
      BY <2>2, <3>1 DEF GuestInv, HostInv, Paired
    <3>3. QED  BY <1>2, <3>1, <3>2
  <2>3. QED  BY <2>1, <2>2 DEF GuestInv, HostInv, Paired
<1>5. HostInv'  BY <1>1, <1>3, <1>4, ThinsHost DEF GuestInv
<1>6. ASSUME NEW x \in Proc PROVE At(x)'
  <2>1. CASE pc[x] = "wait" /\ child[x] = f
    <3>1. pc'[x] = "runfailed" /\ UNCHANGED <<op[x], r[x], pass[x], was[x], bad[x]>>
      BY <1>1, <2>1 DEF QemuFail, Wake, GuestInv, GateInv, TypeInv, ControlOK
    <3>2. QED
      BY <1>1, <2>1, <3>1
         DEF GuestInv, At, Route, Stopped, Booting, Serving, Forced, Wired, Settled, Attached
  <2>2. CASE pc[x] = "wait" /\ child[x] # f
    <3>1. pc'[x] = "wait" /\ child'[x] = child[x]
      BY <2>2 DEF QemuFail, Wake, GuestInv, GateInv, TypeInv, ControlOK
    <3>2. child[x] \in Owned /\ vmm[child[x]].phase = "front" /\ child[x] \in Pid
      BY <2>2 DEF GuestInv, At, Booting, Owned, Live
    <3>3. vmm'[child[x]] = vmm[child[x]]  BY <1>1, <1>2, <2>2, <3>2
    <3>4. child[x] \in Owned' /\ child[x] \in Live  BY <3>2, <3>3 DEF Owned, Live
    <3>5. UNCHANGED <<op[x], r[x], pass[x], was[x], bad[x]>>  BY <1>1
    <3>6. QED
      BY <1>1, <2>2, <3>1, <3>2, <3>3, <3>4, <3>5
         DEF GuestInv, At, Route, Stopped, Booting, Serving, Forced, Wired, Settled, Attached
  <2>3. CASE pc[x] # "wait"
    <3>1. pc'[x] = pc[x] /\ child'[x] = child[x]
      BY <2>3 DEF QemuFail, Wake, GuestInv, GateInv, TypeInv, ControlOK
    <3>2. QED  BY <1>1, <1>3, <2>3, <3>1, ThinsAt
  <2>4. QED  BY <2>1, <2>2, <2>3
<1>7. QED  BY <1>5, <1>6

(* A guest that goes takes nothing along.                                    *)
LEMMA QemuExitGuest ==
    ASSUME Sober, GuestInv, TypeInv', NEW d \in Pid, QemuExit(d)
    PROVE  HostInv' /\ \A x \in Proc : At(x)'
<1>1. /\ vmm[d].phase \in {"up", "doomed"}
      /\ UNCHANGED <<rec, net, pc, op, r, pass, was, bad, child>>
  BY DEF QemuExit, disk, locals
<1>2. vmm'[d] = Dead /\ \A q \in Pid \ {d} : vmm'[q] = vmm[q]
  BY DEF QemuExit, GuestInv, GateInv, TypeInv, DataOK
<1>3. Thins  BY <1>2 DEF Thins, Dead
<1>4. Paired'
  <2>1. \A q \in Pid : vmm'[q].phase \in {"front", "init"} => vmm'[q] = vmm[q]
    BY <1>2 DEF Dead
  <2>2. \A q \in Pid : vmm[q].phase \in {"front", "init"} => vmm'[q] = vmm[q]
    BY <1>1, <1>2
  <2>3. Paired  BY DEF GuestInv, HostInv
  <2>4. QED  BY <2>1, <2>2, <2>3 DEF Paired
<1>5. HostInv'  BY <1>1, <1>3, <1>4, ThinsHost DEF GuestInv
<1>6. ASSUME NEW x \in Proc PROVE At(x)'
  <2>1. CASE pc[x] = "wait"
    <3>1. child[x] \in Owned /\ vmm[child[x]].phase = "front" /\ child[x] \in Pid
      BY <2>1 DEF GuestInv, At, Booting, Owned, Live
    <3>2. vmm'[child[x]] = vmm[child[x]]  BY <1>1, <1>2, <3>1
    <3>3. child[x] \in Owned' /\ child[x] \in Live  BY <3>1, <3>2 DEF Owned, Live
    <3>4. QED
      BY <1>1, <2>1, <3>1, <3>2, <3>3
         DEF GuestInv, At, Route, Stopped, Booting, Serving, Forced, Wired, Settled, Attached
  <2>2. CASE pc[x] # "wait"  BY <1>1, <1>3, <2>2, ThinsAt
  <2>3. QED  BY <2>1, <2>2
<1>7. QED  BY <1>5, <1>6

(* A reboot of the host leaves vm.json, no process and no operation.         *)
LEMMA RebootGuest ==
    ASSUME Sober, GuestInv, TypeInv', Reboot
    PROVE  HostInv' /\ \A x \in Proc : At(x)'
<1>1. \A q \in Pid : vmm'[q].phase = "dead"  BY DEF Reboot, Dead
<1>2. Thins /\ Paired'  BY <1>1 DEF Thins, Paired
<1>3. HostInv'  BY <1>2, ThinsHost DEF Reboot, disk, GuestInv
<1>4. \A x \in Proc : At(x)'
  BY DEF Reboot, At, Route, Stopped, Booting, Serving, Forced, Wired, Settled, Attached
<1>5. QED  BY <1>3, <1>4

(* Neither a stuttering step nor the death of a VNC proxy matters.           *)
LEMMA UnchangedGuest ==
    ASSUME Sober, GuestInv, TypeInv', UNCHANGED <<rec, vmm, net, pc, locals>>
    PROVE  HostInv' /\ \A x \in Proc : At(x)'
<1>1. HostInv'  BY SameHost DEF GuestInv
<1>2. Live' = Live /\ Owned' = Owned /\ Daemons' = Daemons  BY SameTable
<1>3. ASSUME NEW x \in Proc PROVE At(x)'
  BY <1>2
     DEF locals, GuestInv, At, Route, Stopped, Booting, Serving, Forced, Wired, Settled,
         Attached, cleaning, repairing
<1>4. QED  BY <1>1, <1>3

(* The invariant holds before the first operation.                           *)
LEMMA GuestInit == Init => GuestInv
<1> SUFFICES ASSUME Init PROVE GuestInv  OBVIOUS
<1>1. GateInv  BY GateInit
<1>2. \A q \in Pid : vmm[q].phase = "dead"  BY DEF Init, Dead
<1>3. HostInv
  BY <1>2 DEF HostInv, Paired, Sole, Tracked, Described, Kept, Daemons, Owned, Live
<1>4. \A x \in Proc : At(x)
  BY DEF Init, At, Route, Stopped, Booting, Serving, Forced, Wired, Settled, Attached
<1>5. QED  BY <1>1, <1>3, <1>4 DEF GuestInv

(* No step of an operation breaks the invariant.                             *)
LEMMA StepGuest ==
    ASSUME Sober, GuestInv, TypeInv', NEW p \in Proc, Step(p)
    PROVE  HostInv' /\ \A x \in Proc : At(x)'
  BY LoadGuest, ScaffoldGuest, BakeGuest, ProvisionGuest, CommitGuest,
     LaunchGuest, UnproxyGuest, PresaveGuest, ExecGuest, RunFailedGuest, ReadPidGuest,
     SetPassGuest, ProxyGuest, ProxyPidGuest, AbortGuest, PostsaveGuest, UnquiesceGuest,
     KillGuest, KillProxyGuest, QuiesceGuest, StopSaveGuest, ImageGuest, ImgSaveGuest,
     TeardownGuest, ReapGuest, RemoveGuest
     DEF Step

(* No step of the system breaks the invariant.                               *)
LEMMA GuestNext == Sober /\ GuestInv /\ [Next]_vars => GuestInv'
<1> SUFFICES ASSUME Sober, GuestInv, [Next]_vars PROVE GuestInv'  OBVIOUS
<1>1. GateInv' /\ TypeInv'  BY GateNext DEF GuestInv, GateInv
<1>2. CASE \E p \in Proc : Acquire(p) \/ Step(p) \/ Crash(p)
  BY <1>1, <1>2, AcquireGuest, StepGuest, CrashGuest DEF GuestInv
<1>3. CASE \E q \in Pid : Boot(q) \/ QemuExit(q)
  BY <1>1, <1>3, QemuForkGuest, QemuReadyGuest, QemuFailGuest, QemuExitGuest DEF Boot, GuestInv
<1>4. CASE Reboot  BY <1>1, <1>4, RebootGuest DEF GuestInv
<1>5. CASE ProxyExit \/ UNCHANGED vars
  BY <1>1, <1>5, UnchangedGuest DEF ProxyExit, vars, disk, host, GuestInv
<1>6. QED  BY <1>2, <1>3, <1>4, <1>5 DEF Next

-----------------------------------------------------------------------------
(* The theorems                                                              *)

(* GuestInv holds in every reachable state, whatever is killed, fails or     *)
(* reboots: utils.go:245, lifecycle.go:103 and 271.                          *)
THEOREM GuestCorrect ==
    ASSUME Sober
    PROVE  Spec => []GuestInv
<1>1. Init => GuestInv  BY GuestInit
<1>2. GuestInv /\ [Next]_vars => GuestInv'  BY GuestNext
<1>3. QED  BY <1>1, <1>2, PTL DEF Spec

(* utils.go:245, reconcileRunningQEMU: no interleaving of operations, kills  *)
(* and reboots boots a second guest on the VM's disks.                       *)
THEOREM OneGuestHolds ==
    ASSUME Sober
    PROVE  Spec => []OneGuest
<1>1. GuestInv => OneGuest
  <2> SUFFICES ASSUME GuestInv PROVE OneGuest  OBVIOUS
  <2>1. \A x, y \in Guests \cap Owned : x = y
    BY DEF GuestInv, HostInv, Sole, Daemons, Guests
  <2>2. CASE Guests \cap Owned = {}  BY <2>2, FS_EmptySet DEF OneGuest
  <2>3. CASE Guests \cap Owned # {}
    <3>1. PICK x : Guests \cap Owned = {x}  BY <2>1, <2>3
    <3>2. Cardinality({x}) = 1  BY FS_Singleton
    <3>3. QED  BY <3>1, <3>2 DEF OneGuest
  <2>4. QED  BY <2>2, <2>3
<1>2. QED  BY <1>1, GuestCorrect, PTL

(* snapshot.go:37: qemu-img never works on the disks of a running guest.     *)
THEOREM ImagesOffline ==
    ASSUME Sober
    PROVE  Spec => []OfflineImages
<1>1. GuestInv => OfflineImages
  BY DEF GuestInv, At, Stopped, Settled, OfflineImages
<1>2. QED  BY <1>1, GuestCorrect, PTL

(* lifecycle.go:271: vm.json tells the display of whatever QEMU it leads to. *)
THEOREM DisplayIsRecorded ==
    ASSUME Sober
    PROVE  Spec => []DisplayRecorded
<1>1. GuestInv => DisplayRecorded
  BY DEF GuestInv, HostInv, Described, Shown, DisplayRecorded
<1>2. QED  BY <1>1, GuestCorrect, PTL

(* snapshot.go:78: a gated display is relaunched with a password or not at   *)
(* all.                                                                      *)
THEOREM RestoreGates ==
    ASSUME Sober
    PROVE  Spec => []RestoreKeepsGate
<1>1. GuestInv => RestoreKeepsGate
  BY DEF GuestInv, At, Forced, RestoreKeepsGate
<1>2. QED  BY <1>1, GuestCorrect, PTL

(* lifecycle.go:103: where kills succeed, no guest is ever without a record. *)
THEOREM GuestIsRecorded ==
    ASSUME Sober, "kill" \notin Faults
    PROVE  Spec => []GuestHasRecord
<1>1. GuestInv => GuestHasRecord
  BY DEF GuestInv, HostInv, Kept, GuestHasRecord, Guests, Live
<1>2. QED  BY <1>1, GuestCorrect, PTL

(* utils.go:131: a dir is scaffolded only without a record and without a     *)
(* guest, under any faults whatever.                                         *)
THEOREM ScaffoldIsFresh == Spec => []ScaffoldsFresh
<1>1. GateInv => ScaffoldsFresh
  BY DEF GateInv, FreshDir, Making, ScaffoldsFresh
<1>2. QED  BY <1>1, GateCorrect, PTL

-----------------------------------------------------------------------------
(* What a success report says                                                *)

(* The steps that report one.                                                *)
LEMMA Reports ==
    ASSUME GateInv, [Next]_vars, NEW p \in Proc, NEW o \in Op, Returned(p, o, "ok")
    PROVE  \/ Load(p) /\ o = "rm" /\ ~dir
           \/ Commit(p) /\ o = "create"
           \/ Postsave(p) /\ o = "run"
           \/ Unquiesce(p)
           \/ StopSave(p) /\ o = "stop"
           \/ Image(p) /\ o = "clone"
           \/ ImgSave(p)
           \/ Remove(p) /\ o = "rm"
<1> DEFINE Reporting ==
           \/ Load(p) /\ o = "rm" /\ ~dir
           \/ Commit(p) /\ o = "create"
           \/ Postsave(p) /\ o = "run"
           \/ Unquiesce(p)
           \/ StopSave(p) /\ o = "stop"
           \/ Image(p) /\ o = "clone"
           \/ ImgSave(p)
           \/ Remove(p) /\ o = "rm"
<1>1. /\ op[p] = o /\ lock = p /\ lock' = None /\ out'[p] = "ok"
      /\ p # None /\ lock' # lock
      /\ \A x \in Proc \ {p} : pc[x] = "idle"
  BY NoneAssumption DEF Returned, GateInv, Mutex
<1>2. \A x \in Proc : \A l : ~Goto(x, l)  BY <1>1 DEF Goto
<1>3. \A res \in {"err", "crash"} : ~Return(p, res)
  BY <1>1 DEF Return, GateInv, TypeInv, ControlOK
<1>4. ~LaunchFails(p) /\ ~ProxyFails(p)  BY <1>2, <1>3 DEF LaunchFails, ProxyFails
<1>5. ASSUME NEW x \in Proc, Step(x) PROVE x = p
  BY <1>1, <1>5
     DEF Step, Load, Scaffold, Bake, Provision, Commit, Launch, Unproxy, Presave, Exec,
         RunFailed, ReadPid, SetPass, Proxy, ProxyPid, Abort, Postsave, Unquiesce, Kill,
         KillProxy, Quiesce, StopSave, Image, ImgSave, Teardown, Reap, Remove
<1>6. ASSUME Step(p) PROVE Reporting
  <2>1. ~ \/ Scaffold(p) \/ Bake(p) \/ Provision(p)
          \/ Launch(p) \/ Unproxy(p) \/ Presave(p) \/ Exec(p) \/ RunFailed(p) \/ ReadPid(p)
          \/ SetPass(p) \/ Proxy(p) \/ ProxyPid(p) \/ Abort(p)
          \/ Kill(p) \/ KillProxy(p) \/ Quiesce(p) \/ Teardown(p) \/ Reap(p)
    BY <1>2, <1>3, <1>4
       DEF Scaffold, Bake, Provision, Launch, Unproxy, Presave, Exec, RunFailed, ReadPid,
           SetPass, Proxy, ProxyPid, Abort, Kill, KillProxy, Quiesce, Teardown, Reap
  <2>2. CASE Load(p)
    <3>1. \A rc, running : ~Dispatch(p, rc, running)  BY <1>2, <1>3 DEF Dispatch
    <3>2. QED  BY <1>1, <1>2, <1>3, <2>2, <3>1 DEF Load
  <2>3. CASE Commit(p)
    <3>1. op[p] \in {"create", "run"}  BY <2>3 DEF Commit, GateInv, FreshDir, Making
    <3>2. QED  BY <1>1, <1>2, <2>3, <3>1 DEF Commit
  <2>4. CASE Postsave(p)  BY <1>1, <1>2, <1>4, <2>4 DEF Postsave
  <2>5. CASE StopSave(p)  BY <1>1, <1>2, <1>3, <2>5 DEF StopSave
  <2>6. CASE Image(p)  BY <1>1, <1>2, <1>3, <2>6 DEF Image
  <2>7. CASE Remove(p)  BY <1>1, <1>3, <2>7 DEF Remove
  <2>8. QED  BY <1>6, <2>1, <2>2, <2>3, <2>4, <2>5, <2>6, <2>7 DEF Step
<1>7. CASE \E x \in Proc : Acquire(x)  BY <1>1, <1>7 DEF Acquire
<1>8. ASSUME NEW x \in Proc, Crash(x) PROVE FALSE
  BY <1>1, <1>3, <1>8 DEF Crash
<1>9. CASE \E q \in Pid : Boot(q) \/ QemuExit(q)
  BY <1>1, <1>9 DEF Boot, QemuFork, QemuReady, QemuFail, QemuExit
<1>10. CASE Reboot  BY <1>1, <1>10 DEF Reboot
<1>11. CASE ProxyExit \/ UNCHANGED vars  BY <1>1, <1>11 DEF ProxyExit, vars
<1>12. QED  BY <1>5, <1>6, <1>7, <1>8, <1>9, <1>10, <1>11 DEF Next

(* lifecycle.go:81: stop and rm report success over no guest that runs.      *)
THEOREM StopsTheGuest ==
    ASSUME Sober
    PROVE  Spec => StopMeansStopped
<1> DEFINE A == \A p \in Proc : Returned(p, "stop", "ok") \/ Returned(p, "rm", "ok")
                    => Guests \cap Owned = {}
<1>1. GuestInv /\ [Next]_vars => [A]_vars
  <2> SUFFICES ASSUME GuestInv, [Next]_vars, NEW p \in Proc, NEW o \in {"stop", "rm"},
                      Returned(p, o, "ok")
               PROVE  Owned = {}
    OBVIOUS
  <2>1. op[p] = o /\ o \in Op  BY DEF Returned, Op
  <2>2. CASE Load(p) /\ ~dir  BY <2>2 DEF GuestInv, GateInv, Homed
  <2>3. CASE StopSave(p)  BY <2>3 DEF StopSave, GuestInv, At, Stopped
  <2>4. CASE Remove(p) /\ o = "rm"  BY <2>1, <2>4 DEF Remove, GuestInv, At, Stopped
  <2>5. ~Unquiesce(p) /\ ~ImgSave(p)
    BY <2>1 DEF Unquiesce, ImgSave, GuestInv, At, Route
  <2>6. QED  BY <2>1, <2>2, <2>3, <2>4, <2>5, Reports DEF GuestInv
<1>2. QED  BY <1>1, GuestCorrect, PTL DEF Spec, StopMeansStopped

(* lifecycle.go:290: a launch reports success only over a display that can   *)
(* be opened.                                                                *)
THEOREM DisplayIsServed ==
    ASSUME Sober
    PROVE  Spec => LaunchServesDisplay
<1> DEFINE A == \A p \in Proc : \A o \in {"run", "start", "restore"} :
                    Returned(p, o, "ok") /\ child[p] \in Guests
                        => vmm[child[p]].disp # "locked"
<1>1. GuestInv /\ [Next]_vars => [A]_vars
  <2> SUFFICES ASSUME GuestInv, [Next]_vars, NEW p \in Proc,
                      NEW o \in {"run", "start", "restore"},
                      Returned(p, o, "ok"), child[p] \in Guests
               PROVE  vmm[child[p]].disp # "locked"
    OBVIOUS
  <2>1. o \in Op /\ child[p] \in Live /\ child[p] # None
    BY NoneAssumption DEF Op, Guests, Live
  <2>2. CASE Postsave(p) \/ Unquiesce(p)
    BY <2>1, <2>2 DEF Postsave, Unquiesce, GuestInv, At, Serving
  <2>3. ~ImgSave(p)  BY <2>1 DEF ImgSave, GuestInv, At, Serving
  <2>4. QED  BY <2>1, <2>2, <2>3, Reports DEF GuestInv
<1>2. QED  BY <1>1, GuestCorrect, PTL DEF Spec, LaunchServesDisplay

(* snapshots.md:21: where the network obeys, a guest that an operation       *)
(* leaves running with success is not cut off.                               *)
THEOREM NetIsServed ==
    ASSUME Sober, "net" \notin Faults
    PROVE  Spec => NetServesGuest
<1> DEFINE A == \A p \in Proc : \A o \in {"run", "start", "restore"} :
                    Returned(p, o, "ok") /\ Guests \cap Owned # {} => net' # "quiesced"
<1>1. GuestInv /\ [Next]_vars => [A]_vars
  <2> SUFFICES ASSUME GuestInv, [Next]_vars, NEW p \in Proc,
                      NEW o \in {"run", "start", "restore"},
                      Returned(p, o, "ok"), Owned # {}
               PROVE  net' # "quiesced"
    OBVIOUS
  <2>1. o \in Op /\ op[p] = o  BY DEF Op, Returned
  <2>2. CASE Postsave(p) /\ o = "run"
    BY <2>1, <2>2 DEF Postsave, host, GuestInv, At, Wired, Attached
  <2>3. CASE Unquiesce(p)  BY <2>3 DEF Unquiesce
  <2>4. ~ImgSave(p)  BY DEF ImgSave, GuestInv, At, Stopped, Settled
  <2>5. QED  BY <2>1, <2>2, <2>3, <2>4, Reports DEF GuestInv
<1>2. QED  BY <1>1, GuestCorrect, PTL DEF Spec, NetServesGuest
=============================================================================
