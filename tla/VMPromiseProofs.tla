--------------------------- MODULE VMPromiseProofs ---------------------------
(***************************************************************************)
(* What a user of one VM may rely on, for any number of CLI processes and  *)
(* pids and any network modes: VMLifecycle implements VMPromise, and a VM  *)
(* that stop or rm reported on serves no display on the host any more.     *)
(*                                                                         *)
(* The promise is kept on a host where kills succeed and no front process  *)
(* passes for the daemon: GuestInv then says which abstract step each step *)
(* is.  A proxy is gone where no CLI is killed, kills succeed and vm.json  *)
(* can be read, since each of these makes the code lose its pidfile.       *)
(***************************************************************************)
EXTENDS VMGuestProofs

-----------------------------------------------------------------------------
(* The VNC proxy                                                             *)

(* Nothing makes a command forget or miss the proxy that vnc-proxy.pid lists.*)
Quits == {"crash", "kill", "corrupt"} \cap Faults = {}

(* The steps after stopVNCProxy of a stop, a removal or a cleanup, and the   *)
(* removal of a dir that never had a record.                                 *)
Shut == {"quiesce", "stopsave", "teardown", "reap", "remove"}

(* A proxy has a record, and only the CLI that starts it may know its pid.   *)
Closed(p) ==
    /\ Route(p)
    /\ pc[p] \in Shut => proxy = "none"
    /\ rec = None => proxy = "none"
    /\ proxy = "lost" => pc[p] = "proxypid"

ProxyInv ==
    /\ GateInv
    /\ \A p \in Proc : Route(p) /\ (pc[p] # "idle" => Closed(p))
    /\ rec = None => proxy = "none"
    /\ proxy = "lost" => \E p \in Proc : pc[p] = "proxypid"

(* The proxy: reconcileRunningQEMU and what follows it.                      *)
LEMMA DispatchClosed ==
    ASSUME Quits, ProxyInv, GateInv', NEW p \in Proc, pc[p] = "load",
           NEW rc, NEW running, Dispatch(p, rc, running), rec' # None, UNCHANGED host
    PROVE  Closed(p)'
  BY DEF Quits, ProxyInv, GateInv, TypeInv, DataOK, ControlOK, FreshDir, Making, Closed, Route,
         Shut, Attached, Dispatch, host, Goto, Return, NoLocals

(* The proxy: loadRec.                                                       *)
LEMMA LoadClosed ==
    ASSUME Quits, ProxyInv, GateInv', NEW p \in Proc, Load(p)
    PROVE  Closed(p)'
<1>1. CASE (rec = None \/ "corrupt" \in Faults) /\ UNCHANGED rec
          /\ IF op[p] = "rm" /\ dir THEN Goto(p, "reap") /\ Keep
             ELSE Return(p, IF op[p] = "rm" /\ ~dir THEN "ok" ELSE "err")
  BY <1>1
     DEF Quits, ProxyInv, GateInv, TypeInv, DataOK, ControlOK, Closed, Route, Shut, Attached,
         Load, host, locals, Goto, Keep, Return, NoLocals
<1>2. ASSUME NEW rc, NEW running, rc # None, rec' = rc, Dispatch(p, rc, running)
      PROVE  Closed(p)'
  BY <1>2, DispatchClosed DEF Load
<1>3. CASE rec # None /\ UNCHANGED rec /\ Return(p, "err")
  BY <1>3 DEF ProxyInv, GateInv, TypeInv, DataOK, ControlOK, Closed, Route, Shut, Attached,
              Load, host, Return, NoLocals
<1>4. \A q \in Pid : rec # None => [rec EXCEPT !.pid = q] # None
  <2>1. rec # None => rec \in Record  BY DEF ProxyInv, GateInv, TypeInv, DataOK
  <2>2. \A q \in Pid : rec \in Record => [rec EXCEPT !.pid = q] \in Record  BY DEF Record
  <2>3. QED  BY <2>1, <2>2, RecordAssumption
<1>5. QED  BY <1>1, <1>2, <1>3, <1>4 DEF Load

(* The proxy: scaffoldVM finds no record and so no proxy.                    *)
LEMMA ScaffoldClosed ==
    ASSUME Quits, ProxyInv, GateInv', NEW p \in Proc, Scaffold(p)
    PROVE  Closed(p)'
  BY RecordAssumption
     DEF Quits, ProxyInv, GateInv, TypeInv, DataOK, ControlOK, FreshDir, Making, WithRecord,
         Closed, Route, Shut, Attached, Scaffold, host, locals, Goto, Keep, Return, NoLocals

(* The proxy: scaffoldVM.                                                    *)
LEMMA BakeClosed ==
    ASSUME Quits, ProxyInv, GateInv', NEW p \in Proc, Bake(p)
    PROVE  Closed(p)'
<1>1. CASE Goto(p, "provision") /\ Keep
  BY <1>1, RecordAssumption
     DEF Quits, ProxyInv, GateInv, TypeInv, DataOK, ControlOK, FreshDir, Making, WithRecord,
         Closed, Route, Shut, Attached, Bake, host, locals, Goto, Keep
<1>2. CASE Return(p, "err")
  BY <1>2, RecordAssumption
     DEF Quits, ProxyInv, GateInv, TypeInv, DataOK, ControlOK, FreshDir, Making, WithRecord,
         Closed, Route, Shut, Attached, Bake, host, Return, NoLocals
<1>3. QED  BY <1>1, <1>2 DEF Bake

(* The proxy: applyNet.                                                      *)
LEMMA ProvisionClosed ==
    ASSUME Quits, ProxyInv, GateInv', NEW p \in Proc, Provision(p)
    PROVE  Closed(p)'
  BY RecordAssumption
     DEF Quits, ProxyInv, GateInv, TypeInv, DataOK, ControlOK, FreshDir, Making, WithRecord,
         Closed, Route, Shut, Attached, Provision, disk, locals, Goto, Keep

(* The proxy: saveRec of a new record.                                       *)
LEMMA CommitClosed ==
    ASSUME Quits, ProxyInv, GateInv', NEW p \in Proc, Commit(p)
    PROVE  Closed(p)'
  BY RecordAssumption
     DEF Quits, ProxyInv, GateInv, TypeInv, DataOK, ControlOK, FreshDir, Making, WithRecord,
         Closed, Route, Shut, Attached, Commit, host, locals, Goto, Keep, Return, NoLocals

(* The proxy: launch.                                                        *)
LEMMA LaunchClosed ==
    ASSUME Quits, ProxyInv, GateInv', NEW p \in Proc, Launch(p)
    PROVE  Closed(p)'
  BY RecordAssumption
     DEF Quits, ProxyInv, GateInv, TypeInv, DataOK, ControlOK, FreshDir, Making, WithRecord,
         Closed, Route, Shut, Attached, Launch, disk, locals, Goto, Keep, Return, NoLocals,
         LaunchFails

(* The proxy: stopVNCProxy before a launch.                                  *)
LEMMA UnproxyClosed ==
    ASSUME Quits, ProxyInv, GateInv', NEW p \in Proc, Unproxy(p)
    PROVE  Closed(p)'
  BY RecordAssumption
     DEF Quits, ProxyInv, GateInv, TypeInv, DataOK, ControlOK, FreshDir, Making, WithRecord,
         Closed, Route, Shut, Attached, Unproxy, disk, locals, Goto, Keep, proxyAfterStop

(* The proxy: saveRec before the exec.                                       *)
LEMMA PresaveClosed ==
    ASSUME Quits, ProxyInv, GateInv', NEW p \in Proc, Presave(p)
    PROVE  Closed(p)'
  BY RecordAssumption
     DEF Quits, ProxyInv, GateInv, TypeInv, DataOK, ControlOK, FreshDir, Making, WithRecord,
         Closed, Route, Shut, Attached, Presave, host, locals, Goto, Keep, Return, NoLocals,
         LaunchFails

(* The proxy: c.Run.                                                         *)
LEMMA ExecClosed ==
    ASSUME Quits, ProxyInv, GateInv', NEW p \in Proc, Exec(p)
    PROVE  Closed(p)'
  BY RecordAssumption
     DEF Quits, ProxyInv, GateInv, TypeInv, DataOK, ControlOK, FreshDir, Making, WithRecord,
         Closed, Route, Shut, Attached, Exec, disk, locals, Goto, Keep, Return, NoLocals,
         LaunchFails

(* The proxy: launch.                                                        *)
LEMMA RunFailedClosed ==
    ASSUME Quits, ProxyInv, GateInv', NEW p \in Proc, RunFailed(p)
    PROVE  Closed(p)'
  BY RecordAssumption
     DEF Quits, ProxyInv, GateInv, TypeInv, DataOK, ControlOK, FreshDir, Making, WithRecord,
         Closed, Route, Shut, Attached, RunFailed, disk, host, locals, Goto, Keep, Return,
         NoLocals, LaunchFails

(* The proxy: ReadPIDFile.                                                   *)
LEMMA ReadPidClosed ==
    ASSUME Quits, ProxyInv, GateInv', NEW p \in Proc, ReadPid(p)
    PROVE  Closed(p)'
  BY RecordAssumption
     DEF Quits, ProxyInv, GateInv, TypeInv, DataOK, ControlOK, FreshDir, Making, WithRecord,
         Closed, Route, Shut, Attached, ReadPid, disk, host, locals, Goto, Keep, Return,
         NoLocals, LaunchFails

(* The proxy: setVNCPassword.                                                *)
LEMMA SetPassClosed ==
    ASSUME Quits, ProxyInv, GateInv', NEW p \in Proc, SetPass(p)
    PROVE  Closed(p)'
  BY RecordAssumption
     DEF Quits, ProxyInv, GateInv, TypeInv, DataOK, ControlOK, FreshDir, Making, WithRecord,
         Closed, Route, Shut, Attached, SetPass, disk, locals, Goto, Keep

(* The proxy: startVNCProxy up to c.Start; the proxy is not lost before.     *)
LEMMA ProxyClosed ==
    ASSUME Quits, ProxyInv, GateInv', NEW p \in Proc, Proxy(p)
    PROVE  Closed(p)'
<1>1. proxy # "lost"  BY DEF Proxy, ProxyInv, Closed
<1>2. proxyAfterStop = {"none"}
  BY <1>1 DEF proxyAfterStop, Quits, ProxyInv, GateInv, TypeInv, DataOK
<1>3. CASE proxy' = "lost" /\ Goto(p, "proxypid") /\ Keep
  BY <1>3 DEF Proxy, Goto, Keep, locals, disk, ProxyInv, GateInv, TypeInv, ControlOK, SameMode,
              OnRecord, WithRecord, PC, Closed, Route, Shut, Attached
<1>4. CASE proxy' = "none" /\ ProxyFails(p)
  BY <1>4 DEF Proxy, Goto, Keep, locals, ProxyFails, Return, NoLocals, ProxyInv, GateInv,
              TypeInv, ControlOK, Closed, Route, Shut, Attached
<1>5. QED  BY <1>2, <1>3, <1>4 DEF Proxy

(* The proxy: startVNCProxy from the pidfile on.                             *)
LEMMA ProxyPidClosed ==
    ASSUME Quits, ProxyInv, GateInv', NEW p \in Proc, ProxyPid(p)
    PROVE  Closed(p)'
  BY RecordAssumption
     DEF Quits, ProxyInv, GateInv, TypeInv, DataOK, ControlOK, FreshDir, Making, WithRecord,
         Closed, Route, Shut, Attached, ProxyPid, disk, locals, Goto, Keep, Return, NoLocals,
         ProxyFails, repairing

(* The proxy: launch.                                                        *)
LEMMA AbortClosed ==
    ASSUME Quits, ProxyInv, GateInv', NEW p \in Proc, Abort(p)
    PROVE  Closed(p)'
  BY RecordAssumption
     DEF Quits, ProxyInv, GateInv, TypeInv, DataOK, ControlOK, FreshDir, Making, WithRecord,
         Closed, Route, Shut, Attached, Abort, disk, locals, Goto, Keep, Return, NoLocals,
         LaunchFails

(* The proxy: saveRec after a launch.                                        *)
LEMMA PostsaveClosed ==
    ASSUME Quits, ProxyInv, GateInv', NEW p \in Proc, Postsave(p)
    PROVE  Closed(p)'
  BY RecordAssumption
     DEF Quits, ProxyInv, GateInv, TypeInv, DataOK, ControlOK, FreshDir, Making, WithRecord,
         Closed, Route, Shut, Attached, Postsave, host, locals, Goto, Keep, Return, NoLocals,
         LaunchFails

(* The proxy: toggleNet.                                                     *)
LEMMA UnquiesceClosed ==
    ASSUME Quits, ProxyInv, GateInv', NEW p \in Proc, Unquiesce(p)
    PROVE  Closed(p)'
  BY RecordAssumption
     DEF Quits, ProxyInv, GateInv, TypeInv, DataOK, ControlOK, FreshDir, Making, WithRecord,
         Closed, Route, Shut, Attached, Unquiesce, disk, Goto, Return, NoLocals

(* The proxy: stopInstance.                                                  *)
LEMMA KillClosed ==
    ASSUME Quits, ProxyInv, GateInv', NEW p \in Proc, Kill(p)
    PROVE  Closed(p)'
  BY RecordAssumption
     DEF Quits, ProxyInv, GateInv, TypeInv, DataOK, ControlOK, FreshDir, Making, WithRecord,
         Closed, Route, Shut, Attached, Kill, disk, Goto

(* The proxy: stopInstance: no kill of a proxy fails.                        *)
LEMMA KillProxyClosed ==
    ASSUME Quits, ProxyInv, GateInv', NEW p \in Proc, KillProxy(p)
    PROVE  Closed(p)'
  BY RecordAssumption
     DEF Quits, ProxyInv, GateInv, TypeInv, DataOK, ControlOK, FreshDir, Making, WithRecord,
         Closed, Route, Shut, Attached, KillProxy, disk, locals, Goto, Keep, Return, NoLocals,
         proxyAfterStop, cleaning

(* The proxy: toggleNet.                                                     *)
LEMMA QuiesceClosed ==
    ASSUME Quits, ProxyInv, GateInv', NEW p \in Proc, Quiesce(p)
    PROVE  Closed(p)'
  BY RecordAssumption
     DEF Quits, ProxyInv, GateInv, TypeInv, DataOK, ControlOK, FreshDir, Making, WithRecord,
         Closed, Route, Shut, Attached, Quiesce, disk, locals, Goto, Keep

(* The proxy: saveRec after a stop.                                          *)
LEMMA StopSaveClosed ==
    ASSUME Quits, ProxyInv, GateInv', NEW p \in Proc, StopSave(p)
    PROVE  Closed(p)'
  BY RecordAssumption
     DEF Quits, ProxyInv, GateInv, TypeInv, DataOK, ControlOK, FreshDir, Making, WithRecord,
         Closed, Route, Shut, Attached, StopSave, host, Goto, Return, NoLocals

(* The proxy: snapshot.go.                                                   *)
LEMMA ImageClosed ==
    ASSUME Quits, ProxyInv, GateInv', NEW p \in Proc, Image(p)
    PROVE  Closed(p)'
  BY RecordAssumption
     DEF Quits, ProxyInv, GateInv, TypeInv, DataOK, ControlOK, FreshDir, Making, WithRecord,
         Closed, Route, Shut, Attached, Image, disk, host, locals, Goto, Keep, Return, NoLocals

(* The proxy: saveRec of snapshot and restore.                               *)
LEMMA ImgSaveClosed ==
    ASSUME Quits, ProxyInv, GateInv', NEW p \in Proc, ImgSave(p)
    PROVE  Closed(p)'
  BY RecordAssumption
     DEF Quits, ProxyInv, GateInv, TypeInv, DataOK, ControlOK, FreshDir, Making, WithRecord,
         Closed, Route, Shut, Attached, ImgSave, host, Goto, Return, NoLocals

(* The proxy: teardownNet.                                                   *)
LEMMA TeardownClosed ==
    ASSUME Quits, ProxyInv, GateInv', NEW p \in Proc, Teardown(p)
    PROVE  Closed(p)'
  BY RecordAssumption
     DEF Quits, ProxyInv, GateInv, TypeInv, DataOK, ControlOK, FreshDir, Making, WithRecord,
         Closed, Route, Shut, Attached, Teardown, disk, locals, Goto, Keep, Return, NoLocals

(* The proxy: reapStrayHelpers.                                              *)
LEMMA ReapClosed ==
    ASSUME Quits, ProxyInv, GateInv', NEW p \in Proc, Reap(p)
    PROVE  Closed(p)'
  BY RecordAssumption
     DEF Quits, ProxyInv, GateInv, TypeInv, DataOK, ControlOK, FreshDir, Making, WithRecord,
         Closed, Route, Shut, Attached, Reap, disk, locals, Goto, Keep, Return, NoLocals

(* The proxy: removeAll.                                                     *)
LEMMA RemoveClosed ==
    ASSUME Quits, ProxyInv, GateInv', NEW p \in Proc, Remove(p)
    PROVE  Closed(p)'
  BY RecordAssumption
     DEF Quits, ProxyInv, GateInv, TypeInv, DataOK, ControlOK, FreshDir, Making, WithRecord,
         Closed, Route, Shut, Attached, Remove, Goto, Return, NoLocals

(* Only p works on the VM, before and after its step.                        *)
LEMMA ClosedProxy ==
    ASSUME GateInv', NEW p \in Proc, Closed(p)', \A x \in Proc \ {p} : pc'[x] = "idle"
    PROVE  ProxyInv'
  BY DEF ProxyInv, Closed, Route, Attached, Shut

(* No step of an operation breaks the invariant.                             *)
LEMMA StepProxy ==
    ASSUME Quits, ProxyInv, GateInv', NEW p \in Proc, Step(p)
    PROVE  ProxyInv'
<1>1. Closed(p)'
  BY LoadClosed, ScaffoldClosed, BakeClosed, ProvisionClosed, CommitClosed, LaunchClosed,
     UnproxyClosed, PresaveClosed, ExecClosed, RunFailedClosed, ReadPidClosed, SetPassClosed,
     ProxyClosed, ProxyPidClosed, AbortClosed, PostsaveClosed, UnquiesceClosed, KillClosed,
     KillProxyClosed, QuiesceClosed, StopSaveClosed, ImageClosed, ImgSaveClosed,
     TeardownClosed, ReapClosed, RemoveClosed
     DEF Step
<1>2. pc[p] # "idle" /\ lock' \in {lock, None}
  <2>1. \A l : Goto(p, l) => lock' = lock  BY DEF Goto
  <2>2. \A res : Return(p, res) => lock' = None  BY DEF Return
  <2>3. LaunchFails(p) \/ ProxyFails(p) => lock' \in {lock, None}
    BY <2>1, <2>2 DEF LaunchFails, ProxyFails
  <2>4. \A rc, running : Dispatch(p, rc, running) => lock' \in {lock, None}
    BY <2>1, <2>2 DEF Dispatch
  <2>5. CASE Load(p)  BY <2>1, <2>2, <2>4, <2>5 DEF Load
  <2>6. CASE ~Load(p)
    BY <2>1, <2>2, <2>3, <2>6
       DEF Step, Scaffold, Bake, Provision, Commit, Launch, Unproxy, Presave, Exec, RunFailed,
           ReadPid, SetPass, Proxy, ProxyPid, Abort, Postsave, Unquiesce, Kill, KillProxy,
           Quiesce, StopSave, Image, ImgSave, Teardown, Reap, Remove
  <2>7. QED  BY <2>5, <2>6
<1>3. \A x \in Proc \ {p} : pc'[x] = "idle"
  BY <1>2, NoneAssumption DEF ProxyInv, GateInv, Mutex
<1>4. QED  BY <1>1, <1>3, ClosedProxy

(* No step of the system breaks the invariant.                               *)
LEMMA ProxyNext == Quits /\ ProxyInv /\ [Next]_vars => ProxyInv'
<1> SUFFICES ASSUME Quits, ProxyInv, [Next]_vars PROVE ProxyInv'  OBVIOUS
<1>1. GateInv'  BY GateNext DEF ProxyInv
<1>2. CASE \E p \in Proc : Acquire(p)
  <2>1. PICK p \in Proc : Acquire(p)  BY <1>2
  <2>2. \A x \in Proc \ {p} : pc'[x] = "idle"
    BY <1>1, <2>1 DEF Acquire, GateInv, Mutex
  <2>3. proxy # "lost"
    BY <2>1, NoneAssumption DEF Acquire, ProxyInv, GateInv, Mutex
  <2>4. Closed(p)'
    BY <2>1, <2>3
       DEF Acquire, disk, host, ProxyInv, GateInv, TypeInv, ControlOK, Closed, Route, Shut,
           Attached
  <2>5. QED  BY <1>1, <2>2, <2>4, ClosedProxy
<1>3. CASE \E p \in Proc : Step(p)  BY <1>1, <1>3, StepProxy
<1>4. CASE \E p \in Proc : Crash(p)  BY <1>4 DEF Quits, Crash
<1>5. CASE \E q \in Pid : Boot(q) \/ QemuExit(q)
  <2>1. UNCHANGED <<rec, proxy, op, r, was>>
    BY <1>5 DEF Boot, QemuFork, QemuReady, QemuFail, QemuExit, disk, locals
  <2>2. \A x \in Proc : \/ pc'[x] = pc[x]
                        \/ pc[x] = "wait" /\ pc'[x] \in {"readpid", "runfailed"}
    BY <1>5
       DEF Boot, QemuFork, QemuReady, QemuFail, QemuExit, Wake, ProxyInv, GateInv, TypeInv,
           ControlOK
  <2>3. \A x \in Proc : Route(x)'
    BY <1>1, <2>1, <2>2 DEF Route, Attached, ProxyInv, GateInv, TypeInv, ControlOK
  <2>4. \A x \in Proc : pc'[x] # "idle" => Closed(x)'
    BY <2>1, <2>2, <2>3 DEF Closed, Shut, ProxyInv
  <2>5. proxy = "lost" => \E x \in Proc : pc'[x] = "proxypid"
    BY <2>2 DEF ProxyInv
  <2>6. QED  BY <1>1, <2>1, <2>3, <2>4, <2>5 DEF ProxyInv
<1>6. CASE Reboot  BY <1>1, <1>6 DEF Reboot, ProxyInv, Route, Attached
<1>7. CASE ProxyExit \/ UNCHANGED vars
  BY <1>1, <1>7
     DEF ProxyExit, vars, disk, host, locals, ProxyInv, Closed, Route, Shut, Attached
<1>8. QED  BY <1>2, <1>3, <1>4, <1>5, <1>6, <1>7 DEF Next

(* lifecycle.go:85: stop and rm end the display with the guest, host port    *)
(* included, unless a CLI was killed, a kill failed or vm.json is unreadable.*)
THEOREM ProxyIsGone ==
    ASSUME Quits
    PROVE  Spec => VncGoneAfterStop
<1> DEFINE A == \A p \in Proc : Returned(p, "stop", "ok") \/ Returned(p, "rm", "ok")
                    => proxy' = "none"
<1>1. Init => ProxyInv
  <2> SUFFICES ASSUME Init PROVE ProxyInv  OBVIOUS
  <2>1. GateInv  BY GateInit
  <2>2. QED  BY <2>1 DEF Init, ProxyInv, Route, Attached
<1>2. ProxyInv /\ [Next]_vars => ProxyInv'  BY ProxyNext
<1>3. ProxyInv /\ [Next]_vars => [A]_vars
  <2> SUFFICES ASSUME ProxyInv, [Next]_vars, NEW p \in Proc, NEW o \in {"stop", "rm"},
                      Returned(p, o, "ok")
               PROVE  proxy' = "none"
    OBVIOUS
  <2>1. op[p] = o /\ o \in Op  BY DEF Returned, Op
  <2>2. CASE Load(p) /\ ~dir  BY <2>2 DEF Load, host, ProxyInv, GateInv, Homed
  <2>3. CASE StopSave(p)  BY <2>3 DEF StopSave, host, ProxyInv, Closed, Shut
  <2>4. CASE Remove(p)  BY <2>4 DEF Remove, ProxyInv, Closed, Shut
  <2>5. ~Unquiesce(p) /\ ~ImgSave(p)
    BY <2>1 DEF Unquiesce, ImgSave, ProxyInv, Route
  <2>6. QED  BY <2>1, <2>2, <2>3, <2>4, <2>5, Reports DEF ProxyInv
<1>4. QED  BY <1>1, <1>2, <1>3, PTL DEF Spec, VncGoneAfterStop

-----------------------------------------------------------------------------
(* The promise                                                               *)

Running == Guests \cap Owned

Screen == IF Running # {} THEN vmm[guest].disp ELSE "off"
Status == IF Running # {} THEN "running" ELSE IF rec # None THEN "stopped" ELSE "absent"
ModeNow == IF rec = None THEN None ELSE rec.mode

(* The guest that CHOOSE finds is the one there is.                          *)
LEMMA GuestIs == \A q : Sole /\ q \in Running => guest = q
<1> SUFFICES ASSUME NEW q, Sole, q \in Running PROVE guest = q  OBVIOUS
<1>1. q \in Pid /\ q \in Guests /\ ~vmm[q].orphan  BY DEF Running, Guests, Owned
<1>2. \A x \in Pid : x \in Guests /\ ~vmm[x].orphan => x = q
  BY DEF Sole, Daemons, Running, Guests, Owned, Live
<1>3. QED  BY <1>1, <1>2 DEF guest

Showing == \A q \in Running : Status = "running" /\ Screen = vmm[q].disp

(* With a guest VMPromise is "running" and shows its display.                *)
LEMMA SeenRunning == Sole => Showing
  BY GuestIs DEF Showing, Status, Screen

(* Without one it is what vm.json says.                                      *)
LEMMA SeenStopped ==
    Running = {} => Screen = "off" /\ Status = (IF rec # None THEN "stopped" ELSE "absent")
  BY DEF Status, Screen

(* No guest comes up and no display changes.                                 *)
Fades ==
    /\ Running' \subseteq Running
    /\ \A q \in Running' : vmm'[q].disp = vmm[q].disp
    /\ (rec' = None) = (rec = None)
    /\ ModeNow' = ModeNow

(* Of such a step VMPromise sees nothing, or the guest halt.                 *)
LEMMA FadesHalts ==
    ASSUME GuestInv, GuestInv', "kill" \notin Faults, Fades
    PROVE  [Promise!Next]_Promise!vars
<1>1. Sole /\ Sole'  BY DEF GuestInv, HostInv
<1>2. Showing /\ Showing'  BY <1>1, SeenRunning, PTL
<1>3. CASE Running = {}
  <2>1. Running' = {}  BY <1>3 DEF Fades
  <2>2. Status' = Status /\ Screen' = Screen /\ ModeNow' = ModeNow
    BY <1>3, <2>1 DEF Status, Screen, Fades
  <2>3. QED  BY <2>2 DEF Promise!vars, Status, Screen, ModeNow, Running
<1>4. CASE Running # {} /\ Running' = {}
  <2>1. rec # None /\ rec' # None
    BY <1>4 DEF Fades, GuestInv, HostInv, Kept, Running, Owned
  <2>2. /\ Status = "running" /\ Status' = "stopped" /\ Screen' = "off" /\ ModeNow' = ModeNow
    BY <1>4, <2>1 DEF Status, Screen, Fades
  <2>3. Promise!Halt
    BY <2>2 DEF Promise!Halt, Status, Screen, ModeNow, Running
  <2>4. QED  BY <2>3 DEF Promise!Next
<1>5. CASE Running' # {}
  <2>1. PICK q : q \in Running'  BY <1>5
  <2>2. q \in Running  BY <2>1 DEF Fades
  <2>3. Status = "running" /\ Screen = vmm[q].disp  BY <1>2, <2>2 DEF Showing
  <2>4. Status' = "running" /\ Screen' = vmm'[q].disp  BY <1>2, <2>1 DEF Showing
  <2>5. Status' = Status /\ Screen' = Screen /\ ModeNow' = ModeNow
    BY <2>1, <2>3, <2>4 DEF Fades
  <2>6. QED  BY <2>5 DEF Promise!vars, Status, Screen, ModeNow, Running
<1>6. QED  BY <1>3, <1>4, <1>5

(* A step under which no QEMU comes up.                                      *)
LEMMA ThinsFades ==
    ASSUME Thins, \A q \in Pid : vmm[q].phase = "init" => vmm'[q].phase # "up"
    PROVE  /\ Running' \subseteq Running
           /\ \A q \in Running' : vmm'[q].disp = vmm[q].disp
  BY DEF Thins, Running, Guests, Owned, Live

(* vm.json names the VM's mode for good.                                     *)
LEMMA ModeKept ==
    ASSUME NEW rc, rec' = rc, rec # None, rc # None, rc.mode = rec.mode
    PROVE  (rec' = None) = (rec = None) /\ ModeNow' = ModeNow
  BY DEF ModeNow

(* A step that does not touch vm.json keeps it.                              *)
LEMMA RecKept == ASSUME UNCHANGED rec PROVE (rec' = None) = (rec = None) /\ ModeNow' = ModeNow
  BY DEF ModeNow

(* The guest comes up: the daemon of the VM's one boot.                      *)
LEMMA ReadyBoots ==
    ASSUME Sober, GuestInv, GuestInv', "kill" \notin Faults, NEW d \in Pid, QemuReady(d)
    PROVE  Promise!Boot
<1> DEFINE f == vmm[d].front
<1>1. /\ vmm[d].phase = "init" /\ f \in Pid /\ f # d /\ vmm[d].disp # "set"
      /\ vmm[d].disp \in Display /\ ~vmm[d].orphan /\ rec # None /\ UNCHANGED rec
  <2>1. vmm[d].phase = "init" /\ UNCHANGED rec  BY DEF QemuReady, disk
  <2>2. /\ f \in Pid /\ vmm[f].phase = "front" /\ vmm[d].disp # "set"
        /\ ~vmm[d].orphan /\ rec # None
    BY <2>1 DEF GuestInv, HostInv, Paired, Kept, Live
  <2>3. vmm[d].disp \in Display  BY DEF GuestInv, GateInv, TypeInv, DataOK, VMM
  <2>4. QED  BY <2>1, <2>2, <2>3
<1>2. vmm'[d].phase = "up" /\ vmm'[d].disp = vmm[d].disp /\ vmm'[d].orphan = vmm[d].orphan
  BY <1>1 DEF QemuReady, VMM, GuestInv, GateInv, TypeInv, DataOK
<1>3. d \in Running' /\ d \in Daemons /\ d \notin Running
  BY <1>1, <1>2 DEF Running, Guests, Owned, Live, Daemons
<1>4. Running = {}
  BY <1>3 DEF Running, Guests, Daemons, GuestInv, HostInv, Sole
<1>5. Status = "stopped" /\ Screen = "off"  BY <1>1, <1>4 DEF Status, Screen
<1>6. Showing'  BY SeenRunning, PTL DEF GuestInv, HostInv
<1>7. Status' = "running" /\ Screen' = vmm[d].disp  BY <1>2, <1>3, <1>6 DEF Showing
<1>8. hasNetns(rec.mode) => vmm[d].disp # "open"
  BY <1>1 DEF GuestInv, GateInv, GatedProcesses, Owned, Live
<1>9. ModeNow = rec.mode /\ ModeNow' = rec.mode  BY <1>1 DEF ModeNow
<1>10. Screen' \in IF hasNetns(ModeNow) THEN {"off", "locked"} ELSE {"off", "open", "locked"}
  BY <1>1, <1>7, <1>8, <1>9 DEF Display
<1>11. QED
  BY <1>5, <1>7, <1>9, <1>10 DEF Promise!Boot, Status, Screen, ModeNow, Running

(* set_password.                                                             *)
LEMMA SetPassUnlocks ==
    ASSUME GuestInv, GuestInv', "kill" \notin Faults, NEW p \in Proc, SetPass(p)
    PROVE  [Promise!Next]_Promise!vars
<1> DEFINE q == r[p].pid
<1>1. rec' = rec  BY DEF SetPass, disk
<1>2. CASE UNCHANGED vmm
  BY <1>1, <1>2, RecKept, FadesHalts, SameTable DEF Fades, Running
<1>3. CASE q \in Guests /\ vmm[q].disp = "locked" /\ vmm' = [vmm EXCEPT ![q].disp = "set"]
  <2>1. /\ vmm'[q].disp = "set" /\ vmm'[q].phase = "up" /\ vmm'[q].orphan = vmm[q].orphan
        /\ q \in Pid
    BY <1>3 DEF Guests, VMM, GuestInv, GateInv, TypeInv, DataOK
  <2>2. ~vmm[q].orphan  BY <1>3 DEF GuestInv, HostInv, Kept, Guests, Live
  <2>3. q \in Running /\ q \in Running'
    BY <1>3, <2>1, <2>2 DEF Running, Guests, Owned, Live
  <2>4. Showing /\ Showing'  BY SeenRunning, PTL DEF GuestInv, HostInv
  <2>5. /\ Status = "running" /\ Screen = "locked" /\ Status' = "running" /\ Screen' = "set"
        /\ ModeNow' = ModeNow
    BY <1>1, <1>3, <2>1, <2>3, <2>4 DEF Showing, ModeNow
  <2>6. Promise!Unlock  BY <2>5 DEF Promise!Unlock, Status, Screen, ModeNow, Running
  <2>7. QED  BY <2>6 DEF Promise!Next
<1>4. QED  BY <1>2, <1>3 DEF SetPass

(* A record for a dir that had none.                                         *)
LEMMA CommitCreates ==
    ASSUME GuestInv, GuestInv', "kill" \notin Faults, NEW p \in Proc, Commit(p)
    PROVE  [Promise!Next]_Promise!vars
<1>1. rec = None /\ Owned = {} /\ UNCHANGED vmm
  BY DEF Commit, host, GuestInv, GateInv, FreshDir, Making
<1>2. Running = {} /\ Running' = {}  BY <1>1, SameTable DEF Running
<1>3. CASE UNCHANGED rec  BY <1>2, <1>3, RecKept, FadesHalts DEF Fades
<1>4. CASE rec' = r[p]
  <2>1. r[p] \in Record
    BY DEF Commit, GuestInv, GateInv, TypeInv, ControlOK, WithRecord, PC
  <2>2. rec' # None /\ rec'.mode \in Mode  BY <1>4, <2>1, RecordAssumption DEF Record
  <2>3. /\ Status = "absent" /\ Status' = "stopped" /\ ModeNow' \in Mode
        /\ Screen = "off" /\ Screen' = "off"
    BY <1>1, <1>2, <2>2 DEF Status, Screen, ModeNow
  <2>4. Promise!Create  BY <2>3 DEF Promise!Create, Status, Screen, ModeNow, Running
  <2>5. QED  BY <2>4 DEF Promise!Next
<1>5. QED  BY <1>3, <1>4 DEF Commit

(* RemoveAll, with or without a record, never under a guest.                 *)
LEMMA RemoveRemoves ==
    ASSUME GuestInv, GuestInv', "kill" \notin Faults, NEW p \in Proc, Remove(p)
    PROVE  [Promise!Next]_Promise!vars
<1>1. Live = {} /\ Live' = {}
  <2>1. Live = {}  BY DEF Remove, GuestInv, At, Stopped
  <2>2. \A q \in Pid : vmm[q].phase = "dead" => q \notin Live  BY DEF Live
  <2>3. \A q \in Pid : vmm'[q] = vmm[q]
    BY <2>1 DEF Remove, GuestInv, GateInv, TypeInv, DataOK
  <2>4. QED  BY <2>1, <2>3 DEF Live
<1>2. Running = {} /\ Running' = {}  BY <1>1 DEF Running, Owned
<1>3. CASE UNCHANGED rec  BY <1>2, <1>3, RecKept, FadesHalts DEF Fades
<1>4. CASE rec # None /\ rec' = None
  <2>1. /\ Status = "stopped" /\ Status' = "absent" /\ ModeNow' = None
        /\ Screen = "off" /\ Screen' = "off"
    BY <1>2, <1>4 DEF Status, Screen, ModeNow
  <2>2. Promise!Remove  BY <2>1 DEF Promise!Remove, Status, Screen, ModeNow, Running
  <2>3. QED  BY <2>2 DEF Promise!Next
<1>5. QED  BY <1>3, <1>4 DEF Remove

(* A step that leaves the process table alone and the record with its mode.  *)
LEMMA QuietHalts ==
    ASSUME GuestInv, GuestInv', "kill" \notin Faults, UNCHANGED vmm,
           (rec' = None) = (rec = None), ModeNow' = ModeNow
    PROVE  [Promise!Next]_Promise!vars
  BY FadesHalts, SameTable DEF Fades, Running

(* The steps that write vm.json keep the mode.                               *)
LEMMA SaveKeeps ==
    ASSUME GuestInv, NEW p \in Proc,
           Load(p) \/ Presave(p) \/ Postsave(p) \/ StopSave(p) \/ ImgSave(p)
    PROVE  (rec' = None) = (rec = None) /\ ModeNow' = ModeNow
<1>1. CASE UNCHANGED rec  BY <1>1, RecKept
<1>2. CASE Load(p) /\ rec # None /\ \E q \in Pid : rec' = [rec EXCEPT !.pid = q]
  <2>1. PICK q \in Pid : rec' = [rec EXCEPT !.pid = q]  BY <1>2
  <2>2. rec \in Record  BY <1>2 DEF GuestInv, GateInv, TypeInv, DataOK
  <2>3. [rec EXCEPT !.pid = q] \in Record /\ [rec EXCEPT !.pid = q].mode = rec.mode
    BY <2>2 DEF Record
  <2>4. [rec EXCEPT !.pid = q] # None  BY <2>3, RecordAssumption
  <2>5. QED  BY <1>2, <2>1, <2>3, <2>4, ModeKept
<1>3. CASE ~Load(p)
  <2>1. rec # None /\ rec.mode = r[p].mode /\ r[p] \in Record /\ pass[p] \in BOOLEAN
    BY <1>3 DEF Presave, Postsave, StopSave, ImgSave, GuestInv, GateInv, SameMode, OnRecord,
                WithRecord, PC, TypeInv, ControlOK
  <2>2. \A rc \in Record : rc.mode = r[p].mode /\ rec' = rc
                           => (rec' = None) = (rec = None) /\ ModeNow' = ModeNow
    BY <2>1, RecordAssumption, ModeKept
  <2>3. /\ [r[p] EXCEPT !.passSet = pass[p]] \in Record
        /\ [r[p] EXCEPT !.passSet = pass[p]].mode = r[p].mode
        /\ [r[p] EXCEPT !.pid = None] \in Record
        /\ [r[p] EXCEPT !.pid = None].mode = r[p].mode
        /\ [r[p] EXCEPT !.pid = None, !.vnc = FALSE, !.passSet = FALSE] \in Record
        /\ [r[p] EXCEPT !.pid = None, !.vnc = FALSE, !.passSet = FALSE].mode = r[p].mode
    BY <2>1 DEF Record
  <2>4. CASE Presave(p)  BY <1>1, <2>2, <2>3, <2>4 DEF Presave
  <2>5. CASE StopSave(p)  BY <1>1, <2>2, <2>3, <2>5 DEF StopSave
  <2>6. CASE Postsave(p) \/ ImgSave(p)  BY <1>1, <2>1, <2>2, <2>6 DEF Postsave, ImgSave
  <2>7. QED  BY <1>3, <2>4, <2>5, <2>6
<1>4. QED  BY <1>1, <1>2, <1>3 DEF Load

(* A step under which processes are killed and vm.json stays.                *)
LEMMA KilledHalts ==
    ASSUME GuestInv, GuestInv', "kill" \notin Faults, UNCHANGED rec,
           NEW S, vmm' = Killed(S)
    PROVE  [Promise!Next]_Promise!vars
<1>1. Thins  BY KilledThins DEF GuestInv, GateInv
<1>2. \A q \in Pid : vmm[q].phase = "init" => vmm'[q].phase # "up"
  <2> SUFFICES ASSUME NEW q \in Pid, vmm[q].phase = "init" PROVE vmm'[q].phase # "up"  OBVIOUS
  <2>1. vmm[q] \in VMM  BY DEF GuestInv, GateInv, TypeInv, DataOK
  <2>2. [vmm[q] EXCEPT !.phase = "doomed", !.front = None].phase = "doomed"  BY <2>1 DEF VMM
  <2>3. vmm'[q] \in {Dead, vmm[q], [vmm[q] EXCEPT !.phase = "doomed", !.front = None]}
    BY DEF Killed
  <2>4. Dead.phase # "up" /\ vmm[q].phase # "up"  BY DEF Dead
  <2>5. QED  BY <2>2, <2>3, <2>4, Zenon
<1>3. QED  BY <1>1, <1>2, ThinsFades, RecKept, FadesHalts DEF Fades

(* c.Run starts a front and a daemon on pids that are free, no guest yet.    *)
LEMMA ExecHalts ==
    ASSUME Sober, GuestInv, GuestInv', "kill" \notin Faults, NEW p \in Proc, Exec(p)
    PROVE  [Promise!Next]_Promise!vars
<1> DEFINE front == [phase |-> "front", front |-> None, orphan |-> FALSE,
                     disp |-> IF ~r[p].vnc THEN "off" ELSE IF pass[p] THEN "locked" ELSE "open"]
<1>1. Running' \subseteq Running /\ \A q \in Running' : vmm'[q].disp = vmm[q].disp
  <2>1. CASE UNCHANGED vmm  BY <2>1, SameTable DEF Running
  <2>2. CASE ~UNCHANGED vmm
    <3>1. \A q \in Pid : vmm'[q] = vmm[q] \/ vmm'[q].phase \in {"front", "init"}
      <4>1. PICK f \in Free : \E d \in Free \ {f} :
                vmm' = [vmm EXCEPT ![f] = front, ![d] = DaemonOf(front, f)]
        BY <2>2 DEF Sober, Exec
      <4>2. front.phase = "front" /\ DaemonOf(front, f).phase = "init"  BY DEF DaemonOf
      <4> HIDE DEF front
      <4>3. \A q \in Pid : vmm'[q] \in {vmm[q], front, DaemonOf(front, f)}
        BY <4>1 DEF Free, GuestInv, GateInv, TypeInv, DataOK
      <4>4. QED  BY <4>2, <4>3
    <3>2. QED  BY <3>1 DEF Running, Guests, Owned, Live
  <2>3. QED  BY <2>1, <2>2
<1>2. QED  BY <1>1, RecKept, FadesHalts DEF Exec, disk, Fades

(* A boot that fails, a guest that exits, a reboot of the host.              *)
LEMMA DeathHalts ==
    ASSUME GuestInv, GuestInv', "kill" \notin Faults,
           Reboot \/ \E q \in Pid : QemuFail(q) \/ QemuExit(q)
    PROVE  [Promise!Next]_Promise!vars
<1>1. \A q \in Pid : vmm'[q] = vmm[q] \/ vmm'[q].phase = "dead"
  BY DEF Reboot, QemuFail, QemuExit, Dead, GuestInv, GateInv, TypeInv, DataOK
<1>2. Running' \subseteq Running /\ \A q \in Running' : vmm'[q].disp = vmm[q].disp
  BY <1>1 DEF Running, Guests, Owned, Live
<1>3. UNCHANGED rec  BY DEF Reboot, QemuFail, QemuExit, disk
<1>4. QED  BY <1>2, <1>3, RecKept, FadesHalts DEF Fades

(* Every step of the system is one of the promise, or none.                  *)
LEMMA PromiseNext ==
    ASSUME Sober, "kill" \notin Faults, GuestInv, GuestInv', [Next]_vars
    PROVE  [Promise!Next]_Promise!vars
<1>1. ASSUME NEW p \in Proc, Step(p) PROVE [Promise!Next]_Promise!vars
  <2>1. CASE \/ Scaffold(p) \/ Bake(p) \/ Provision(p) \/ Launch(p) \/ Unproxy(p)
             \/ RunFailed(p) \/ ReadPid(p) \/ Proxy(p) \/ ProxyPid(p) \/ Unquiesce(p)
             \/ KillProxy(p) \/ Quiesce(p) \/ Image(p) \/ Teardown(p)
    <3>1. UNCHANGED <<rec, vmm>>
      BY <2>1 DEF Scaffold, Bake, Provision, Launch, Unproxy, RunFailed, ReadPid, Proxy,
                  ProxyPid, Unquiesce, KillProxy, Quiesce, Image, Teardown, disk, host
    <3>2. QED  BY <3>1, RecKept, QuietHalts
  <2>2. CASE Load(p) \/ Presave(p) \/ Postsave(p) \/ StopSave(p) \/ ImgSave(p)
    <3>1. UNCHANGED vmm  BY <2>2 DEF Load, Presave, Postsave, StopSave, ImgSave, host
    <3>2. QED  BY <2>2, <3>1, SaveKeeps, QuietHalts
  <2>3. CASE Abort(p) \/ Kill(p) \/ Reap(p)
    <3>1. UNCHANGED rec /\ \E S : vmm' = Killed(S)
      BY <2>3 DEF Abort, Kill, Reap, disk
    <3>2. QED  BY <3>1, KilledHalts
  <2>4. CASE Commit(p) \/ Exec(p) \/ SetPass(p) \/ Remove(p)
    BY <2>4, CommitCreates, ExecHalts, SetPassUnlocks, RemoveRemoves
  <2>5. QED  BY <1>1, <2>1, <2>2, <2>3, <2>4 DEF Step
<1>2. CASE \E p \in Proc : Acquire(p) \/ Crash(p)
  BY <1>2, RecKept, QuietHalts DEF Acquire, Crash, disk, host
<1>3. CASE \E q \in Pid : Boot(q) \/ QemuExit(q)
  <2>1. CASE \E q \in Pid : QemuFork(q)  BY <2>1, QemuForkGuest
  <2>2. CASE \E q \in Pid : QemuReady(q)  BY <2>2, ReadyBoots DEF Promise!Next
  <2>3. QED  BY <1>3, <2>1, <2>2, DeathHalts DEF Boot
<1>4. CASE Reboot  BY <1>4, DeathHalts
<1>5. CASE ProxyExit \/ UNCHANGED vars
  BY <1>5, RecKept, QuietHalts DEF ProxyExit, vars, disk, host
<1>6. QED  BY <1>1, <1>2, <1>3, <1>4, <1>5 DEF Next

(* lifecycle.go:103 and 290, utils.go:245: where kills succeed the many      *)
(* steps of all operations, crashed CLIs and rebooted hosts included, are a  *)
(* VM that is created, boots, halts and goes away.                           *)
THEOREM PromiseKept ==
    ASSUME Sober, "kill" \notin Faults
    PROVE  Spec => KeepsPromise
<1>1. Init => Promise!Init
  BY DEF Init, Promise!Init, Guests, Dead
<1>2. GuestInv /\ GuestInv' /\ [Next]_vars => [Promise!Next]_Promise!vars  BY PromiseNext
<1>3. QED  BY <1>1, <1>2, GuestCorrect, PTL DEF Spec, KeepsPromise, Promise!Spec
=============================================================================
