------------------------- MODULE VMLifecycleProofs -------------------------
(***************************************************************************)
(* Theorems about VMLifecycle, for any number of CLI processes and pids,   *)
(* any set of network modes and any set of faults.                         *)
(*                                                                         *)
(* TypeInv is inductive: besides the types it says where a CLI has loaded  *)
(* its record.  GateInv strengthens GatedDisplay: only the holder of the   *)
(* flock is inside an operation, the record it works on has the network    *)
(* mode vm.json has, a VM dir that is being scaffolded has no QEMU, and a  *)
(* launch that passed requireCNIVNCPassword still has its password.        *)
(* EndInv adds what an operation waits for, and bounds its steps.          *)
(***************************************************************************)
EXTENDS VMLifecycle, TLAPS

-----------------------------------------------------------------------------
(* The steps at which the local record r is set.                             *)
WithRecord == PC \ {"idle", "load", "scaffold", "bake", "provision", "reap", "remove"}

DataOK ==
    /\ dir \in BOOLEAN
    /\ rec \in Record \cup {None}
    /\ vmm \in [Pid -> VMM]
    /\ proxy \in {"none", "listed", "lost"}
    /\ net \in {"absent", "up", "quiesced"}

ControlOK ==
    /\ lock \in Proc \cup {None}
    /\ pc \in [Proc -> PC]
    /\ op \in [Proc -> Op \cup {"none"}]
    /\ r \in [Proc -> Record \cup {None}]
    /\ pass \in [Proc -> BOOLEAN]
    /\ was \in [Proc -> {"stopped", "running", "gated"}]
    /\ bad \in [Proc -> BOOLEAN]
    /\ child \in [Proc -> Pid \cup {None}]
    /\ out \in [Proc -> {"none", "ok", "err", "crash"}]
    /\ \A p \in Proc : pc[p] \in WithRecord => r[p] \in Record

TypeInv == DataOK /\ ControlOK

(* Only the holder of the flock is inside an operation.                      *)
Mutex == \A p \in Proc : pc[p] # "idle" => lock = p

Making == {"bake", "provision", "commit"}
Launching == {"unproxy", "presave", "exec"}

(* vm.json is in the VM dir, and a dir that is absent or being made is named *)
(* by no QEMU.                                                               *)
Homed == ~dir => rec = None /\ Owned = {}

FreshDir ==
    /\ \A p \in Proc : pc[p] \in Making => rec = None /\ Owned = {}
    /\ \A p \in Proc : pc[p] \in {"provision", "commit"} => dir
    /\ \A p \in Proc : pc[p] \in Making \cup {"scaffold"} => op[p] \in {"create", "run"}

(* The steps that work on the record of a committed VM; create and run reach *)
(* "kill" and "killproxy" without one.                                       *)
OnRecord(p) ==
    \/ pc[p] \in WithRecord \ {"commit", "kill", "killproxy", "teardown"}
    \/ pc[p] \in {"kill", "killproxy"} /\ op[p] \in {"stop", "restore"}

SameMode == \A p \in Proc : OnRecord(p) => rec # None /\ rec.mode = r[p].mode

(* What requireCNIVNCPassword established.                                   *)
Gated ==
    \A p \in Proc : pc[p] \in Launching /\ hasNetns(r[p].mode) /\ r[p].vnc => pass[p]

(* GatedDisplay of every QEMU process of the VM, booting or not.             *)
GatedProcesses ==
    \A q \in Owned : rec # None /\ hasNetns(rec.mode) => vmm[q].disp # "open"

GateInv ==
    /\ TypeInv
    /\ Mutex
    /\ Homed
    /\ FreshDir
    /\ SameMode
    /\ Gated
    /\ GatedProcesses

-----------------------------------------------------------------------------
(* Types.  The lemmas ahead of those about actions say what the common ends  *)
(* of a step do to the control state.                                        *)

(* The inductive type invariant implies the one the runs check.              *)
LEMMA TypeInvType == TypeInv => TypeOK
  BY DEF TypeInv, DataOK, ControlOK, TypeOK

(* Killing processes (terminate, TerminateByCmdline) keeps the process table *)
(* well-typed.                                                               *)
LEMMA KilledType ==
    ASSUME vmm \in [Pid -> VMM], NEW S
    PROVE  Killed(S) \in [Pid -> VMM]
  BY DEF Killed, VMM, Dead, Display

(* Ending an operation (the deferred Unlock) keeps the control state well-   *)
(* typed.                                                                    *)
LEMMA ReturnType ==
    ASSUME ControlOK, NEW p \in Proc, NEW result \in {"ok", "err", "crash"}, Return(p, result)
    PROVE  ControlOK'
  BY DEF ControlOK, Return, NoLocals, WithRecord, PC

(* Going on to a step keeps the types, if that step finds the record it      *)
(* works on.                                                                 *)
LEMMA GotoType ==
    ASSUME ControlOK, NEW p \in Proc, NEW l \in PC, l \in WithRecord => r[p] \in Record,
           Goto(p, l), Keep
    PROVE  ControlOK'
  BY DEF ControlOK, Goto, Keep, locals, WithRecord

(* A failed launch keeps the control state well-typed.                       *)
LEMMA LaunchFailsType ==
    ASSUME ControlOK, NEW p \in Proc, pc[p] \in WithRecord, LaunchFails(p)
    PROVE  ControlOK'
  BY ReturnType, GotoType DEF LaunchFails, ControlOK, WithRecord, PC

(* A failed startVNCProxy keeps the control state well-typed.                *)
LEMMA ProxyFailsType ==
    ASSUME ControlOK, NEW p \in Proc, pc[p] \in WithRecord, ProxyFails(p)
    PROVE  ControlOK'
  BY ReturnType, GotoType DEF ProxyFails, ControlOK, WithRecord, PC

(* A step that gives p a new record and goes on.                             *)
LEMMA RecordType ==
    ASSUME ControlOK, NEW p \in Proc, NEW l \in PC, NEW rc \in Record,
           Goto(p, l), r' = [r EXCEPT ![p] = rc],
           op' = op, child' = child,
           pass' \in [Proc -> BOOLEAN],
           was' \in [Proc -> {"stopped", "running", "gated"}],
           bad' \in [Proc -> BOOLEAN]
    PROVE  ControlOK'
  BY DEF ControlOK, Goto, WithRecord

(* Types: utils.go, withVMLock, forEachVMDir.                                *)
LEMMA AcquireType == ASSUME TypeInv, NEW p \in Proc, Acquire(p) PROVE TypeInv'
<1>1. DataOK'
  BY DEF Acquire, disk, host, TypeInv, DataOK, ControlOK
<1>2. ControlOK'
  BY DEF Acquire, Op, TypeInv, ControlOK, WithRecord, PC
<1>3. QED  BY <1>1, <1>2 DEF TypeInv

(* Types: utils.go, scaffoldVM, resetIncompleteVMDir.                        *)
LEMMA ScaffoldType == ASSUME TypeInv, NEW p \in Proc, Scaffold(p) PROVE TypeInv'
<1>1. DataOK'
  BY DEF Scaffold, TypeInv, DataOK, ControlOK
<1>2. ControlOK'
  BY ReturnType, GotoType DEF Scaffold, TypeInv, ControlOK, WithRecord, PC
<1>3. QED  BY <1>1, <1>2 DEF TypeInv

(* Types: utils.go, scaffoldVM.                                              *)
LEMMA BakeType == ASSUME TypeInv, NEW p \in Proc, Bake(p) PROVE TypeInv'
<1>1. DataOK'
  BY DEF Bake, host, TypeInv, DataOK, ControlOK
<1>2. ControlOK'
  BY ReturnType, GotoType DEF Bake, TypeInv, ControlOK, WithRecord, PC
<1>3. QED  BY <1>1, <1>2 DEF TypeInv

(* Types: lifecycle.go, create.                                              *)
LEMMA ProvisionType == ASSUME TypeInv, NEW p \in Proc, Provision(p) PROVE TypeInv'
<1>1. DataOK'
  BY DEF Provision, disk, TypeInv, DataOK, ControlOK
<1>2. ControlOK'
  <2>1. CASE net' = "absent" /\ Goto(p, "reap") /\ Keep
    BY <2>1, GotoType DEF Provision, TypeInv, WithRecord, PC
  <2>2. ASSUME NEW m \in Mode, NEW vnc \in BOOLEAN, NEW pw \in BOOLEAN,
               r' = [r EXCEPT ![p] = [pid |-> None, vnc |-> vnc, passSet |-> FALSE, mode |-> m]],
               pass' = [pass EXCEPT ![p] = pw],
               Goto(p, "commit"), UNCHANGED <<op, was, bad, child>>
        PROVE  ControlOK'
    <3>1. [pid |-> None, vnc |-> vnc, passSet |-> FALSE, mode |-> m] \in Record
      BY DEF Record
    <3>2. pass' \in [Proc -> BOOLEAN]  BY <2>2 DEF TypeInv, ControlOK
    <3>3. "commit" \in PC  BY DEF PC
    <3>4. QED  BY <2>2, <3>1, <3>2, <3>3, RecordType DEF TypeInv, ControlOK
  <2>3. QED  BY <2>1, <2>2 DEF Provision
<1>3. QED  BY <1>1, <1>2 DEF TypeInv

(* Types: lifecycle.go, createVM.                                            *)
LEMMA CommitType == ASSUME TypeInv, NEW p \in Proc, Commit(p) PROVE TypeInv'
<1>1. DataOK'
  BY DEF Commit, host, WithRecord, PC, TypeInv, DataOK, ControlOK
<1>2. ControlOK'
  BY ReturnType, GotoType DEF Commit, TypeInv, ControlOK, WithRecord, PC
<1>3. QED  BY <1>1, <1>2 DEF TypeInv

(* Types: lifecycle.go, launch.                                              *)
LEMMA LaunchType == ASSUME TypeInv, NEW p \in Proc, Launch(p) PROVE TypeInv'
<1>1. DataOK'
  BY DEF Launch, disk, TypeInv, DataOK, ControlOK
<1>2. ControlOK'
  BY GotoType, LaunchFailsType DEF Launch, TypeInv, ControlOK, WithRecord, PC
<1>3. QED  BY <1>1, <1>2 DEF TypeInv

(* Types: lifecycle.go, launch.                                              *)
LEMMA UnproxyType == ASSUME TypeInv, NEW p \in Proc, Unproxy(p) PROVE TypeInv'
<1>1. DataOK'
  BY DEF Unproxy, proxyAfterStop, disk, TypeInv, DataOK, ControlOK
<1>2. ControlOK'
  BY GotoType DEF Unproxy, TypeInv, ControlOK, WithRecord, PC
<1>3. QED  BY <1>1, <1>2 DEF TypeInv

(* Types: lifecycle.go, launch.                                              *)
LEMMA PresaveType == ASSUME TypeInv, NEW p \in Proc, Presave(p) PROVE TypeInv'
<1>1. DataOK'
  BY DEF Presave, host, Record, WithRecord, PC, TypeInv, DataOK, ControlOK
<1>2. ControlOK'
  <2> DEFINE gated == [r[p] EXCEPT !.passSet = pass[p]]
  <2>1. CASE /\ r' = [r EXCEPT ![p] = gated]
             /\ Goto(p, "exec")
             /\ UNCHANGED <<op, pass, was, bad, child>>
    <3>1. gated \in Record  BY DEF Presave, Record, TypeInv, ControlOK, WithRecord, PC
    <3>2. "exec" \in PC  BY DEF PC
    <3>3. QED  BY <2>1, <3>1, <3>2, RecordType DEF TypeInv, ControlOK
  <2>2. CASE LaunchFails(p)
    BY <2>2, LaunchFailsType DEF Presave, TypeInv, WithRecord, PC
  <2>3. QED  BY <2>1, <2>2 DEF Presave
<1>3. QED  BY <1>1, <1>2 DEF TypeInv

(* Types: lifecycle.go, launch.                                              *)
LEMMA RunFailedType == ASSUME TypeInv, NEW p \in Proc, RunFailed(p) PROVE TypeInv'
<1>1. DataOK'
  BY DEF RunFailed, disk, host, TypeInv, DataOK, ControlOK
<1>2. ControlOK'
  BY LaunchFailsType DEF RunFailed, TypeInv, ControlOK, WithRecord, PC
<1>3. QED  BY <1>1, <1>2 DEF TypeInv

(* Types: lifecycle.go, launch.                                              *)
LEMMA ReadPidType == ASSUME TypeInv, NEW p \in Proc, ReadPid(p) PROVE TypeInv'
<1>1. DataOK'
  BY DEF ReadPid, disk, host, TypeInv, DataOK, ControlOK
<1>2. ControlOK'
  <2> DEFINE started == [r[p] EXCEPT !.pid = child[p]]
  <2>1. ASSUME NEW l \in {"setpass", "proxy", "postsave"},
               child[p] \in Live,
               r' = [r EXCEPT ![p].pid = child[p]],
               Goto(p, l),
               UNCHANGED <<op, pass, was, bad, child>>
        PROVE  ControlOK'
    <3>1. started \in Record  BY <2>1 DEF ReadPid, Record, Live, TypeInv, ControlOK, WithRecord, PC
    <3>2. r' = [r EXCEPT ![p] = started]  BY <2>1 DEF TypeInv, ControlOK
    <3>3. l \in PC  BY DEF PC
    <3>4. QED  BY <2>1, <3>1, <3>2, <3>3, RecordType DEF TypeInv, ControlOK
  <2>2. CASE LaunchFails(p)
    BY <2>2, LaunchFailsType DEF ReadPid, TypeInv, WithRecord, PC
  <2>3. QED  BY <2>1, <2>2 DEF ReadPid
<1>3. QED  BY <1>1, <1>2 DEF TypeInv

(* Types: vnc.go, startVNCProxy.                                             *)
LEMMA ProxyType == ASSUME TypeInv, NEW p \in Proc, Proxy(p) PROVE TypeInv'
<1>1. DataOK'
  BY DEF Proxy, proxyAfterStop, disk, TypeInv, DataOK, ControlOK
<1>2. ControlOK'
  BY GotoType, ProxyFailsType DEF Proxy, TypeInv, ControlOK, WithRecord, PC
<1>3. QED  BY <1>1, <1>2 DEF TypeInv

(* Types: vnc.go, startVNCProxy.                                             *)
LEMMA ProxyPidType == ASSUME TypeInv, NEW p \in Proc, ProxyPid(p) PROVE TypeInv'
<1>1. DataOK'
  BY DEF ProxyPid, disk, TypeInv, DataOK, ControlOK
<1>2. ControlOK'
  BY GotoType, ProxyFailsType DEF ProxyPid, TypeInv, ControlOK, WithRecord, PC
<1>3. QED  BY <1>1, <1>2 DEF TypeInv

(* Types: lifecycle.go, launch.                                              *)
LEMMA AbortType == ASSUME TypeInv, NEW p \in Proc, Abort(p) PROVE TypeInv'
<1>1. DataOK'
  BY KilledType DEF Abort, disk, TypeInv, DataOK, ControlOK
<1>2. ControlOK'
  BY LaunchFailsType DEF Abort, TypeInv, ControlOK, WithRecord, PC
<1>3. QED  BY <1>1, <1>2 DEF TypeInv

(* Types: lifecycle.go, launch.                                              *)
LEMMA PostsaveType == ASSUME TypeInv, NEW p \in Proc, Postsave(p) PROVE TypeInv'
<1>1. DataOK'
  BY DEF Postsave, host, WithRecord, PC, TypeInv, DataOK, ControlOK
<1>2. ControlOK'
  BY ReturnType, GotoType, LaunchFailsType DEF Postsave, TypeInv, ControlOK, WithRecord, PC
<1>3. QED  BY <1>1, <1>2 DEF TypeInv

(* Types: net_linux.go, toggleNet.                                           *)
LEMMA UnquiesceType == ASSUME TypeInv, NEW p \in Proc, Unquiesce(p) PROVE TypeInv'
<1>1. DataOK'
  BY DEF Unquiesce, disk, TypeInv, DataOK, ControlOK
<1>2. ControlOK'
  BY ReturnType DEF Unquiesce, TypeInv, ControlOK, WithRecord, PC
<1>3. QED  BY <1>1, <1>2 DEF TypeInv

(* Types: utils.go, terminate, stopInstance.                                 *)
LEMMA KillType == ASSUME TypeInv, NEW p \in Proc, Kill(p) PROVE TypeInv'
<1>1. DataOK'
  BY KilledType DEF Kill, disk, TypeInv, DataOK, ControlOK
<1>2. ControlOK'
  BY DEF Kill, Goto, TypeInv, ControlOK, WithRecord, PC
<1>3. QED  BY <1>1, <1>2 DEF TypeInv

(* Types: utils.go, stopInstance.                                            *)
LEMMA KillProxyType == ASSUME TypeInv, NEW p \in Proc, KillProxy(p) PROVE TypeInv'
<1>1. DataOK'
  BY DEF KillProxy, proxyAfterStop, disk, TypeInv, DataOK, ControlOK
<1>2. ControlOK'
  BY ReturnType, GotoType DEF KillProxy, TypeInv, ControlOK, WithRecord, PC
<1>3. QED  BY <1>1, <1>2 DEF TypeInv

(* Types: net_linux.go, toggleNet.                                           *)
LEMMA QuiesceType == ASSUME TypeInv, NEW p \in Proc, Quiesce(p) PROVE TypeInv'
<1>1. DataOK'
  BY DEF Quiesce, disk, TypeInv, DataOK, ControlOK
<1>2. ControlOK'
  BY GotoType DEF Quiesce, TypeInv, ControlOK, WithRecord, PC
<1>3. QED  BY <1>1, <1>2 DEF TypeInv

(* Types: lifecycle.go, Stop.                                                *)
LEMMA StopSaveType == ASSUME TypeInv, NEW p \in Proc, StopSave(p) PROVE TypeInv'
<1>1. DataOK'
  BY ZenonT(60) DEF StopSave, host, Record, WithRecord, PC, TypeInv, DataOK, ControlOK
<1>2. ControlOK'
  <2> DEFINE stopped == IF op[p] = "stop"
                     THEN [r[p] EXCEPT !.pid = None, !.vnc = FALSE, !.passSet = FALSE]
                     ELSE [r[p] EXCEPT !.pid = None]
  <2>1. CASE /\ r' = [r EXCEPT ![p] = stopped]
             /\ Goto(p, "image")
             /\ UNCHANGED <<op, pass, was, bad, child>>
    <3>1. stopped \in Record  BY DEF StopSave, Record, TypeInv, ControlOK, WithRecord, PC
    <3>2. "image" \in PC  BY DEF PC
    <3>3. QED  BY <2>1, <3>1, <3>2, RecordType DEF TypeInv, ControlOK
  <2>2. CASE Return(p, "ok") \/ Return(p, "err")
    BY <2>2, ReturnType DEF TypeInv
  <2>3. QED  BY <2>1, <2>2 DEF StopSave
<1>3. QED  BY <1>1, <1>2 DEF TypeInv

(* Types: snapshot.go, Restore.                                              *)
LEMMA ImageType == ASSUME TypeInv, NEW p \in Proc, Image(p) PROVE TypeInv'
<1>1. DataOK'
  BY DEF Image, disk, host, TypeInv, DataOK, ControlOK
<1>2. ControlOK'
  BY ReturnType, GotoType DEF Image, TypeInv, ControlOK, WithRecord, PC
<1>3. QED  BY <1>1, <1>2 DEF TypeInv

(* Types: snapshot.go, Snapshot.                                             *)
LEMMA ImgSaveType == ASSUME TypeInv, NEW p \in Proc, ImgSave(p) PROVE TypeInv'
<1>1. DataOK'
  BY DEF ImgSave, host, WithRecord, PC, TypeInv, DataOK, ControlOK
<1>2. ControlOK'
  BY ReturnType DEF ImgSave, TypeInv, ControlOK, WithRecord, PC
<1>3. QED  BY <1>1, <1>2 DEF TypeInv

(* Types: net_linux.go, teardownNet.                                         *)
LEMMA TeardownType == ASSUME TypeInv, NEW p \in Proc, Teardown(p) PROVE TypeInv'
<1>1. DataOK'
  BY DEF Teardown, disk, TypeInv, DataOK, ControlOK
<1>2. ControlOK'
  BY ReturnType, GotoType DEF Teardown, TypeInv, ControlOK, WithRecord, PC
<1>3. QED  BY <1>1, <1>2 DEF TypeInv

(* Types: lifecycle.go, reapStrayHelpers.                                    *)
LEMMA ReapType == ASSUME TypeInv, NEW p \in Proc, Reap(p) PROVE TypeInv'
<1>1. DataOK'
  BY KilledType DEF Reap, disk, TypeInv, DataOK, ControlOK
<1>2. ControlOK'
  BY ReturnType, GotoType DEF Reap, TypeInv, ControlOK, WithRecord, PC
<1>3. QED  BY <1>1, <1>2 DEF TypeInv

(* Types: lifecycle.go, cleanupFailedVM.                                     *)
LEMMA RemoveType == ASSUME TypeInv, NEW p \in Proc, Remove(p) PROVE TypeInv'
<1>1. DataOK'
  <2>1. \A q \in Pid : [vmm[q] EXCEPT !.orphan = TRUE] \in VMM  BY DEF VMM, TypeInv, DataOK
  <2>2. vmm' \in [Pid -> VMM]  BY <2>1 DEF Remove, TypeInv, DataOK
  <2>3. QED  BY <2>2 DEF Remove, TypeInv, DataOK
<1>2. ControlOK'
  BY ReturnType DEF Remove, TypeInv, ControlOK, WithRecord, PC
<1>3. QED  BY <1>1, <1>2 DEF TypeInv

(* Types: the CLI that is killed.                                            *)
LEMMA CrashType == ASSUME TypeInv, NEW p \in Proc, Crash(p) PROVE TypeInv'
<1>1. DataOK'
  BY DEF Crash, disk, host, TypeInv, DataOK, ControlOK
<1>2. ControlOK'
  BY ReturnType DEF Crash, TypeInv, ControlOK, WithRecord, PC
<1>3. QED  BY <1>1, <1>2 DEF TypeInv

(* Types: lifecycle.go, launch.                                              *)
LEMMA ExecType == ASSUME TypeInv, NEW p \in Proc, Exec(p) PROVE TypeInv'
<1>1. DataOK'
  <2>1. ASSUME NEW f \in Free, NEW front,
               front = [phase |-> "front", front |-> None, orphan |-> FALSE,
                        disp |-> IF ~r[p].vnc THEN "off" ELSE IF pass[p] THEN "locked" ELSE "open"],
               \/ vmm' = [vmm EXCEPT ![f] = front]
               \/ \E d \in Free \ {f} : vmm' = [vmm EXCEPT ![f] = front, ![d] = DaemonOf(front, f)]
        PROVE  vmm' \in [Pid -> VMM]
    <3>1. front \in VMM /\ DaemonOf(front, f) \in VMM
      BY <2>1 DEF VMM, Display, DaemonOf, Free, TypeInv, DataOK
    <3>2. QED  BY <2>1, <3>1 DEF Free, TypeInv, DataOK
  <2>2. vmm' \in [Pid -> VMM]  BY <2>1 DEF Exec, TypeInv, DataOK
  <2>3. QED  BY <2>2 DEF Exec, disk, TypeInv, DataOK
<1>2. ControlOK'
  <2>1. CASE /\ \E f \in Free : child' = [child EXCEPT ![p] = f]
             /\ Goto(p, "wait")
             /\ UNCHANGED <<op, r, pass, was, bad>>
    BY <2>1 DEF Exec, Goto, Free, TypeInv, ControlOK, WithRecord, PC
  <2>2. CASE LaunchFails(p)
    BY <2>2, LaunchFailsType DEF Exec, TypeInv, WithRecord, PC
  <2>3. QED  BY <2>1, <2>2 DEF Exec
<1>3. QED  BY <1>1, <1>2 DEF TypeInv

(* Types: utils.go, setVNCPassword, hmpCommand, hmpReplied.                  *)
LEMMA SetPassType == ASSUME TypeInv, NEW p \in Proc, SetPass(p) PROVE TypeInv'
<1>1. DataOK'
  <2>1. CASE r[p].pid \in Guests /\ vmm' = [vmm EXCEPT ![r[p].pid].disp = "set"]
    <3>1. r[p].pid \in Pid /\ vmm[r[p].pid] \in VMM  BY <2>1 DEF Guests, TypeInv, DataOK
    <3>2. [vmm[r[p].pid] EXCEPT !.disp = "set"] \in VMM  BY <3>1 DEF VMM, Display
    <3>3. vmm' \in [Pid -> VMM]  BY <2>1, <3>1, <3>2 DEF TypeInv, DataOK
    <3>4. QED  BY <3>3 DEF SetPass, disk, TypeInv, DataOK
  <2>2. CASE vmm' = vmm
    BY <2>2 DEF SetPass, disk, TypeInv, DataOK
  <2>3. QED  BY <2>1, <2>2 DEF SetPass
<1>2. ControlOK'
  BY GotoType DEF SetPass, TypeInv, ControlOK, WithRecord, PC
<1>3. QED  BY <1>1, <1>2 DEF TypeInv

(* Dispatch works on rc and keeps what it does not know.                     *)
LEMMA DispatchType ==
    ASSUME ControlOK, NEW p \in Proc, pc[p] = "load", NEW rc \in Record, NEW running,
           Dispatch(p, rc, running)
    PROVE  ControlOK'
<1> DEFINE Onward(l, x) ==
        /\ l \in PC
        /\ x \in Record
        /\ Goto(p, l) /\ r' = [r EXCEPT ![p] = x]
        /\ op' = op /\ child' = child
        /\ pass' \in [Proc -> BOOLEAN]
        /\ was' \in [Proc -> {"stopped", "running", "gated"}]
        /\ bad' \in [Proc -> BOOLEAN]
<1>1. ASSUME NEW l, NEW x, Onward(l, x) PROVE ControlOK'
  BY <1>1, RecordType
<1>2. CASE Return(p, "err")
  BY <1>2, ReturnType
<1>3. CASE \E l \in {"proxy", "unquiesce"} :
             /\ Goto(p, l)
             /\ r' = [r EXCEPT ![p] = rc]
             /\ was' = [was EXCEPT ![p] = "running"]
             /\ UNCHANGED <<op, pass, bad, child>>
  <2>1. was' \in [Proc -> {"stopped", "running", "gated"}]  BY <1>3 DEF ControlOK
  <2>2. PICK l \in {"proxy", "unquiesce"} : Goto(p, l)  BY <1>3
  <2>3. l \in PC  BY DEF PC
  <2>4. Onward(l, rc)  BY <1>3, <2>1, <2>2, <2>3 DEF ControlOK
  <2>5. QED  BY <1>1, <2>4
<1>4. CASE /\ \E vnc, pw \in BOOLEAN :
                /\ r' = [r EXCEPT ![p] = [rc EXCEPT !.vnc = vnc]]
                /\ pass' = [pass EXCEPT ![p] = pw]
           /\ Goto(p, "launch")
           /\ UNCHANGED <<op, was, bad, child>>
  <2>1. PICK vnc \in BOOLEAN, pw \in BOOLEAN :
            /\ r' = [r EXCEPT ![p] = [rc EXCEPT !.vnc = vnc]]
            /\ pass' = [pass EXCEPT ![p] = pw]
    BY <1>4
  <2>2. [rc EXCEPT !.vnc = vnc] \in Record  BY DEF Record
  <2>3. pass' \in [Proc -> BOOLEAN]  BY <2>1 DEF ControlOK
  <2>4. "launch" \in PC  BY DEF PC
  <2>5. QED  BY <1>1, <1>4, <2>1, <2>2, <2>3, <2>4 DEF ControlOK
<1>5. CASE \E l \in {"kill", "image"} :
             /\ r' = [r EXCEPT ![p] = rc]
             /\ Goto(p, l)
             /\ UNCHANGED <<op, pass, was, bad, child>>
  BY <1>1, <1>5 DEF ControlOK, PC
<1>6. CASE /\ \E pw \in BOOLEAN : pass' = [pass EXCEPT ![p] = pw]
           /\ r' = [r EXCEPT ![p] = rc]
           /\ \E w \in {"gated", "running"} : was' = [was EXCEPT ![p] = w]
           /\ Goto(p, "kill")
           /\ UNCHANGED <<op, bad, child>>
  <2>1. was' \in [Proc -> {"stopped", "running", "gated"}]  BY <1>6 DEF ControlOK
  <2>2. pass' \in [Proc -> BOOLEAN]  BY <1>6 DEF ControlOK
  <2>3. QED  BY <1>1, <1>6, <2>1, <2>2 DEF ControlOK, PC
<1>7. QED
  BY <1>2, <1>3, <1>4, <1>5, <1>6 DEF Dispatch

(* Types: utils.go, reconcileRunningQEMU.                                    *)
LEMMA LoadType == ASSUME TypeInv, NEW p \in Proc, Load(p) PROVE TypeInv'
<1>1. CASE /\ UNCHANGED rec
           /\ \/ Goto(p, "reap") /\ Keep
              \/ \E result \in {"ok", "err"} : Return(p, result)
  <2>1. ControlOK'  BY <1>1, ReturnType, GotoType DEF TypeInv, WithRecord, PC
  <2>2. QED  BY <1>1, <2>1 DEF Load, host, TypeInv, DataOK
<1>2. ASSUME NEW running, rec # None, UNCHANGED rec, Dispatch(p, rec, running)
      PROVE  TypeInv'
  <2>1. ControlOK'  BY <1>2, DispatchType DEF Load, TypeInv, DataOK
  <2>2. QED  BY <1>2, <2>1 DEF Load, host, TypeInv, DataOK
<1>3. ASSUME rec # None,
             NEW q \in Pid,
             rec' = [rec EXCEPT !.pid = q], Dispatch(p, [rec EXCEPT !.pid = q], TRUE)
      PROVE  TypeInv'
  <2>1. [rec EXCEPT !.pid = q] \in Record  BY <1>3 DEF Record, TypeInv, DataOK
  <2>2. ControlOK'  BY <1>3, <2>1, DispatchType DEF Load, TypeInv
  <2>3. QED  BY <1>3, <2>1, <2>2 DEF Load, host, TypeInv, DataOK
<1>4. QED  BY <1>1, <1>2, <1>3 DEF Load

(* No step of an operation breaks a type.                                    *)
LEMMA StepType == ASSUME TypeInv, NEW p \in Proc, Step(p) PROVE TypeInv'
  BY LoadType, ScaffoldType, BakeType, ProvisionType, CommitType,
     LaunchType, UnproxyType, PresaveType, ExecType, RunFailedType, ReadPidType,
     SetPassType, ProxyType, ProxyPidType, AbortType, PostsaveType, UnquiesceType,
     KillType, KillProxyType, QuiesceType, StopSaveType, ImageType, ImgSaveType,
     TeardownType, ReapType, RemoveType
     DEF Step

-----------------------------------------------------------------------------
(* The environment *)

(* c.Run returning, with the pid of a daemon or without one.                 *)
LEMMA WakeType ==
    ASSUME ControlOK, NEW f, NEW d \in Pid \cup {None}, NEW l \in {"readpid", "runfailed"},
           Wake(f, [p \in Proc |-> l], d), UNCHANGED <<lock, op, r, pass, was, bad, out>>
    PROVE  ControlOK'
  BY DEF ControlOK, Wake, WithRecord, PC

(* Types: the fork of `qemu -daemonize`.                                     *)
LEMMA QemuForkType == ASSUME TypeInv, NEW f \in Pid, QemuFork(f) PROVE TypeInv'
<1>1. PICK d \in Free : vmm' = [vmm EXCEPT ![d] = DaemonOf(vmm[f], f)]
  BY DEF QemuFork
<1>2. DaemonOf(vmm[f], f) \in VMM  BY DEF DaemonOf, VMM, TypeInv, DataOK
<1>3. vmm' \in [Pid -> VMM]  BY <1>1, <1>2 DEF Free, TypeInv, DataOK
<1>4. QED  BY <1>3 DEF QemuFork, disk, locals, TypeInv, DataOK, ControlOK

(* Types: the guest that comes up.                                           *)
LEMMA QemuReadyType == ASSUME TypeInv, NEW d \in Pid, QemuReady(d) PROVE TypeInv'
<1> DEFINE up == [vmm[d] EXCEPT !.phase = "up", !.front = None]
<1>1. up \in VMM /\ Dead \in VMM  BY DEF VMM, Dead, Display, TypeInv, DataOK
<1>2. vmm' \in [Pid -> VMM]  BY <1>1 DEF QemuReady, VMM, Dead, Display, TypeInv, DataOK
<1>3. ControlOK'  BY WakeType DEF QemuReady, TypeInv
<1>4. QED  BY <1>2, <1>3 DEF QemuReady, disk, TypeInv, DataOK

(* Types: the boot that fails.                                               *)
LEMMA QemuFailType == ASSUME TypeInv, NEW f \in Pid, QemuFail(f) PROVE TypeInv'
<1>1. vmm' \in [Pid -> VMM]  BY DEF QemuFail, VMM, Dead, Display, TypeInv, DataOK
<1>2. ControlOK'  BY WakeType DEF QemuFail, TypeInv
<1>3. QED  BY <1>1, <1>2 DEF QemuFail, disk, TypeInv, DataOK

(* Types: the guest that goes.                                               *)
LEMMA QemuExitType == ASSUME TypeInv, NEW d \in Pid, QemuExit(d) PROVE TypeInv'
  BY DEF QemuExit, VMM, Dead, Display, disk, locals, TypeInv, DataOK, ControlOK

(* Types: a reboot of the host.                                              *)
LEMMA RebootType == ASSUME TypeInv, Reboot PROVE TypeInv'
<1>1. vmm' \in [Pid -> VMM]  BY DEF Reboot, VMM, Dead, Display
<1>2. ControlOK'  BY DEF Reboot, ControlOK, WithRecord, PC
<1>3. QED  BY <1>1, <1>2 DEF Reboot, disk, TypeInv, DataOK

(* Types: the VNC proxy that dies.                                           *)
LEMMA ProxyExitType == ASSUME TypeInv, ProxyExit PROVE TypeInv'
  BY DEF ProxyExit, disk, locals, TypeInv, DataOK, ControlOK

(* The initial state is well-typed.                                          *)
LEMMA TypeInit == Init => TypeInv
<1> SUFFICES ASSUME Init PROVE TypeInv  OBVIOUS
<1>1. vmm \in [Pid -> VMM]  BY DEF Init, VMM, Dead, Display
<1>2. ControlOK  BY DEF Init, ControlOK, WithRecord, PC
<1>3. QED  BY <1>1, <1>2 DEF Init, TypeInv, DataOK

(* No step of the system breaks a type.                                      *)
LEMMA TypeNext == TypeInv /\ [Next]_vars => TypeInv'
<1> SUFFICES ASSUME TypeInv, [Next]_vars PROVE TypeInv'  OBVIOUS
<1>1. CASE \E p \in Proc : Acquire(p) \/ Step(p) \/ Crash(p)
  BY <1>1, AcquireType, StepType, CrashType
<1>2. CASE \E q \in Pid : Boot(q) \/ QemuExit(q)
  BY <1>2, QemuForkType, QemuReadyType, QemuFailType, QemuExitType DEF Boot
<1>3. CASE Reboot \/ ProxyExit
  BY <1>3, RebootType, ProxyExitType
<1>4. CASE UNCHANGED vars
  BY <1>4 DEF vars, disk, host, locals, TypeInv, DataOK, ControlOK
<1>5. QED  BY <1>1, <1>2, <1>3, <1>4 DEF Next

(* Every variable keeps its type, and every step that dereferences the local *)
(* record of utils.go's loadRec has one.                                     *)
THEOREM TypeCorrect == Spec => []TypeInv
  BY TypeInit, TypeNext, PTL DEF Spec

(* The type invariant the runs check.                                        *)
THEOREM TypeSafety == Spec => []TypeOK
  BY TypeCorrect, TypeInvType, PTL

-----------------------------------------------------------------------------
(* The display gate.  A step is judged by what it does to the VM (Homed and  *)
(* GatedProcesses) and by the obligations of the place its process goes to.  *)

Control(p) ==
    /\ pc[p] \in Making => rec = None /\ Owned = {}
    /\ pc[p] \in {"provision", "commit"} => dir
    /\ pc[p] \in Making \cup {"scaffold"} => op[p] \in {"create", "run"}
    /\ OnRecord(p) => rec # None /\ rec.mode = r[p].mode
    /\ pc[p] \in Launching /\ hasNetns(r[p].mode) /\ r[p].vnc => pass[p]

(* When only p works on the VM, its obligations and those of the VM are all. *)
LEMMA ControlGate ==
    ASSUME TypeInv', Mutex', Homed', GatedProcesses', NEW p \in Proc, Control(p)',
           \A x \in Proc \ {p} : pc'[x] = "idle"
    PROVE  GateInv'
  BY DEF GateInv, FreshDir, SameMode, Gated, Control, Making, Launching, OnRecord, WithRecord

(* The invariant gives the obligations of the place any process is at.       *)
LEMMA GateControl ==
    ASSUME GateInv, NEW p \in Proc
    PROVE  Control(p)
  BY DEF GateInv, FreshDir, SameMode, Gated, Control

(* withVMLock: a process inside an operation is alone there.                 *)
LEMMA Alone ==
    ASSUME Mutex, NEW p \in Proc, pc[p] # "idle"
    PROVE  lock = p /\ \A x \in Proc \ {p} : pc[x] = "idle"
  BY DEF Mutex

(* A process that goes on has to meet the obligations of where it goes.      *)
LEMMA GotoGate ==
    ASSUME GateInv, TypeInv', Homed', GatedProcesses',
           NEW p \in Proc, NEW l, pc[p] # "idle", Goto(p, l), Control(p)'
    PROVE  GateInv'
<1>1. lock' = p /\ \A x \in Proc \ {p} : pc'[x] = "idle"
  BY Alone DEF GateInv, Goto, TypeInv, ControlOK
<1>2. Mutex'  BY <1>1 DEF Mutex
<1>3. QED  BY <1>1, <1>2, ControlGate

(* A process that returns leaves no obligation of its own.                   *)
LEMMA ReturnGate ==
    ASSUME GateInv, TypeInv', Homed', GatedProcesses',
           NEW p \in Proc, NEW result, pc[p] # "idle", Return(p, result)
    PROVE  GateInv'
<1>1. \A x \in Proc : pc'[x] = "idle"
  BY Alone DEF GateInv, Return, TypeInv, ControlOK
<1>2. QED
  BY <1>1 DEF GateInv, Mutex, FreshDir, SameMode, Gated, Making, Launching, OnRecord, WithRecord

(* run goes on to its cleanup, start and restore return.                     *)
LEMMA LaunchFailsGate ==
    ASSUME GateInv, TypeInv', Homed', GatedProcesses',
           NEW p \in Proc, pc[p] # "idle", LaunchFails(p)
    PROVE  GateInv'
<1>1. CASE Goto(p, "kill") /\ Keep /\ op[p] = "run"
  <2>1. Control(p)'
    BY <1>1 DEF Control, Goto, Keep, locals, Making, Launching, OnRecord, WithRecord,
                GateInv, TypeInv, ControlOK
  <2>2. QED  BY <1>1, <2>1, GotoGate
<1>2. CASE Return(p, "err")
  BY <1>2, ReturnGate
<1>3. QED  BY <1>1, <1>2 DEF LaunchFails

(* A launch goes on to terminate its QEMU, a repair returns.                 *)
LEMMA ProxyFailsGate ==
    ASSUME GateInv, TypeInv', Homed', GatedProcesses', UNCHANGED rec,
           NEW p \in Proc, pc[p] \in {"proxy", "proxypid"}, ProxyFails(p)
    PROVE  GateInv'
<1>1. CASE Goto(p, "abort") /\ Keep
  <2>1. Control(p)'
    BY <1>1, GateControl DEF Control, Goto, Keep, locals, Making, Launching, OnRecord, WithRecord, PC,
                GateInv, TypeInv, ControlOK
  <2>2. QED  BY <1>1, <2>1, GotoGate
<1>2. CASE Return(p, "err")
  BY <1>2, ReturnGate
<1>3. QED  BY <1>1, <1>2 DEF ProxyFails

(* A step that makes no QEMU, opens no display and keeps the network mode.   *)
Shrinks ==
    /\ Owned' \subseteq Owned
    /\ \A q \in Owned' : vmm'[q].disp = "open" => vmm[q].disp = "open"

Quiet ==
    /\ dir' = dir
    /\ rec' = None \/ (rec # None /\ rec'.mode = rec.mode)
    /\ Shrinks

(* A quiet step keeps what is said of the VM.                                *)
LEMMA QuietGate ==
    ASSUME GateInv, Quiet
    PROVE  Homed' /\ GatedProcesses'
  BY DEF GateInv, Quiet, Shrinks, Homed, GatedProcesses, hasNetns

(* The process table may stay as it is.                                      *)
LEMMA UnchangedShrinks == UNCHANGED vmm => Shrinks
  BY DEF Shrinks, Owned, Live

(* Killing processes makes no QEMU and opens no display.                     *)
LEMMA KilledShrinks ==
    ASSUME TypeInv, NEW S, vmm' = Killed(S)
    PROVE  Shrinks
  BY DEF Shrinks, Owned, Live, Killed, Dead, TypeInv, DataOK, VMM


(* A step that works on the record and goes on with the same network mode.   *)
LEMMA OnwardGate ==
    ASSUME GateInv, TypeInv', Quiet, NEW p \in Proc, NEW l, OnRecord(p), Goto(p, l),
           l \notin Making \cup {"scaffold"}, r'[p].mode = r[p].mode, rec' # None,
           l \in Launching /\ hasNetns(r'[p].mode) /\ r'[p].vnc => pass'[p]
    PROVE  GateInv'
<1>1. Homed' /\ GatedProcesses'  BY QuietGate
<1>2. pc[p] # "idle"  BY DEF OnRecord, WithRecord
<1>3. pc'[p] = l  BY DEF Goto, GateInv, TypeInv, ControlOK
<1>4. rec'.mode = r'[p].mode  BY GateControl DEF Control, Quiet
<1>5. Control(p)'  BY <1>3, <1>4 DEF Control, Making
<1>6. QED  BY <1>1, <1>2, <1>5, GotoGate

(* A step that keeps the record and the locals, and starts no launch.        *)
LEMMA KeepGate ==
    ASSUME GateInv, TypeInv', Shrinks, UNCHANGED <<dir, rec>>,
           NEW p \in Proc, NEW l, OnRecord(p), Goto(p, l), Keep,
           l \notin Making \cup {"scaffold"}, l \in Launching => pc[p] \in Launching
    PROVE  GateInv'
  BY OnwardGate, GateControl DEF Control, Keep, locals, Quiet, OnRecord

(* A quiet step that ends the operation or fails the launch.                 *)
LEMMA EndGate ==
    ASSUME GateInv, TypeInv', Quiet, NEW p \in Proc, pc[p] # "idle",
           LaunchFails(p) \/ \E result \in {"ok", "err", "crash"} : Return(p, result)
    PROVE  GateInv'
  BY QuietGate, LaunchFailsGate, ReturnGate

(* A step that leaves the disk alone is quiet if it makes no QEMU.           *)
LEMMA UnchangedQuiet ==
    ASSUME UNCHANGED <<dir, rec>>, Shrinks
    PROVE  Quiet
  BY DEF Quiet

(* The gate: lifecycle.go, launch.                                           *)
LEMMA UnproxyGate == ASSUME GateInv, TypeInv', NEW p \in Proc, Unproxy(p) PROVE GateInv'
<1>1. OnRecord(p)  BY DEF Unproxy, OnRecord, WithRecord, PC
<1>2. Shrinks /\ UNCHANGED <<dir, rec>>  BY UnchangedShrinks DEF Unproxy, disk, host
<1>3. CASE \E l \in {"presave"} : Goto(p, l) /\ Keep
  BY <1>1, <1>2, <1>3, KeepGate DEF Unproxy, Making, Launching
<1>4. QED  BY <1>3 DEF Unproxy

(* The gate: lifecycle.go, launch.                                           *)
LEMMA RunFailedGate == ASSUME GateInv, TypeInv', NEW p \in Proc, RunFailed(p) PROVE GateInv'
<1>1. OnRecord(p)  BY DEF RunFailed, OnRecord, WithRecord, PC
<1>2. Shrinks /\ UNCHANGED <<dir, rec>>  BY UnchangedShrinks DEF RunFailed, disk, host
<1>3. CASE \E l \in {"kill"} : Goto(p, l) /\ Keep
  BY <1>1, <1>2, <1>3, KeepGate DEF RunFailed, Making, Launching
<1>4. CASE LaunchFails(p)
  BY <1>2, <1>4, UnchangedQuiet, EndGate DEF RunFailed
<1>5. QED  BY <1>3, <1>4 DEF RunFailed

(* The gate: net_linux.go, toggleNet.                                        *)
LEMMA QuiesceGate == ASSUME GateInv, TypeInv', NEW p \in Proc, Quiesce(p) PROVE GateInv'
<1>1. OnRecord(p)  BY DEF Quiesce, OnRecord, WithRecord, PC
<1>2. Shrinks /\ UNCHANGED <<dir, rec>>  BY UnchangedShrinks DEF Quiesce, disk, host
<1>3. CASE \E l \in {"stopsave"} : Goto(p, l) /\ Keep
  BY <1>1, <1>2, <1>3, KeepGate DEF Quiesce, Making, Launching
<1>4. QED  BY <1>3 DEF Quiesce

(* The gate: snapshot.go, Restore.                                           *)
LEMMA ImageGate == ASSUME GateInv, TypeInv', NEW p \in Proc, Image(p) PROVE GateInv'
<1>1. OnRecord(p)  BY DEF Image, OnRecord, WithRecord, PC
<1>2. Shrinks /\ UNCHANGED <<dir, rec>>  BY UnchangedShrinks DEF Image, disk, host
<1>3. CASE \E l \in {"launch", "imgsave"} : Goto(p, l) /\ Keep
  BY <1>1, <1>2, <1>3, KeepGate DEF Image, Making, Launching
<1>4. CASE Return(p, "ok") \/ Return(p, "err")
  BY <1>2, <1>4, UnchangedQuiet, EndGate DEF Image
<1>5. QED  BY <1>3, <1>4 DEF Image

(* The gate: utils.go, setVNCPassword, hmpCommand, hmpReplied.               *)
LEMMA SetPassGate == ASSUME GateInv, TypeInv', NEW p \in Proc, SetPass(p) PROVE GateInv'
<1>1. OnRecord(p)  BY DEF SetPass, OnRecord, WithRecord, PC
<1>2. Shrinks /\ UNCHANGED <<dir, rec>>  BY DEF Shrinks, Owned, Live, Guests, GateInv, TypeInv, DataOK, VMM, SetPass, disk, host
<1>3. CASE \E l \in {"proxy", "postsave", "abort"} : Goto(p, l) /\ Keep
  BY <1>1, <1>2, <1>3, KeepGate DEF SetPass, Making, Launching
<1>4. QED  BY <1>3 DEF SetPass

(* The gate: lifecycle.go, launch.                                           *)
LEMMA LaunchGate == ASSUME GateInv, TypeInv', NEW p \in Proc, Launch(p) PROVE GateInv'
<1>1. OnRecord(p)  BY DEF Launch, OnRecord, WithRecord, PC
<1>2. Quiet  BY <1>1, GateControl, UnchangedShrinks, UnchangedQuiet DEF Launch, disk
<1>3. CASE (hasNetns(r[p].mode) /\ r[p].vnc => pass[p]) /\ Goto(p, "unproxy") /\ Keep
  BY <1>1, <1>2, <1>3, OnwardGate, GateControl DEF Control, Launch, disk, Keep, locals, Making
<1>4. CASE LaunchFails(p)
  BY <1>2, <1>4, EndGate DEF Launch
<1>5. QED  BY <1>3, <1>4 DEF Launch

(* The gate: lifecycle.go, launch.                                           *)
LEMMA PresaveGate == ASSUME GateInv, TypeInv', NEW p \in Proc, Presave(p) PROVE GateInv'
<1> DEFINE gated == [r[p] EXCEPT !.passSet = pass[p]]
<1>1. OnRecord(p)  BY DEF Presave, OnRecord, WithRecord, PC
<1>2. gated \in Record /\ gated.mode = r[p].mode /\ gated.vnc = r[p].vnc
  <2>1. r[p] \in Record /\ pass[p] \in BOOLEAN
    BY DEF Presave, GateInv, TypeInv, ControlOK, WithRecord, PC
  <2>2. QED  BY <2>1 DEF Record
<1>3. CASE /\ rec' = gated
           /\ r' = [r EXCEPT ![p] = gated]
           /\ Goto(p, "exec")
           /\ UNCHANGED <<op, pass, was, bad, child>>
  <2>1. r'[p] = gated  BY <1>3 DEF GateInv, TypeInv, ControlOK
  <2>2. Quiet  BY <1>1, <1>2, <1>3, GateControl, UnchangedShrinks DEF Presave, host, Quiet, Control
  <2>3. rec' # None  BY <1>2, <1>3, RecordAssumption
  <2>4. hasNetns(r[p].mode) /\ r[p].vnc => pass[p]
    BY GateControl DEF Presave, Control, Launching
  <2>5. QED
    BY <1>1, <1>2, <1>3, <2>1, <2>2, <2>3, <2>4, OnwardGate DEF Making, hasNetns
<1>4. CASE UNCHANGED rec /\ LaunchFails(p)
  BY <1>4, EndGate, UnchangedShrinks, UnchangedQuiet DEF Presave, host
<1>5. QED  BY <1>3, <1>4 DEF Presave

(* The gate: lifecycle.go, launch.                                           *)
LEMMA ExecGate == ASSUME GateInv, TypeInv', NEW p \in Proc, Exec(p) PROVE GateInv'
<1>1. OnRecord(p) /\ Control(p)  BY GateControl DEF Exec, OnRecord, WithRecord, PC
<1>2. UNCHANGED <<dir, rec>>  BY DEF Exec, disk
<1> DEFINE front == [phase |-> "front", front |-> None, orphan |-> FALSE,
                      disp |-> IF ~r[p].vnc THEN "off" ELSE IF pass[p] THEN "locked" ELSE "open"]
<1>3. ASSUME Goto(p, "wait"), UNCHANGED <<op, r, pass, was, bad>>,
             NEW f \in Free,
             \/ vmm' = [vmm EXCEPT ![f] = front]
             \/ \E d \in Free \ {f} : vmm' = [vmm EXCEPT ![f] = front, ![d] = DaemonOf(front, f)]
      PROVE  GateInv'
  <2>1. rec # None /\ rec.mode = r[p].mode  BY <1>1 DEF Control
  <2>2. dir  BY <2>1 DEF GateInv, Homed
  <2>3. Homed'  BY <1>2, <2>2 DEF Homed
  <2>4. hasNetns(r[p].mode) /\ r[p].vnc => pass[p]  BY <1>1 DEF Exec, Control, Launching
  <2>5. \A q \in Pid : hasNetns(rec.mode) /\ vmm'[q].disp = "open" => vmm'[q] = vmm[q]
    <3>1. hasNetns(rec.mode) => front.disp # "open" /\ DaemonOf(front, f).disp # "open"
      BY <2>1, <2>4 DEF DaemonOf, hasNetns
    <3>2. \A q \in Pid : vmm'[q] \in {vmm[q], front, DaemonOf(front, f)}
      BY <1>3 DEF Free, GateInv, TypeInv, DataOK
    <3>3. QED  BY <3>1, <3>2
  <2>6. GatedProcesses'  BY <1>2, <2>5 DEF GateInv, GatedProcesses, Owned, Live
  <2>7. Control(p)'
    BY <1>2, <1>3, <2>1 DEF Control, Goto, Making, Launching, GateInv, TypeInv, ControlOK
  <2>8. QED  BY <1>3, <2>3, <2>6, <2>7, GotoGate DEF Exec
<1>4. CASE UNCHANGED vmm /\ LaunchFails(p)
  BY <1>2, <1>4, EndGate, UnchangedShrinks, UnchangedQuiet DEF Exec
<1>5. QED  BY <1>3, <1>4 DEF Exec

(* The gate: lifecycle.go, launch.                                           *)
LEMMA ReadPidGate == ASSUME GateInv, TypeInv', NEW p \in Proc, ReadPid(p) PROVE GateInv'
<1>1. OnRecord(p)  BY DEF ReadPid, OnRecord, WithRecord, PC
<1>2. UNCHANGED <<dir, rec>> /\ Quiet  BY UnchangedShrinks, UnchangedQuiet DEF ReadPid, disk, host
<1>3. CASE /\ \E l \in {"setpass", "proxy", "postsave"} : Goto(p, l)
           /\ r' = [r EXCEPT ![p].pid = child[p]]
           /\ UNCHANGED <<op, pass, was, bad, child>>
  <2>1. r'[p].mode = r[p].mode
    BY <1>3 DEF ReadPid, Record, GateInv, TypeInv, ControlOK, WithRecord, PC
  <2>2. rec' # None  BY <1>1, <1>2, GateControl DEF Control
  <2>3. QED  BY <1>1, <1>2, <1>3, <2>1, <2>2, OnwardGate DEF Making, Launching
<1>4. CASE LaunchFails(p)
  BY <1>2, <1>4, EndGate DEF ReadPid
<1>5. QED  BY <1>3, <1>4 DEF ReadPid

(* The gate: vnc.go, startVNCProxy.                                          *)
LEMMA ProxyGate == ASSUME GateInv, TypeInv', NEW p \in Proc, Proxy(p) \/ ProxyPid(p) PROVE GateInv'
<1>1. OnRecord(p)  BY DEF Proxy, ProxyPid, OnRecord, WithRecord, PC
<1>2. Shrinks /\ UNCHANGED <<dir, rec>>  BY UnchangedShrinks DEF Proxy, ProxyPid, disk
<1>3. CASE \E l \in {"proxypid", "unquiesce", "postsave"} : Goto(p, l) /\ Keep
  BY <1>1, <1>2, <1>3, KeepGate DEF Making, Launching
<1>4. CASE ProxyFails(p)
  <2>1. Homed' /\ GatedProcesses'  BY <1>2, UnchangedQuiet, QuietGate
  <2>2. QED  BY <1>2, <1>4, <2>1, ProxyFailsGate DEF Proxy, ProxyPid
<1>5. QED  BY <1>3, <1>4 DEF Proxy, ProxyPid

(* The gate: lifecycle.go, launch.                                           *)
LEMMA AbortGate == ASSUME GateInv, TypeInv', NEW p \in Proc, Abort(p) PROVE GateInv'
<1>1. Shrinks /\ UNCHANGED <<dir, rec>>
  BY KilledShrinks, UnchangedShrinks DEF Abort, disk, GateInv
<1>2. QED  BY <1>1, UnchangedQuiet, EndGate DEF Abort

(* The gate: lifecycle.go, launch.                                           *)
LEMMA PostsaveGate == ASSUME GateInv, TypeInv', NEW p \in Proc, Postsave(p) PROVE GateInv'
<1>1. OnRecord(p) /\ Control(p)  BY GateControl DEF Postsave, OnRecord, WithRecord, PC
<1>2. r[p] \in Record  BY DEF Postsave, GateInv, TypeInv, ControlOK, WithRecord, PC
<1>3. Quiet  BY <1>1, UnchangedShrinks DEF Postsave, host, Quiet, Control
<1>4. CASE rec' = r[p] /\ Goto(p, "unquiesce") /\ Keep
  BY <1>1, <1>2, <1>3, <1>4, RecordAssumption, OnwardGate DEF Keep, locals, Making, Launching
<1>5. CASE LaunchFails(p) \/ Return(p, "ok")
  BY <1>3, <1>5, EndGate DEF Postsave
<1>6. QED  BY <1>4, <1>5 DEF Postsave

(* The gate: net_linux.go, toggleNet.                                        *)
LEMMA UnquiesceGate == ASSUME GateInv, TypeInv', NEW p \in Proc, Unquiesce(p) PROVE GateInv'
  BY UnchangedShrinks, UnchangedQuiet, EndGate DEF Unquiesce, disk

(* The gate: utils.go, terminate, stopInstance.                              *)
LEMMA KillGate == ASSUME GateInv, TypeInv', NEW p \in Proc, Kill(p) PROVE GateInv'
<1>1. Shrinks /\ UNCHANGED <<dir, rec>>
  <2>1. CASE vmm' = vmm  BY <2>1, UnchangedShrinks DEF Kill, disk
  <2>2. CASE \E S : vmm' = Killed(S)  BY <2>2, KilledShrinks DEF Kill, disk, GateInv
  <2>3. QED  BY <2>1, <2>2 DEF Kill
<1>2. Homed' /\ GatedProcesses'  BY <1>1, UnchangedQuiet, QuietGate
<1>3. Control(p)'
  BY <1>1, GateControl
     DEF Kill, Goto, Control, Making, Launching, OnRecord, WithRecord, PC, GateInv, TypeInv, ControlOK
<1>4. QED  BY <1>2, <1>3, GotoGate DEF Kill

(* The gate: utils.go, stopInstance.                                         *)
LEMMA KillProxyGate == ASSUME GateInv, TypeInv', NEW p \in Proc, KillProxy(p) PROVE GateInv'
<1>1. Shrinks /\ UNCHANGED <<dir, rec>>  BY UnchangedShrinks DEF KillProxy, disk
<1>2. Quiet  BY <1>1, UnchangedQuiet
<1>3. CASE Return(p, "err")  BY <1>2, <1>3, EndGate DEF KillProxy
<1>4. CASE op[p] \in {"stop", "restore"} /\ Goto(p, "quiesce") /\ Keep
  <2>1. OnRecord(p)  BY <1>4 DEF KillProxy, OnRecord
  <2>2. QED  BY <1>1, <1>4, <2>1, KeepGate DEF Making, Launching
<1>5. CASE Goto(p, "teardown") /\ Keep
  <2>1. Control(p)'
    BY <1>5 DEF Goto, Control, Making, Launching, OnRecord, WithRecord, GateInv, TypeInv, ControlOK
  <2>2. QED  BY <1>2, <1>5, <2>1, QuietGate, GotoGate DEF KillProxy
<1>6. QED  BY <1>3, <1>4, <1>5 DEF KillProxy

(* The gate: snapshot.go, Snapshot.                                          *)
LEMMA ImgSaveGate == ASSUME GateInv, TypeInv', NEW p \in Proc, ImgSave(p) PROVE GateInv'
<1>1. OnRecord(p) /\ Control(p)  BY GateControl DEF ImgSave, OnRecord, WithRecord, PC
<1>2. Quiet  BY <1>1, UnchangedShrinks DEF ImgSave, host, Quiet, Control
<1>3. QED  BY <1>2, EndGate DEF ImgSave

(* The gate: lifecycle.go, Stop.                                             *)
LEMMA StopSaveGate == ASSUME GateInv, TypeInv', NEW p \in Proc, StopSave(p) PROVE GateInv'
<1> DEFINE stopped == IF op[p] = "stop"
                      THEN [r[p] EXCEPT !.pid = None, !.vnc = FALSE, !.passSet = FALSE]
                      ELSE [r[p] EXCEPT !.pid = None]
<1>1. OnRecord(p) /\ Control(p)  BY GateControl DEF StopSave, OnRecord, WithRecord, PC
<1>2. stopped \in Record /\ stopped.mode = r[p].mode
  <2>1. r[p] \in Record  BY DEF StopSave, GateInv, TypeInv, ControlOK, WithRecord, PC
  <2>2. QED  BY <2>1 DEF Record
<1>3. rec' \in {rec, stopped}  BY DEF StopSave
<1>4. Quiet  BY <1>1, <1>2, <1>3, UnchangedShrinks DEF StopSave, host, Quiet, Control
<1>5. CASE /\ rec' = stopped
           /\ r' = [r EXCEPT ![p] = stopped]
           /\ Goto(p, "image")
  <2>1. r'[p] = stopped  BY <1>5 DEF GateInv, TypeInv, ControlOK
  <2>2. QED
    BY <1>1, <1>2, <1>4, <1>5, <2>1, RecordAssumption, OnwardGate DEF Making, Launching
<1>6. CASE Return(p, "ok") \/ Return(p, "err")
  BY <1>4, <1>6, EndGate DEF StopSave
<1>7. QED  BY <1>5, <1>6 DEF StopSave

(* The steps that no longer work on a record.                                *)
LEMMA LeaveGate ==
    ASSUME GateInv, TypeInv', Quiet, NEW p \in Proc, NEW l \in {"reap", "remove", "kill"}, pc[p] # "idle",
           Goto(p, l), Keep, l = "kill" => op[p] \in {"create", "run"}
    PROVE  GateInv'
<1>1. Control(p)'
  BY DEF Goto, Keep, locals, Control, Making, Launching, OnRecord, WithRecord, GateInv, TypeInv, ControlOK
<1>2. QED  BY <1>1, QuietGate, GotoGate

(* The gate: net_linux.go, teardownNet.                                      *)
LEMMA TeardownGate == ASSUME GateInv, TypeInv', NEW p \in Proc, Teardown(p) PROVE GateInv'
  BY UnchangedShrinks, UnchangedQuiet, EndGate, LeaveGate DEF Teardown, disk

(* The gate: lifecycle.go, reapStrayHelpers.                                 *)
LEMMA ReapGate == ASSUME GateInv, TypeInv', NEW p \in Proc, Reap(p) PROVE GateInv'
<1>1. Quiet  BY KilledShrinks, UnchangedQuiet DEF Reap, disk, GateInv
<1>2. QED  BY <1>1, EndGate, LeaveGate DEF Reap

(* The gate: lifecycle.go, cleanupFailedVM.                                  *)
LEMMA RemoveGate == ASSUME GateInv, TypeInv', NEW p \in Proc, Remove(p) PROVE GateInv'
<1>1. CASE /\ dir' = FALSE /\ rec' = None
           /\ vmm' = [q \in Pid |-> IF q \in Live THEN [vmm[q] EXCEPT !.orphan = TRUE] ELSE vmm[q]]
           /\ \E result \in {"ok", "err"} : Return(p, result)
  <2>1. Owned' = {}  BY <1>1 DEF Owned, Live, GateInv, TypeInv, DataOK, VMM
  <2>2. Homed' /\ GatedProcesses'  BY <1>1, <2>1 DEF Homed, GatedProcesses
  <2>3. QED  BY <1>1, <2>2, ReturnGate DEF Remove
<1>2. CASE rec' \in {rec, None} /\ UNCHANGED <<dir, vmm>> /\ Return(p, "err")
  <2>1. Quiet  BY <1>2, UnchangedShrinks DEF Quiet
  <2>2. QED  BY <1>2, <2>1, EndGate DEF Remove
<1>3. QED  BY <1>1, <1>2 DEF Remove

(* The gate: the CLI that is killed.                                         *)
LEMMA CrashGate == ASSUME GateInv, TypeInv', NEW p \in Proc, Crash(p) PROVE GateInv'
  BY UnchangedShrinks, UnchangedQuiet, EndGate DEF Crash, disk, host

(* Acquire, and create up to its record.                                     *)
LEMMA AcquireGate == ASSUME GateInv, TypeInv', NEW p \in Proc, Acquire(p) PROVE GateInv'
<1>1. Homed' /\ GatedProcesses'
  BY UnchangedShrinks, UnchangedQuiet, QuietGate DEF Acquire, disk, host
<1>2. \A x \in Proc : pc[x] = "idle"  BY NoneAssumption DEF Acquire, GateInv, Mutex
<1>3. \A x \in Proc \ {p} : pc'[x] = "idle"
  BY <1>2 DEF Acquire, GateInv, TypeInv, ControlOK
<1>4. /\ pc'[p] \in {"load", "scaffold"}
      /\ pc'[p] = "scaffold" => op'[p] \in {"create", "run"}
  BY DEF Acquire, GateInv, TypeInv, ControlOK
<1>5. Mutex' /\ Control(p)'
  BY <1>3, <1>4 DEF Acquire, Mutex, Control, Making, Launching, OnRecord, WithRecord
<1>6. QED  BY <1>1, <1>3, <1>5, ControlGate

(* The gate: utils.go, scaffoldVM, resetIncompleteVMDir.                     *)
LEMMA ScaffoldGate == ASSUME GateInv, TypeInv', NEW p \in Proc, Scaffold(p) PROVE GateInv'
<1>1. CASE rec = None /\ (dir => Live = {}) /\ dir' = FALSE /\ Goto(p, "bake") /\ Keep
  <2>1. Owned = {}  BY <1>1 DEF Owned, GateInv, Homed
  <2>2. rec' = None /\ Owned' = {}  BY <1>1, <2>1 DEF Scaffold, Owned, Live
  <2>3. Homed' /\ GatedProcesses'  BY <2>2 DEF Homed, GatedProcesses
  <2>4. Control(p)'
    BY <1>1, <2>2, GateControl
       DEF Scaffold, Goto, Keep, locals, Control, Making, Launching, OnRecord, WithRecord, GateInv, TypeInv, ControlOK
  <2>5. QED  BY <1>1, <2>3, <2>4, GotoGate DEF Scaffold
<1>2. CASE UNCHANGED dir /\ Return(p, "err")
  BY <1>2, UnchangedShrinks, UnchangedQuiet, EndGate DEF Scaffold
<1>3. QED  BY <1>1, <1>2 DEF Scaffold

(* The gate: utils.go, scaffoldVM.                                           *)
LEMMA BakeGate == ASSUME GateInv, TypeInv', NEW p \in Proc, Bake(p) PROVE GateInv'
<1>1. rec' = None /\ Owned' = {}
  BY GateControl DEF Bake, host, Control, Making, Owned, Live
<1>2. Homed' /\ GatedProcesses'  BY <1>1 DEF Homed, GatedProcesses
<1>3. CASE dir' = TRUE /\ Goto(p, "provision") /\ Keep
  <2>1. Control(p)'
    BY <1>1, <1>2, <1>3, GateControl
       DEF Bake, Goto, Keep, locals, Control, Making, Launching, OnRecord, WithRecord, GateInv, TypeInv, ControlOK
  <2>2. QED  BY <1>2, <1>3, <2>1, GotoGate DEF Bake
<1>4. CASE Return(p, "err")  BY <1>2, <1>4, ReturnGate DEF Bake
<1>5. QED  BY <1>3, <1>4 DEF Bake

(* The gate: lifecycle.go, create.                                           *)
LEMMA ProvisionGate == ASSUME GateInv, TypeInv', NEW p \in Proc, Provision(p) PROVE GateInv'
<1>1. Quiet  BY UnchangedShrinks, UnchangedQuiet DEF Provision, disk
<1>2. rec' = None /\ Owned' = {} /\ dir'
  BY GateControl DEF Provision, disk, Control, Making, Owned, Live
<1>3. CASE Goto(p, "commit") /\ op' = op
  <2>1. Control(p)'
    BY <1>2, <1>3, GateControl
       DEF Provision, Goto, Control, Making, Launching, OnRecord, WithRecord, GateInv, TypeInv, ControlOK
  <2>2. QED  BY <1>1, <1>3, <2>1, QuietGate, GotoGate DEF Provision
<1>4. CASE Goto(p, "reap") /\ Keep
  BY <1>1, <1>4, LeaveGate DEF Provision
<1>5. QED  BY <1>3, <1>4 DEF Provision

(* The gate: lifecycle.go, createVM.                                         *)
LEMMA CommitGate == ASSUME GateInv, TypeInv', NEW p \in Proc, Commit(p) PROVE GateInv'
<1>1. Owned' = {} /\ rec = None /\ dir'
  BY GateControl DEF Commit, host, Control, Making, Owned, Live
<1>2. Homed' /\ GatedProcesses'  BY <1>1 DEF Homed, GatedProcesses
<1>3. r[p] \in Record  BY DEF Commit, GateInv, TypeInv, ControlOK, WithRecord, PC
<1>4. CASE rec' = r[p] /\ Goto(p, "launch") /\ Keep
  <2>1. Control(p)'
    BY <1>3, <1>4, RecordAssumption
       DEF Goto, Keep, locals, Control, Making, Launching, GateInv, TypeInv, ControlOK
  <2>2. QED  BY <1>2, <1>4, <2>1, GotoGate DEF Commit
<1>5. CASE Return(p, "ok")  BY <1>2, <1>5, ReturnGate DEF Commit
<1>6. CASE UNCHANGED rec /\ Goto(p, "kill") /\ Keep
  <2>1. Control(p)'
    BY <1>6, GateControl
       DEF Commit, Goto, Keep, locals, Control, Making, Launching, OnRecord, WithRecord,
           GateInv, TypeInv, ControlOK
  <2>2. QED  BY <1>2, <1>6, <2>1, GotoGate DEF Commit
<1>7. QED  BY <1>4, <1>5, <1>6 DEF Commit

(* Load: whatever Dispatch decides works on the record now in vm.json.       *)
LEMMA DispatchGate ==
    ASSUME GateInv, TypeInv', NEW p \in Proc, pc[p] = "load", NEW rc \in Record, NEW running,
           Dispatch(p, rc, running), rec' = rc, UNCHANGED <<dir, vmm>>,
           rec # None, rc.mode = rec.mode
    PROVE  GateInv'
<1>1. Quiet  BY UnchangedShrinks DEF Quiet
<1>2. Homed' /\ GatedProcesses'  BY <1>1, QuietGate
<1>3. rec' # None  BY RecordAssumption
<1>4. ASSUME NEW l \in {"proxy", "unquiesce", "launch", "kill", "image"}, Goto(p, l),
             NEW x, r' = [r EXCEPT ![p] = x], x.mode = rc.mode
      PROVE  GateInv'
  <2>1. pc'[p] = l /\ r'[p] = x  BY <1>4 DEF Goto, GateInv, TypeInv, ControlOK
  <2>2. Control(p)'  BY <1>3, <1>4, <2>1 DEF Control, Making, Launching
  <2>3. QED  BY <1>2, <1>4, <2>2, GotoGate
<1>5. CASE Return(p, "err")  BY <1>1, <1>5, EndGate
<1>6. CASE \E l \in {"proxy", "unquiesce", "kill", "image"} : Goto(p, l) /\ r' = [r EXCEPT ![p] = rc]
  BY <1>4, <1>6
<1>7. CASE Goto(p, "launch") /\ \E vnc \in BOOLEAN : r' = [r EXCEPT ![p] = [rc EXCEPT !.vnc = vnc]]
  <2>1. \A vnc \in BOOLEAN : [rc EXCEPT !.vnc = vnc].mode = rc.mode  BY DEF Record
  <2>2. QED  BY <1>4, <1>7, <2>1
<1>8. QED  BY <1>5, <1>6, <1>7 DEF Dispatch

(* The gate: utils.go, reconcileRunningQEMU.                                 *)
LEMMA LoadGate == ASSUME GateInv, TypeInv', NEW p \in Proc, Load(p) PROVE GateInv'
<1>1. CASE UNCHANGED rec /\ Goto(p, "reap") /\ Keep
  BY <1>1, UnchangedShrinks, UnchangedQuiet, LeaveGate DEF Load, host
<1>2. CASE UNCHANGED rec /\ \E result \in {"ok", "err"} : Return(p, result)
  BY <1>2, UnchangedShrinks, UnchangedQuiet, EndGate DEF Load, host
<1>3. ASSUME NEW running, rec # None, UNCHANGED rec, Dispatch(p, rec, running)
      PROVE  GateInv'
  BY <1>3, DispatchGate DEF Load, host, GateInv, TypeInv, DataOK
<1>4. ASSUME rec # None, NEW q \in Pid, rec' = [rec EXCEPT !.pid = q],
             Dispatch(p, [rec EXCEPT !.pid = q], TRUE)
      PROVE  GateInv'
  <2>1. rec \in Record  BY <1>4 DEF GateInv, TypeInv, DataOK
  <2>2. [rec EXCEPT !.pid = q] \in Record /\ [rec EXCEPT !.pid = q].mode = rec.mode
    BY <2>1 DEF Record
  <2>3. QED  BY <1>4, <2>2, DispatchGate DEF Load, host
<1>5. QED  BY <1>1, <1>2, <1>3, <1>4 DEF Load

(* No step of an operation breaks the invariant.                             *)
LEMMA StepGate == ASSUME GateInv, TypeInv', NEW p \in Proc, Step(p) PROVE GateInv'
  BY LoadGate, ScaffoldGate, BakeGate, ProvisionGate, CommitGate,
     LaunchGate, UnproxyGate, PresaveGate, ExecGate, RunFailedGate, ReadPidGate,
     SetPassGate, ProxyGate, AbortGate, PostsaveGate, UnquiesceGate,
     KillGate, KillProxyGate, QuiesceGate, StopSaveGate, ImageGate, ImgSaveGate,
     TeardownGate, ReapGate, RemoveGate
     DEF Step

(* The environment                                                           *)

(* The gate: c.Run returning.                                                *)
LEMMA WakeGate ==
    ASSUME GateInv, TypeInv', Shrinks, UNCHANGED <<lock, dir, rec, op, r, pass>>,
           NEW f, NEW d, NEW l \in {"readpid", "runfailed"}, Wake(f, [p \in Proc |-> l], d)
    PROVE  GateInv'
<1>1. Homed' /\ GatedProcesses'  BY UnchangedQuiet, QuietGate
<1>2. \A p \in Proc : pc'[p] = pc[p] \/ (pc[p] = "wait" /\ pc'[p] = l)  BY DEF Wake
<1>3. Mutex'  BY <1>2 DEF GateInv, Mutex
<1>4. FreshDir'
  <2>1. Owned = {} => Owned' = {}  BY DEF Shrinks
  <2>2. \A p \in Proc : pc'[p] \in Making \cup {"scaffold"} => pc'[p] = pc[p]  BY <1>2 DEF Making
  <2>3. QED  BY <2>1, <2>2 DEF GateInv, FreshDir, Making
<1>5. \A p \in Proc : OnRecord(p)' => OnRecord(p)  BY <1>2 DEF OnRecord, WithRecord, PC
<1>6. SameMode'  BY <1>5 DEF GateInv, SameMode
<1>7. Gated'  BY <1>2 DEF GateInv, Gated, Launching
<1>8. QED  BY <1>1, <1>3, <1>4, <1>6, <1>7 DEF GateInv

(* A step of a QEMU that adds none to the VM dir's but beside a front.       *)
LEMMA IdleGate ==
    ASSUME GateInv, TypeInv', GatedProcesses', Owned = {} => Owned' = {},
           UNCHANGED <<lock, dir, rec, pc, op, r, pass>>
    PROVE  GateInv'
<1>1. Homed' /\ FreshDir'  BY DEF GateInv, Homed, FreshDir
<1>2. SameMode'  BY DEF GateInv, SameMode, OnRecord
<1>3. QED  BY <1>1, <1>2 DEF GateInv, Mutex, Gated

(* The gate: the fork of `qemu -daemonize`.                                  *)
LEMMA QemuForkGate == ASSUME GateInv, TypeInv', NEW f \in Pid, QemuFork(f) PROVE GateInv'
<1>1. PICK d \in Free : vmm' = [vmm EXCEPT ![d] = DaemonOf(vmm[f], f)]
  BY DEF QemuFork
<1>2. vmm[f] \in VMM  BY DEF GateInv, TypeInv, DataOK
<1>3. DaemonOf(vmm[f], f).disp = vmm[f].disp /\ DaemonOf(vmm[f], f).orphan = vmm[f].orphan
  BY <1>2 DEF DaemonOf, VMM
<1>4. f \in Live  BY DEF QemuFork, Live
<1>5. \A q \in Pid : vmm'[q] = vmm[q] \/ (q = d /\ vmm'[q] = DaemonOf(vmm[f], f))
  BY <1>1 DEF Free, GateInv, TypeInv, DataOK
<1>6. \A q \in Owned' : \/ q \in Owned /\ vmm'[q] = vmm[q]
                        \/ f \in Owned /\ vmm'[q].disp = vmm[f].disp
  <2>1. SUFFICES ASSUME NEW q \in Pid, vmm'[q].phase # "dead", ~vmm'[q].orphan
                 PROVE  \/ q \in Owned /\ vmm'[q] = vmm[q]
                        \/ f \in Owned /\ vmm'[q].disp = vmm[f].disp
    BY DEF Owned, Live
  <2>2. QED  BY <1>3, <1>4, <1>5, <2>1 DEF Owned, Live
<1>7. UNCHANGED <<lock, dir, rec, pc, op, r, pass>>  BY DEF QemuFork, disk, locals
<1>8. GatedProcesses'  BY <1>6, <1>7 DEF GateInv, GatedProcesses
<1>9. QED  BY <1>6, <1>7, <1>8, IdleGate

(* The gate: the guest that comes up.                                        *)
LEMMA QemuReadyGate == ASSUME GateInv, TypeInv', NEW d \in Pid, QemuReady(d) PROVE GateInv'
<1> DEFINE up == [vmm[d] EXCEPT !.phase = "up", !.front = None]
<1>1. vmm[d] \in VMM  BY DEF GateInv, TypeInv, DataOK
<1>2. up.disp = vmm[d].disp /\ up.orphan = vmm[d].orphan  BY <1>1 DEF VMM
<1>3. \A q \in Pid : \/ vmm'[q] \in {vmm[q], Dead}
                     \/ q = d /\ vmm'[q] = up
  BY DEF QemuReady, GateInv, TypeInv, DataOK
<1>4. d \in Live  BY DEF QemuReady, Live
<1>5. \A q \in Owned' : q \in Owned /\ vmm'[q].disp = vmm[q].disp
  <2>1. SUFFICES ASSUME NEW q \in Pid, vmm'[q].phase # "dead", ~vmm'[q].orphan
                 PROVE  q \in Owned /\ vmm'[q].disp = vmm[q].disp
    BY DEF Owned, Live
  <2>2. CASE vmm'[q] \in {vmm[q], Dead}  BY <2>1, <2>2 DEF Owned, Live, Dead
  <2>3. CASE q = d /\ vmm'[q] = up  BY <1>2, <1>4, <2>1, <2>3 DEF Owned
  <2>4. QED  BY <1>3, <2>2, <2>3
<1>6. QED  BY <1>5, WakeGate DEF Shrinks, QemuReady, disk

(* The gate: the boot that fails.                                            *)
LEMMA QemuFailGate == ASSUME GateInv, TypeInv', NEW f \in Pid, QemuFail(f) PROVE GateInv'
<1>1. Shrinks  BY DEF QemuFail, Shrinks, Owned, Live, Dead, GateInv, TypeInv, DataOK
<1>2. QED  BY <1>1, WakeGate DEF QemuFail, disk

(* The gate: the guest that goes.                                            *)
LEMMA QemuExitGate == ASSUME GateInv, TypeInv', NEW d \in Pid, QemuExit(d) PROVE GateInv'
<1>1. Shrinks  BY DEF QemuExit, Shrinks, Owned, Live, Dead, GateInv, TypeInv, DataOK
<1>2. UNCHANGED <<lock, dir, rec, pc, op, r, pass>>  BY DEF QemuExit, disk, locals
<1>3. GatedProcesses'  BY <1>1, <1>2, UnchangedQuiet, QuietGate
<1>4. QED  BY <1>1, <1>2, <1>3, IdleGate DEF Shrinks

(* The gate: a reboot of the host.                                           *)
LEMMA RebootGate == ASSUME GateInv, TypeInv', Reboot PROVE GateInv'
<1>1. Shrinks  BY DEF Reboot, Shrinks, Owned, Live, Dead
<1>2. Homed' /\ GatedProcesses'  BY <1>1, UnchangedQuiet, QuietGate DEF Reboot, disk
<1>3. \A p \in Proc : pc'[p] = "idle"  BY DEF Reboot
<1>4. QED
  BY <1>2, <1>3 DEF GateInv, Mutex, FreshDir, SameMode, Gated, Making, Launching, OnRecord, WithRecord

(* Neither a stuttering step nor the death of a VNC proxy matters.           *)
LEMMA UnchangedGate ==
    ASSUME GateInv, TypeInv', UNCHANGED <<lock, disk, vmm, pc, locals>>
    PROVE  GateInv'
<1>1. Shrinks  BY UnchangedShrinks
<1>2. UNCHANGED <<lock, dir, rec, pc, op, r, pass>>  BY DEF disk, locals
<1>3. GatedProcesses'  BY <1>1, <1>2, UnchangedQuiet, QuietGate
<1>4. QED  BY <1>1, <1>2, <1>3, IdleGate DEF Shrinks

(* The invariant holds before the first operation.                           *)
LEMMA GateInit == Init => GateInv
<1> SUFFICES ASSUME Init PROVE GateInv  OBVIOUS
<1>1. TypeInv  BY TypeInit
<1>2. Owned = {}  BY DEF Init, Owned, Live, Dead
<1>3. QED
  BY <1>1, <1>2
     DEF Init, GateInv, Mutex, Homed, FreshDir, SameMode, Gated, GatedProcesses,
         Making, Launching, OnRecord, WithRecord

(* No step of the system breaks the invariant.                               *)
LEMMA GateNext == GateInv /\ [Next]_vars => GateInv'
<1> SUFFICES ASSUME GateInv, [Next]_vars PROVE GateInv'  OBVIOUS
<1>1. TypeInv'  BY TypeNext DEF GateInv
<1>2. CASE \E p \in Proc : Acquire(p) \/ Step(p) \/ Crash(p)
  BY <1>1, <1>2, AcquireGate, StepGate, CrashGate
<1>3. CASE \E q \in Pid : Boot(q) \/ QemuExit(q)
  BY <1>1, <1>3, QemuForkGate, QemuReadyGate, QemuFailGate, QemuExitGate DEF Boot
<1>4. CASE Reboot \/ ProxyExit \/ UNCHANGED vars
  BY <1>1, <1>4, RebootGate, UnchangedGate DEF ProxyExit, vars, host
<1>5. QED  BY <1>2, <1>3, <1>4 DEF Next

(* GateInv holds in every reachable state: at most one CLI works on a VM, it *)
(* works on the record that vm.json holds, and no QEMU of a CNI VM, booting  *)
(* or running, was started with an open display.                             *)
THEOREM GateCorrect == Spec => []GateInv
  BY GateInit, GateNext, PTL DEF Spec

(* vnc.go:42, requireCNIVNCPassword: whatever is killed, fails or boots at   *)
(* the wrong moment, the display of a CNI guest never serves unprotected.    *)
THEOREM DisplaySafety == Spec => []GatedDisplay
<1>1. GateInv => GatedDisplay
  BY DEF GateInv, GatedProcesses, GatedDisplay, Guests, Owned, Live
<1>2. QED  BY <1>1, GateCorrect, PTL

-----------------------------------------------------------------------------
(* The end of an operation.  Turns counts down along its steps: the failures *)
(* of create and run end in the cleanup, while stop, rm and restore begin    *)
(* with what the cleanup shares with them (stopInstance).                    *)
Turns(o) ==
    [idle |-> 0, remove |-> 1, reap |-> 2, teardown |-> 3,
     killproxy |-> IF o \in {"create", "run"} THEN 4 ELSE 21,
     kill |-> IF o \in {"create", "run"} THEN 5 ELSE 22,
     unquiesce |-> 6, abort |-> 7, postsave |-> 7, proxypid |-> 8, proxy |-> 9, setpass |-> 10,
     readpid |-> 11, runfailed |-> 11, wait |-> 12, exec |-> 14, presave |-> 15, unproxy |-> 16,
     launch |-> 17, imgsave |-> 17, image |-> 18, stopsave |-> 19, quiesce |-> 20,
     commit |-> 23, provision |-> 24, bake |-> 25, scaffold |-> 26, load |-> 27]

(* The fork of the daemon is a step c.Run waits for as well.                 *)
StepsLeft(p) ==
    Turns(op[p])[pc[p]] + (IF pc[p] = "wait" /\ ~Forked(child[p]) THEN 1 ELSE 0)

(* The steps an operation advances by: those of its CLI, and those of the    *)
(* boot it waits for.                                                        *)
BootOf(f) == QemuFork(f) \/ QemuFail(f) \/ \E d \in Pid : vmm[d].front = f /\ QemuReady(d)
Own(p) == Step(p) \/ Crash(p) \/ (pc[p] = "wait" /\ BootOf(child[p]))

(* A daemon that initialises has a front of its own that waits for it,       *)
Fronts ==
    \A d \in Pid : vmm[d].phase = "init" =>
        /\ vmm[d].front \in Pid
        /\ vmm[vmm[d].front].phase = "front"
        /\ \A e \in Pid : vmm[e].phase = "init" /\ vmm[e].front = vmm[d].front => e = d

(* a CLI in c.Run waits for a front that is alive,                           *)
Awaited == \A p \in Proc : pc[p] = "wait" => child[p] \in Pid /\ vmm[child[p]].phase = "front"

(* and whoever holds the flock is inside an operation.                       *)
Held == \A p \in Proc : lock = p => pc[p] # "idle"

(* From readpid on a launch has the pid of a QEMU; a repair is no launch.    *)
PidKnown ==
    \A p \in Proc : \/ pc[p] \in {"setpass", "abort"}
                    \/ pc[p] \in {"proxy", "proxypid"} /\ ~repairing(p)
                   => r[p].pid \in Pid

EndInv == GateInv /\ Fronts /\ Awaited /\ Held /\ PidKnown

(* How far from its end each step of an operation is.                        *)
LEMMA TurnsOf ==
    ASSUME NEW o
    PROVE  /\ Turns(o)["idle"] = 0 /\ Turns(o)["remove"] = 1 /\ Turns(o)["reap"] = 2
           /\ Turns(o)["teardown"] = 3
           /\ Turns(o)["killproxy"] = IF o \in {"create", "run"} THEN 4 ELSE 21
           /\ Turns(o)["kill"] = IF o \in {"create", "run"} THEN 5 ELSE 22
           /\ Turns(o)["unquiesce"] = 6 /\ Turns(o)["abort"] = 7 /\ Turns(o)["postsave"] = 7
           /\ Turns(o)["proxypid"] = 8 /\ Turns(o)["proxy"] = 9 /\ Turns(o)["setpass"] = 10
           /\ Turns(o)["readpid"] = 11 /\ Turns(o)["runfailed"] = 11 /\ Turns(o)["wait"] = 12
           /\ Turns(o)["exec"] = 14 /\ Turns(o)["presave"] = 15 /\ Turns(o)["unproxy"] = 16
           /\ Turns(o)["launch"] = 17 /\ Turns(o)["imgsave"] = 17 /\ Turns(o)["image"] = 18
           /\ Turns(o)["stopsave"] = 19 /\ Turns(o)["quiesce"] = 20 /\ Turns(o)["commit"] = 23
           /\ Turns(o)["provision"] = 24 /\ Turns(o)["bake"] = 25 /\ Turns(o)["scaffold"] = 26
           /\ Turns(o)["load"] = 27
  BY DEF Turns

(* Only an operation that is over has no step left.                          *)
LEMMA TurnsBound ==
    ASSUME NEW o, NEW l \in PC
    PROVE  Turns(o)[l] \in 0..27 /\ (Turns(o)[l] = 0 <=> l = "idle")
  BY TurnsOf DEF PC

(* A step of p either ends the operation or goes on to a later step of it;   *)
(* only exec leads into c.Run.                                               *)
Ended(p) == pc'[p] = "idle" /\ lock' = None
Onward(p) ==
    /\ pc'[p] \in PC \ {"idle"} /\ op'[p] = op[p] /\ lock' = lock
    /\ Turns(op[p])[pc'[p]] < Turns(op[p])[pc[p]]
    /\ pc'[p] = "wait" => pc[p] = "exec"

(* The deferred Unlock runs however an operation ends.                       *)
LEMMA ReturnEnds ==
    ASSUME TypeInv, NEW p \in Proc, NEW result, Return(p, result)
    PROVE  Ended(p)
  BY DEF Return, Ended, TypeInv, ControlOK

(* Going on to a later step.                                                 *)
LEMMA GotoOnward ==
    ASSUME TypeInv, NEW p \in Proc, NEW l \in PC \ {"idle"}, Goto(p, l), op' = op,
           Turns(op[p])[l] < Turns(op[p])[pc[p]], l = "wait" => pc[p] = "exec"
    PROVE  Onward(p)
  BY DEF Goto, Onward, TypeInv, ControlOK

(* A failed launch ends the operation or begins run's cleanup.               *)
LEMMA LaunchFailsOnward ==
    ASSUME TypeInv, NEW p \in Proc, LaunchFails(p),
           pc[p] \in {"launch", "presave", "exec", "runfailed", "readpid", "abort", "postsave"}
    PROVE  Ended(p) \/ Onward(p)
<1>1. CASE op[p] = "run"
  <2>1. Turns(op[p])["kill"] < Turns(op[p])[pc[p]]  BY <1>1, TurnsOf
  <2>2. Goto(p, "kill") /\ op' = op  BY <1>1 DEF LaunchFails, Keep, locals
  <2>3. QED  BY <2>1, <2>2, GotoOnward DEF PC
<1>2. CASE op[p] # "run"
  BY <1>2, ReturnEnds DEF LaunchFails
<1>3. QED  BY <1>1, <1>2

(* A failed startVNCProxy ends a repair or aborts the launch.                *)
LEMMA ProxyFailsOnward ==
    ASSUME TypeInv, NEW p \in Proc, ProxyFails(p), pc[p] \in {"proxy", "proxypid"}
    PROVE  Ended(p) \/ Onward(p)
<1>1. CASE repairing(p)
  BY <1>1, ReturnEnds DEF ProxyFails
<1>2. CASE ~repairing(p)
  <2>1. Turns(op[p])["abort"] < Turns(op[p])[pc[p]]  BY TurnsOf
  <2>2. Goto(p, "abort") /\ op' = op  BY <1>2 DEF ProxyFails, Keep, locals
  <2>3. QED  BY <2>1, <2>2, GotoOnward DEF PC
<1>3. QED  BY <1>1, <1>2

(* create and run up to the record: scaffoldVM, create, createVM.            *)
LEMMA CreateOnward ==
    ASSUME TypeInv, NEW p \in Proc, Scaffold(p) \/ Bake(p) \/ Provision(p) \/ Commit(p)
    PROVE  Ended(p) \/ Onward(p)
<1>1. CASE Scaffold(p)
  <2>1. (Goto(p, "bake") /\ op' = op) \/ Return(p, "err")
    BY <1>1 DEF Scaffold, Keep, locals
  <2>2. QED  BY <1>1, <2>1, TurnsOf, GotoOnward, ReturnEnds DEF Scaffold, PC
<1>2. CASE Bake(p)
  <2>1. (Goto(p, "provision") /\ op' = op) \/ Return(p, "err")
    BY <1>2 DEF Bake, Keep, locals
  <2>2. QED  BY <1>2, <2>1, TurnsOf, GotoOnward, ReturnEnds DEF Bake, PC
<1>3. CASE Provision(p)
  <2>1. \E l \in {"commit", "reap"} : Goto(p, l) /\ op' = op
    BY <1>3 DEF Provision, Keep, locals
  <2>2. QED  BY <1>3, <2>1, TurnsOf, GotoOnward DEF Provision, PC
<1>4. CASE Commit(p)
  <2>1. (\E l \in {"launch", "kill"} : Goto(p, l) /\ op' = op) \/ Return(p, "ok")
    BY <1>4 DEF Commit, Keep, locals
  <2>2. QED  BY <1>4, <2>1, TurnsOf, GotoOnward, ReturnEnds DEF Commit, PC
<1>5. QED  BY <1>1, <1>2, <1>3, <1>4

(* launch up to c.Run.                                                       *)
LEMMA LaunchOnward ==
    ASSUME TypeInv, NEW p \in Proc,
           Launch(p) \/ Unproxy(p) \/ Presave(p) \/ Exec(p) \/ RunFailed(p)
    PROVE  Ended(p) \/ Onward(p)
<1>1. CASE Launch(p)
  <2>1. (Goto(p, "unproxy") /\ op' = op) \/ LaunchFails(p)
    BY <1>1 DEF Launch, Keep, locals
  <2>2. QED  BY <1>1, <2>1, TurnsOf, GotoOnward, LaunchFailsOnward DEF Launch, PC
<1>2. CASE Unproxy(p)
  BY <1>2, TurnsOf, GotoOnward DEF Unproxy, Keep, locals, PC
<1>3. CASE Presave(p)
  <2>1. (Goto(p, "exec") /\ op' = op) \/ LaunchFails(p)
    BY <1>3 DEF Presave
  <2>2. QED  BY <1>3, <2>1, TurnsOf, GotoOnward, LaunchFailsOnward DEF Presave, PC
<1>4. CASE Exec(p)
  <2>1. (Goto(p, "wait") /\ op' = op) \/ LaunchFails(p)
    BY <1>4 DEF Exec
  <2>2. QED  BY <1>4, <2>1, TurnsOf, GotoOnward, LaunchFailsOnward DEF Exec, PC
<1>5. CASE RunFailed(p)
  BY <1>5, LaunchFailsOnward DEF RunFailed
<1>6. QED  BY <1>1, <1>2, <1>3, <1>4, <1>5

(* launch after c.Run, and the repair of a proxy by start.                   *)
LEMMA ServeOnward ==
    ASSUME TypeInv, NEW p \in Proc,
           \/ ReadPid(p) \/ SetPass(p) \/ Proxy(p) \/ ProxyPid(p) \/ Abort(p)
           \/ Postsave(p) \/ Unquiesce(p)
    PROVE  Ended(p) \/ Onward(p)
<1>1. CASE ReadPid(p)
  <2>1. (\E l \in {"setpass", "proxy", "postsave"} : Goto(p, l) /\ op' = op) \/ LaunchFails(p)
    BY <1>1 DEF ReadPid
  <2>2. QED  BY <1>1, <2>1, TurnsOf, GotoOnward, LaunchFailsOnward DEF ReadPid, PC
<1>2. CASE SetPass(p)
  <2>1. \E l \in {"proxy", "postsave", "abort"} : Goto(p, l) /\ op' = op
    BY <1>2 DEF SetPass, Keep, locals
  <2>2. QED  BY <1>2, <2>1, TurnsOf, GotoOnward DEF SetPass, PC
<1>3. CASE Proxy(p)
  <2>1. (Goto(p, "proxypid") /\ op' = op) \/ ProxyFails(p)
    BY <1>3 DEF Proxy, Keep, locals
  <2>2. QED  BY <1>3, <2>1, TurnsOf, GotoOnward, ProxyFailsOnward DEF Proxy, PC
<1>4. CASE ProxyPid(p)
  <2>1. (\E l \in {"unquiesce", "postsave"} : Goto(p, l) /\ op' = op) \/ ProxyFails(p)
    BY <1>4 DEF ProxyPid, Keep, locals
  <2>2. QED  BY <1>4, <2>1, TurnsOf, GotoOnward, ProxyFailsOnward DEF ProxyPid, PC
<1>5. CASE Abort(p)
  BY <1>5, LaunchFailsOnward DEF Abort
<1>6. CASE Postsave(p)
  <2>1. (Goto(p, "unquiesce") /\ op' = op) \/ Return(p, "ok") \/ LaunchFails(p)
    BY <1>6 DEF Postsave, Keep, locals
  <2>2. QED
    BY <1>6, <2>1, TurnsOf, GotoOnward, ReturnEnds, LaunchFailsOnward DEF Postsave, PC
<1>7. CASE Unquiesce(p)
  BY <1>7, ReturnEnds DEF Unquiesce
<1>8. QED  BY <1>1, <1>2, <1>3, <1>4, <1>5, <1>6, <1>7

(* stop, the offline work, and the removal that rm and the cleanup share.    *)
LEMMA StopOnward ==
    ASSUME TypeInv, NEW p \in Proc,
           \/ Kill(p) \/ KillProxy(p) \/ Quiesce(p) \/ StopSave(p) \/ Image(p) \/ ImgSave(p)
           \/ Teardown(p) \/ Reap(p) \/ Remove(p)
    PROVE  Ended(p) \/ Onward(p)
<1>1. CASE Kill(p)
  BY <1>1, TurnsOf, GotoOnward DEF Kill, PC
<1>2. CASE KillProxy(p)
  <2>1. \/ op[p] \in {"stop", "restore"} /\ Goto(p, "quiesce") /\ op' = op
        \/ Goto(p, "teardown") /\ op' = op
        \/ Return(p, "err")
    BY <1>2 DEF KillProxy, Keep, locals
  <2>2. QED  BY <1>2, <2>1, TurnsOf, GotoOnward, ReturnEnds DEF KillProxy, PC
<1>3. CASE Quiesce(p)
  BY <1>3, TurnsOf, GotoOnward DEF Quiesce, Keep, locals, PC
<1>4. CASE StopSave(p)
  <2>1. (Goto(p, "image") /\ op' = op) \/ Return(p, "ok") \/ Return(p, "err")
    BY <1>4 DEF StopSave
  <2>2. QED  BY <1>4, <2>1, TurnsOf, GotoOnward, ReturnEnds DEF StopSave, PC
<1>5. CASE Image(p)
  <2>1. \/ \E l \in {"launch", "imgsave"} : Goto(p, l) /\ op' = op
        \/ Return(p, "ok") \/ Return(p, "err")
    BY <1>5 DEF Image, Keep, locals
  <2>2. QED  BY <1>5, <2>1, TurnsOf, GotoOnward, ReturnEnds DEF Image, PC
<1>6. CASE ImgSave(p)
  BY <1>6, ReturnEnds DEF ImgSave
<1>7. CASE Teardown(p)
  <2>1. (\E l \in {"remove", "reap"} : Goto(p, l) /\ op' = op) \/ Return(p, "err")
    BY <1>7 DEF Teardown, Keep, locals
  <2>2. QED  BY <1>7, <2>1, TurnsOf, GotoOnward, ReturnEnds DEF Teardown, PC
<1>8. CASE Reap(p)
  <2>1. (Goto(p, "remove") /\ op' = op) \/ Return(p, "err")
    BY <1>8 DEF Reap, Keep, locals
  <2>2. QED  BY <1>8, <2>1, TurnsOf, GotoOnward, ReturnEnds DEF Reap, PC
<1>9. CASE Remove(p)
  BY <1>9, ReturnEnds DEF Remove
<1>10. QED
  BY <1>1, <1>2, <1>3, <1>4, <1>5, <1>6, <1>7, <1>8, <1>9

(* What follows the load of the record, by operation.                        *)
LEMMA LoadOnward ==
    ASSUME TypeInv, NEW p \in Proc, Load(p)
    PROVE  Ended(p) \/ Onward(p)
<1>1. ASSUME NEW rc, NEW running, Dispatch(p, rc, running)
      PROVE  \/ Return(p, "err")
             \/ /\ op' = op
                /\ \/ \E l \in {"proxy", "unquiesce", "launch", "image"} : Goto(p, l)
                   \/ Goto(p, "kill")
  BY <1>1 DEF Dispatch
<1>2. \/ Return(p, "ok") \/ Return(p, "err")
      \/ /\ op' = op
         /\ \E l \in {"proxy", "unquiesce", "launch", "image", "kill", "reap"} : Goto(p, l)
  <2>1. CASE rec = None \/ "corrupt" \in Faults
    BY <1>1, <2>1 DEF Load, Keep, locals
  <2>2. QED  BY <1>1, <2>1 DEF Load
<1>3. QED  BY <1>2, TurnsOf, GotoOnward, ReturnEnds DEF Load, PC

(* Every step of a CLI comes nearer to the end of its operation.             *)
LEMMA StepOnward ==
    ASSUME TypeInv, NEW p \in Proc, Step(p)
    PROVE  Ended(p) \/ Onward(p)
  BY CreateOnward, LaunchOnward, ServeOnward, StopOnward, LoadOnward DEF Step

(* A step that leaves every QEMU in the phase of its boot it is in.          *)
SameBoots == \A q \in Pid : vmm'[q].phase = vmm[q].phase /\ vmm'[q].front = vmm[q].front

(* Such a step leaves each front with its daemon.                            *)
LEMMA SameFronts == ASSUME Fronts, SameBoots PROVE Fronts'
  BY DEF Fronts, SameBoots

(* A front exits with its daemon, a daemon without its front is doomed.      *)
LEMMA KilledFronts ==
    ASSUME TypeInv, Fronts, NEW S \in SUBSET Pid, vmm' = Killed(S)
    PROVE  Fronts'
<1>1. \A d \in Pid : vmm'[d].phase = "init" =>
          vmm'[d] = vmm[d] /\ d \notin S /\ vmm[d].front \notin S
  BY DEF Killed, Dead, VMM, TypeInv, DataOK
<1>2. SUFFICES ASSUME NEW d \in Pid, vmm'[d].phase = "init"
               PROVE  /\ vmm'[d].front \in Pid
                      /\ vmm'[vmm'[d].front].phase = "front"
                      /\ \A e \in Pid :
                            vmm'[e].phase = "init" /\ vmm'[e].front = vmm'[d].front => e = d
  BY DEF Fronts
<1> DEFINE f == vmm[d].front
<1>3. vmm'[d] = vmm[d] /\ d \notin S /\ f \notin S  BY <1>1, <1>2
<1>4. f \in Pid /\ vmm[f].phase = "front"
  BY <1>2, <1>3 DEF Fronts
<1>5. \A e \in Pid : vmm[e].phase = "init" /\ vmm[e].front = f => e = d
  BY <1>2, <1>3 DEF Fronts
<1>6. vmm'[f] = vmm[f]
  BY <1>3, <1>4, <1>5 DEF Killed
<1>7. QED  BY <1>1, <1>3, <1>4, <1>5, <1>6

(* A CLI steps inside an operation, and not while it waits in c.Run.         *)
LEMMA StepAt ==
    ASSUME NEW p \in Proc, Step(p)
    PROVE  pc[p] \notin {"idle", "wait"} /\ (pc[p] = "exec" => Exec(p))
<1>1. CASE Load(p) \/ Scaffold(p) \/ Bake(p) \/ Provision(p) \/ Commit(p) \/ Launch(p)
  BY <1>1 DEF Load, Scaffold, Bake, Provision, Commit, Launch
<1>2. CASE Unproxy(p) \/ Presave(p) \/ RunFailed(p) \/ ReadPid(p) \/ SetPass(p) \/ Proxy(p)
  BY <1>2 DEF Unproxy, Presave, RunFailed, ReadPid, SetPass, Proxy
<1>3. CASE ProxyPid(p) \/ Abort(p) \/ Postsave(p) \/ Unquiesce(p) \/ Kill(p) \/ KillProxy(p)
  BY <1>3 DEF ProxyPid, Abort, Postsave, Unquiesce, Kill, KillProxy
<1>4. CASE \/ Quiesce(p) \/ StopSave(p) \/ Image(p) \/ ImgSave(p)
           \/ Teardown(p) \/ Reap(p) \/ Remove(p)
  BY <1>4 DEF Quiesce, StopSave, Image, ImgSave, Teardown, Reap, Remove
<1>5. CASE Exec(p)  BY <1>5 DEF Exec
<1>6. QED  BY <1>1, <1>2, <1>3, <1>4, <1>5 DEF Step

(* What a step of a CLI does to the process table.                           *)
LEMMA StepTable ==
    ASSUME TypeInv, PidKnown, NEW p \in Proc, Step(p)
    PROVE  SameBoots \/ (\E S \in SUBSET Pid : vmm' = Killed(S)) \/ Exec(p)
<1>1. ASSUME UNCHANGED vmm PROVE SameBoots  BY <1>1 DEF SameBoots
<1>2. CASE Scaffold(p) \/ Bake(p) \/ Provision(p) \/ Commit(p)
  BY <1>1, <1>2 DEF Scaffold, Bake, Provision, Commit, host
<1>3. CASE Launch(p) \/ Unproxy(p) \/ Presave(p) \/ RunFailed(p) \/ ReadPid(p)
  BY <1>1, <1>3 DEF Launch, Unproxy, Presave, RunFailed, ReadPid, host
<1>4. CASE Proxy(p) \/ ProxyPid(p) \/ Postsave(p) \/ Unquiesce(p)
  BY <1>1, <1>4 DEF Proxy, ProxyPid, Postsave, Unquiesce, host
<1>5. CASE KillProxy(p) \/ Quiesce(p) \/ StopSave(p) \/ Image(p) \/ ImgSave(p) \/ Teardown(p)
  BY <1>1, <1>5 DEF KillProxy, Quiesce, StopSave, Image, ImgSave, Teardown, host
<1>6. CASE Load(p)
  BY <1>1, <1>6 DEF Load, host
<1>7. CASE SetPass(p)
  BY <1>7 DEF SetPass, SameBoots, VMM, TypeInv, DataOK
<1>8. CASE Abort(p)
  <2>1. vmm' = Killed({r[p].pid}) \/ vmm' = vmm  BY <1>8 DEF Abort
  <2>2. r[p].pid \in Pid  BY <1>8 DEF Abort, PidKnown
  <2>3. QED  BY <1>1, <2>1, <2>2
<1>9. CASE Kill(p)
  <2>1. \/ vmm' = Killed({r[p].pid} \cap Live) \/ vmm' = vmm
        \/ isRunning(r[p]) /\ vmm' = Killed({r[p].pid})
    BY <1>9 DEF Kill
  <2>2. isRunning(r[p]) => r[p].pid \in Pid  BY DEF isRunning, Live
  <2>3. {r[p].pid} \cap Live \in SUBSET Pid  BY DEF Live
  <2>4. QED  BY <1>1, <2>1, <2>2, <2>3
<1>10. CASE Reap(p)
  <2>1. \E S \in SUBSET Live : vmm' = Killed(S)  BY <1>10 DEF Reap
  <2>2. QED  BY <2>1 DEF Live
<1>11. CASE Remove(p)
  BY <1>11 DEF Remove, SameBoots, VMM, TypeInv, DataOK
<1>12. QED
  BY <1>2, <1>3, <1>4, <1>5, <1>6, <1>7, <1>8, <1>9, <1>10, <1>11 DEF Step

(* c.Run starts a boot in processes that are free.                           *)
LEMMA ExecFronts ==
    ASSUME TypeInv, Fronts, NEW p \in Proc, Exec(p)
    PROVE  /\ Fronts'
           /\ pc'[p] = "wait" => child'[p] \in Pid /\ vmm'[child'[p]].phase = "front"
<1>0. vmm \in [Pid -> VMM] /\ DOMAIN child = Proc /\ DOMAIN pc = Proc
  BY DEF TypeInv, DataOK, ControlOK
<1>1. ASSUME NEW f \in Free, vmm'[f].phase = "front", child' = [child EXCEPT ![p] = f],
             \/ \A q \in Pid \ {f} : vmm'[q] = vmm[q]
             \/ \E d \in Free \ {f} : /\ vmm'[d].phase = "init" /\ vmm'[d].front = f
                                      /\ \A q \in Pid \ {f, d} : vmm'[q] = vmm[q]
      PROVE  /\ Fronts'
             /\ pc'[p] = "wait" => child'[p] \in Pid /\ vmm'[child'[p]].phase = "front"
  <2>1. child'[p] = f /\ f \in Pid /\ vmm[f].phase = "dead"
    BY <1>0, <1>1 DEF Free, Live
  <2>2. \A e \in Pid : vmm[e].phase = "init" => e # f /\ vmm[e].front # f
    BY <2>1 DEF Fronts
  <2>3. CASE \A q \in Pid \ {f} : vmm'[q] = vmm[q]
    <3>1. \A e \in Pid : vmm'[e].phase = "init" => e # f /\ vmm'[e] = vmm[e]
      BY <1>1, <2>3
    <3>2. QED  BY <1>1, <2>1, <2>2, <2>3, <3>1 DEF Fronts
  <2>4. ASSUME NEW d \in Free \ {f}, vmm'[d].phase = "init", vmm'[d].front = f,
               \A q \in Pid \ {f, d} : vmm'[q] = vmm[q]
        PROVE  Fronts'
    <3>1. \A e \in Pid : vmm'[e].phase = "init" => e = d \/ (e # f /\ vmm'[e] = vmm[e])
      BY <1>1, <2>4
    <3>2. vmm[d].phase = "dead" /\ d \in Pid  BY <2>4 DEF Free, Live
    <3>3. \A e \in Pid : vmm[e].phase = "init" => vmm[e].front # d
      BY <3>2 DEF Fronts
    <3>4. \A e \in Pid : vmm[e].phase = "init" =>
              vmm[e].front \in Pid \ {f, d} /\ vmm[vmm[e].front].phase = "front"
      BY <2>2, <3>3 DEF Fronts
    <3>5. \A e \in Pid : vmm[e].phase = "init" => vmm'[vmm[e].front].phase = "front"
      BY <2>4, <3>4
    <3>6. SUFFICES ASSUME NEW e \in Pid, vmm'[e].phase = "init"
                   PROVE  /\ vmm'[e].front \in Pid
                          /\ vmm'[vmm'[e].front].phase = "front"
                          /\ \A g \in Pid :
                                vmm'[g].phase = "init" /\ vmm'[g].front = vmm'[e].front => g = e
      BY DEF Fronts
    <3>7. CASE e = d
      <4>1. \A g \in Pid : vmm'[g].phase = "init" /\ vmm'[g].front = f => g = d
        BY <2>2, <3>1
      <4>2. QED  BY <1>1, <2>1, <2>4, <3>7, <4>1
    <3>8. CASE e # d
      <4>1. e # f /\ vmm'[e] = vmm[e]  BY <3>1, <3>6, <3>8
      <4>2. vmm[e].front \in Pid \ {f, d} /\ vmm'[vmm[e].front].phase = "front"
        BY <3>4, <3>5, <3>6, <4>1
      <4>3. ASSUME NEW g \in Pid, vmm'[g].phase = "init", vmm'[g].front = vmm[e].front
            PROVE  g = e
        <5>1. g # d  BY <2>4, <4>2, <4>3
        <5>2. vmm'[g] = vmm[g]  BY <3>1, <4>3, <5>1
        <5>3. QED  BY <3>6, <4>1, <4>3, <5>2 DEF Fronts
      <4>4. QED  BY <4>1, <4>2, <4>3
    <3>9. QED  BY <3>7, <3>8
  <2>5. Fronts'  BY <1>1, <2>3, <2>4
  <2>6. QED  BY <1>1, <2>1, <2>5
<1>2. CASE \E f \in Free :
            /\ LET front == [phase |-> "front", front |-> None, orphan |-> FALSE,
                             disp |-> IF ~r[p].vnc THEN "off"
                                      ELSE IF pass[p] THEN "locked" ELSE "open"] IN
               \/ "front" \in Faults /\ vmm' = [vmm EXCEPT ![f] = front]
               \/ /\ f # rec.pid
                  /\ \E d \in Free \ {f} :
                        vmm' = [vmm EXCEPT ![f] = front, ![d] = DaemonOf(front, f)]
            /\ child' = [child EXCEPT ![p] = f]
  <2> DEFINE front == [phase |-> "front", front |-> None, orphan |-> FALSE,
                       disp |-> IF ~r[p].vnc THEN "off" ELSE IF pass[p] THEN "locked" ELSE "open"]
  <2>1. PICK f \in Free :
            /\ \/ vmm' = [vmm EXCEPT ![f] = front]
               \/ \E d \in Free \ {f} : vmm' = [vmm EXCEPT ![f] = front, ![d] = DaemonOf(front, f)]
            /\ child' = [child EXCEPT ![p] = f]
    BY <1>2
  <2>2. f \in Pid  BY DEF Free
  <2>3. front.phase = "front" /\ DaemonOf(front, f).phase = "init" /\ DaemonOf(front, f).front = f
    BY DEF DaemonOf
  <2> HIDE DEF front
  <2>4. CASE vmm' = [vmm EXCEPT ![f] = front]
    <3>1. vmm'[f].phase = "front" /\ \A q \in Pid \ {f} : vmm'[q] = vmm[q]
      BY <1>0, <2>2, <2>3, <2>4
    <3>2. QED  BY <1>1, <2>1, <3>1
  <2>5. ASSUME NEW d \in Free \ {f}, vmm' = [vmm EXCEPT ![f] = front, ![d] = DaemonOf(front, f)]
        PROVE  /\ Fronts'
               /\ pc'[p] = "wait" => child'[p] \in Pid /\ vmm'[child'[p]].phase = "front"
    <3>1. d \in Pid /\ d # f  BY DEF Free
    <3>2. /\ vmm'[f].phase = "front" /\ vmm'[d].phase = "init" /\ vmm'[d].front = f
          /\ \A q \in Pid \ {f, d} : vmm'[q] = vmm[q]
      BY <1>0, <2>2, <2>3, <2>5, <3>1
    <3>3. QED  BY <1>1, <2>1, <2>5, <3>2
  <2>6. QED  BY <2>1, <2>4, <2>5
<1>3. CASE UNCHANGED vmm /\ LaunchFails(p)
  <2>1. Fronts'  BY <1>3, SameFronts DEF SameBoots
  <2>2. pc'[p] # "wait"  BY <1>0, <1>3 DEF LaunchFails, Goto, Return
  <2>3. QED  BY <2>1, <2>2
<1>4. QED  BY <1>2, <1>3 DEF Exec

(* A launch knows its pid from readpid on.                                   *)
LEMMA StepPidKnown ==
    ASSUME TypeInv, PidKnown, NEW p \in Proc, Step(p),
           \/ pc'[p] \in {"setpass", "abort"}
           \/ pc'[p] \in {"proxy", "proxypid"} /\ ~repairing(p)'
    PROVE  r'[p].pid \in Pid
<1>0. /\ pc \in [Proc -> PC] /\ r \in [Proc -> Record \cup {None}]
      /\ DOMAIN op = Proc /\ DOMAIN was = Proc
  BY DEF TypeInv, ControlOK
<1>1. CASE ReadPid(p)
  <2>1. CASE LaunchFails(p)
    BY <1>0, <2>1 DEF LaunchFails, Goto, Return
  <2>2. CASE child[p] \in Live /\ r' = [r EXCEPT ![p].pid = child[p]]
    <3>1. r[p] \in Record  BY <1>1 DEF ReadPid, TypeInv, ControlOK, WithRecord, PC
    <3>2. r'[p] = [r[p] EXCEPT !.pid = child[p]]  BY <1>0, <2>2
    <3>3. r'[p].pid = child[p]  BY <3>1, <3>2 DEF Record
    <3>4. QED  BY <2>2, <3>3 DEF Live
  <2>3. QED  BY <1>1, <2>1, <2>2 DEF ReadPid
<1>2. CASE SetPass(p)
  <2>1. r' = r  BY <1>2 DEF SetPass, Keep, locals
  <2>2. QED  BY <1>2, <2>1 DEF SetPass, PidKnown
<1>3. CASE Proxy(p) \/ ProxyPid(p)
  <2>1. CASE Return(p, "err")
    BY <1>0, <2>1 DEF Return
  <2>2. CASE ~Return(p, "err")
    <3>1. r' = r /\ op' = op /\ was' = was
      BY <1>3, <2>2 DEF Proxy, ProxyPid, ProxyFails, Keep, locals
    <3>2. pc'[p] # "setpass" /\ (pc'[p] = "abort" => ~repairing(p))
      BY <1>0, <1>3 DEF Proxy, ProxyPid, ProxyFails, Goto, Return
    <3>3. QED  BY <1>3, <3>1, <3>2 DEF Proxy, ProxyPid, PidKnown, repairing
  <2>3. QED  BY <2>1, <2>2
<1>4. CASE Load(p)
  <2>1. ASSUME NEW rc, NEW running, Dispatch(p, rc, running) PROVE FALSE
    BY <1>0, <2>1 DEF Dispatch, Goto, Return, repairing
  <2>2. CASE rec = None \/ "corrupt" \in Faults
    BY <1>0, <1>4, <2>1, <2>2 DEF Load, Goto, Return
  <2>3. QED  BY <1>0, <1>4, <2>1, <2>2 DEF Load, Return
<1>5. CASE Scaffold(p) \/ Bake(p) \/ Provision(p) \/ Commit(p)
  BY <1>0, <1>5 DEF Scaffold, Bake, Provision, Commit, Goto, Return
<1>6. CASE \/ Launch(p) \/ Unproxy(p) \/ Presave(p) \/ Exec(p) \/ RunFailed(p)
           \/ Abort(p) \/ Postsave(p) \/ Unquiesce(p)
  BY <1>0, <1>6 DEF Launch, Unproxy, Presave, Exec, RunFailed, Abort, Postsave, Unquiesce,
                    LaunchFails, Goto, Return
<1>7. CASE \/ Kill(p) \/ KillProxy(p) \/ Quiesce(p) \/ StopSave(p) \/ Image(p) \/ ImgSave(p)
           \/ Teardown(p) \/ Reap(p) \/ Remove(p)
  BY <1>0, <1>7 DEF Kill, KillProxy, Quiesce, StopSave, Image, ImgSave, Teardown, Reap, Remove,
                    Goto, Return
<1>8. QED  BY <1>1, <1>2, <1>3, <1>4, <1>5, <1>6, <1>7 DEF Step

(* What a CLI waits for is there after its own steps,                        *)
LEMMA StepEnd == ASSUME EndInv, GateInv', NEW p \in Proc, Step(p) PROVE EndInv'
<1>0. pc[p] # "idle" /\ lock = p /\ None \notin Proc
  BY StepAt, NoneAssumption DEF EndInv, GateInv, Mutex
<1>1. Ended(p) \/ Onward(p)  BY StepOnward DEF EndInv, GateInv
<1>2. \A x \in Proc : x # p => pc'[x] = "idle"
  BY <1>0, <1>1 DEF Ended, Onward, GateInv, Mutex
<1>3. Fronts'
  <2>1. CASE SameBoots  BY <2>1, SameFronts DEF EndInv
  <2>2. CASE \E S \in SUBSET Pid : vmm' = Killed(S)
    BY <2>2, KilledFronts DEF EndInv, GateInv
  <2>3. CASE Exec(p)  BY <2>3, ExecFronts DEF EndInv, GateInv
  <2>4. QED  BY <2>1, <2>2, <2>3, StepTable DEF EndInv, GateInv
<1>4. Awaited'
  <2>1. SUFFICES ASSUME pc'[p] = "wait"
                 PROVE  child'[p] \in Pid /\ vmm'[child'[p]].phase = "front"
    BY <1>2 DEF Awaited
  <2>2. pc[p] = "exec"  BY <1>1, <2>1 DEF Ended, Onward
  <2>3. Exec(p)
    BY <2>2, StepAt
  <2>4. QED  BY <2>1, <2>3, ExecFronts DEF EndInv, GateInv
<1>5. Held'  BY <1>0, <1>1 DEF Ended, Onward, Held
<1>6. PidKnown'
  BY <1>2, StepPidKnown DEF EndInv, GateInv, PidKnown, repairing
<1>7. QED  BY <1>3, <1>4, <1>5, <1>6 DEF EndInv

(* A step that only moves a boot on, or ends QEMUs, and wakes the CLI that   *)
(* waits for the boot.                                                       *)
LEMMA BootEnd ==
    ASSUME EndInv, GateInv', Fronts', UNCHANGED <<lock, op, r, was>>,
           \A p \in Proc : \/ pc'[p] = pc[p] /\ child'[p] = child[p]
                           \/ pc[p] = "wait" /\ pc'[p] \in {"readpid", "runfailed"},
           \A p \in Proc : pc'[p] = "wait" => vmm'[child[p]] = vmm[child[p]]
    PROVE  EndInv'
<1>1. Awaited'  BY DEF EndInv, Awaited
<1>2. Held'  BY DEF EndInv, Held
<1>3. PidKnown'  BY DEF EndInv, PidKnown, repairing
<1>4. QED  BY <1>1, <1>2, <1>3 DEF EndInv

(* c.Run returns in the CLI that waits for f, and nowhere else.              *)
LEMMA WakeForms ==
    ASSUME NEW f, NEW l, NEW d, Wake(f, l, d), NEW p \in Proc
    PROVE  \/ pc'[p] = pc[p] /\ child'[p] = child[p] /\ ~(pc[p] = "wait" /\ child[p] = f)
           \/ pc[p] = "wait" /\ child[p] = f /\ pc'[p] = l[p]
<1> DEFINE waiting == {x \in Proc : pc[x] = "wait" /\ child[x] = f}
<1>1. /\ pc'[p] = IF p \in waiting THEN l[p] ELSE pc[p]
      /\ child'[p] = IF p \in waiting THEN d ELSE child[p]
  BY DEF Wake
<1>2. QED  BY <1>1

(* after the fork of its daemon,                                             *)
LEMMA ForkEnd == ASSUME EndInv, GateInv', NEW f \in Pid, QemuFork(f) PROVE EndInv'
<1>0. vmm \in [Pid -> VMM]  BY DEF EndInv, GateInv, TypeInv, DataOK
<1>1. PICK d \in Free : vmm' = [vmm EXCEPT ![d] = DaemonOf(vmm[f], f)]  BY DEF QemuFork
<1>2. d \in Pid /\ vmm[d].phase = "dead" /\ d # f  BY DEF QemuFork, Free, Live
<1>3. /\ vmm'[d].phase = "init" /\ vmm'[d].front = f
      /\ \A q \in Pid \ {d} : vmm'[q] = vmm[q]
  BY <1>0, <1>1, <1>2 DEF DaemonOf, VMM
<1>4. Fronts'
  <2>1. \A e \in Pid : vmm[e].phase = "init" =>
            e # d /\ vmm[e].front \in Pid \ {d} /\ vmm[e].front # f
    BY <1>2 DEF EndInv, Fronts, QemuFork, Forked
  <2>2. \A e \in Pid : vmm'[e].phase = "init" => e = d \/ (vmm'[e] = vmm[e] /\ e # d)
    BY <1>3
  <2>3. vmm'[f].phase = "front"  BY <1>2, <1>3 DEF QemuFork
  <2>4. \A e \in Pid : vmm[e].phase = "init" => vmm'[vmm[e].front].phase = "front"
    BY <1>3, <2>1 DEF EndInv, Fronts
  <2>5. \A e, g \in Pid : vmm[e].phase = "init" /\ vmm[g].phase = "init"
                          /\ vmm[e].front = vmm[g].front => e = g
    BY DEF EndInv, Fronts
  <2>6. QED  BY <1>3, <2>1, <2>2, <2>3, <2>4, <2>5 DEF Fronts
<1>5. \A p \in Proc : pc[p] = "wait" => child[p] \in Pid \ {d}
  BY <1>2 DEF EndInv, Awaited
<1>6. UNCHANGED <<lock, op, r, was, pc, child>>  BY DEF QemuFork, locals
<1>7. QED  BY <1>3, <1>4, <1>5, <1>6, BootEnd

(* the end of a boot,                                                        *)
LEMMA ReadyEnd == ASSUME EndInv, GateInv', NEW d \in Pid, QemuReady(d) PROVE EndInv'
<1> DEFINE f == vmm[d].front
<1>0. vmm \in [Pid -> VMM] /\ DOMAIN pc = Proc /\ DOMAIN child = Proc
  BY DEF EndInv, GateInv, TypeInv, DataOK, ControlOK
<1>1. f \in Pid /\ vmm[f].phase = "front" /\ f # d
  BY DEF EndInv, Fronts, QemuReady
<1>2. /\ vmm'[d].phase = "up" /\ vmm'[f] = Dead
      /\ \A q \in Pid \ {d, f} : vmm'[q] = vmm[q]
  BY <1>0, <1>1 DEF QemuReady, VMM
<1>3. Fronts'
  <2>0. \A e \in Pid : vmm'[e].phase = "init" => e \notin {d, f} /\ vmm'[e] = vmm[e]
    BY <1>2 DEF Dead
  <2>1. \A e \in Pid : vmm'[e].phase = "init" => e # d /\ vmm'[e] = vmm[e] /\ vmm[e].front # f
    <3>1. \A e \in Pid : vmm[e].phase = "init" /\ vmm[e].front = f => e = d
      BY DEF EndInv, Fronts, QemuReady
    <3>2. QED  BY <2>0, <3>1
  <2>2. \A e \in Pid : vmm'[e].phase = "init" => vmm[e].front \in Pid \ {d, f}
    BY <2>1 DEF EndInv, Fronts, QemuReady
  <2>3. QED  BY <1>2, <2>1, <2>2 DEF EndInv, Fronts
<1>4. /\ UNCHANGED <<lock, op, r, was>>
      /\ \A p \in Proc : \/ /\ pc'[p] = pc[p] /\ child'[p] = child[p]
                            /\ ~(pc[p] = "wait" /\ child[p] = f)
                         \/ pc[p] = "wait" /\ pc'[p] = "readpid"
  <2> DEFINE l == [p \in Proc |-> "readpid"]
  <2>1. Wake(f, l, d) /\ UNCHANGED <<lock, op, r, was>>
    BY DEF QemuReady
  <2>2. \A p \in Proc : l[p] = "readpid"  OBVIOUS
  <2> HIDE DEF l
  <2>3. QED  BY <2>1, <2>2, WakeForms
<1>5. \A p \in Proc : pc'[p] = "wait" => child[p] \in Pid \ {d, f}
  BY <1>4 DEF EndInv, Awaited, QemuReady
<1>6. QED  BY <1>2, <1>3, <1>4, <1>5, BootEnd

(* its failure,                                                              *)
LEMMA FailEnd == ASSUME EndInv, GateInv', NEW f \in Pid, QemuFail(f) PROVE EndInv'
<1>0. vmm \in [Pid -> VMM] /\ DOMAIN pc = Proc /\ DOMAIN child = Proc
  BY DEF EndInv, GateInv, TypeInv, DataOK, ControlOK
<1>1. \A q \in Pid : vmm'[q] = IF q = f \/ (vmm[q].phase = "init" /\ vmm[q].front = f)
                               THEN Dead ELSE vmm[q]
  BY DEF QemuFail
<1>2. Fronts'
  <2>1. \A e \in Pid : vmm'[e].phase = "init" => vmm'[e] = vmm[e] /\ vmm[e].front # f
    BY <1>1 DEF Dead
  <2>2. \A e \in Pid : vmm'[e].phase = "init" =>
            vmm[e].front \in Pid /\ vmm'[vmm[e].front] = vmm[vmm[e].front]
    BY <1>1, <2>1 DEF EndInv, Fronts
  <2>3. QED  BY <2>1, <2>2 DEF EndInv, Fronts
<1>3. /\ UNCHANGED <<lock, op, r, was>>
      /\ \A p \in Proc : \/ /\ pc'[p] = pc[p] /\ child'[p] = child[p]
                            /\ ~(pc[p] = "wait" /\ child[p] = f)
                         \/ pc[p] = "wait" /\ pc'[p] = "runfailed"
  <2> DEFINE l == [p \in Proc |-> "runfailed"]
  <2>1. Wake(f, l, None) /\ UNCHANGED <<lock, op, r, was>>
    BY DEF QemuFail
  <2>2. \A p \in Proc : l[p] = "runfailed"  OBVIOUS
  <2> HIDE DEF l
  <2>3. QED  BY <2>1, <2>2, WakeForms
<1>4. \A p \in Proc : pc'[p] = "wait" => vmm'[child[p]] = vmm[child[p]]
  BY <1>1, <1>3 DEF EndInv, Awaited
<1>5. QED  BY <1>2, <1>3, <1>4, BootEnd

(* the end of any other QEMU.                                                *)
LEMMA ExitEnd == ASSUME EndInv, GateInv', NEW d \in Pid, QemuExit(d) PROVE EndInv'
<1>0. vmm \in [Pid -> VMM]  BY DEF EndInv, GateInv, TypeInv, DataOK
<1>1. vmm'[d] = Dead /\ \A q \in Pid \ {d} : vmm'[q] = vmm[q]
  BY <1>0 DEF QemuExit
<1>2. Fronts'
  <2>1. \A e \in Pid : vmm'[e].phase = "init" =>
            vmm'[e] = vmm[e] /\ vmm[e].front \in Pid \ {d}
    BY <1>1 DEF Dead, EndInv, Fronts, QemuExit
  <2>2. QED  BY <1>1, <2>1 DEF EndInv, Fronts
<1>3. \A p \in Proc : pc[p] = "wait" => child[p] \in Pid \ {d}
  BY DEF EndInv, Awaited, QemuExit
<1>4. UNCHANGED <<lock, op, r, was, pc, child>>  BY DEF QemuExit, locals
<1>5. QED  BY <1>1, <1>2, <1>3, <1>4, BootEnd

(* No step of the system breaks the invariant.                               *)
LEMMA EndNext == EndInv /\ [Next]_vars => EndInv'
<1> SUFFICES ASSUME EndInv, [Next]_vars PROVE EndInv'  OBVIOUS
<1>0. GateInv' /\ None \notin Proc  BY GateNext, NoneAssumption DEF EndInv
<1>1. ASSUME NEW p \in Proc, Acquire(p) PROVE EndInv'
  <2>1. /\ pc \in [Proc -> PC] /\ \A q \in Proc : pc[q] = "idle"
    BY <1>0, <1>1 DEF EndInv, GateInv, TypeInv, ControlOK, Mutex, Acquire
  <2>2. /\ pc'[p] \in {"scaffold", "load"} /\ \A q \in Proc : q # p => pc'[q] = "idle"
    BY <1>1, <2>1 DEF Acquire
  <2>3. Fronts'  BY <1>1, SameFronts DEF EndInv, Acquire, host, SameBoots
  <2>4. QED
    BY <1>0, <1>1, <2>2, <2>3 DEF EndInv, Acquire, Awaited, Held, PidKnown
<1>2. ASSUME NEW p \in Proc, Crash(p) PROVE EndInv'
  <2>1. /\ pc \in [Proc -> PC] /\ \A q \in Proc : q # p => pc[q] = "idle"
    BY <1>0, <1>2 DEF EndInv, GateInv, TypeInv, ControlOK, Mutex, Crash
  <2>2. lock' = None /\ \A q \in Proc : pc'[q] = "idle"
    BY <1>2, <2>1 DEF Crash, Return
  <2>3. Fronts'  BY <1>2, SameFronts DEF EndInv, Crash, host, SameBoots
  <2>4. QED
    BY <1>0, <2>2, <2>3 DEF EndInv, Awaited, Held, PidKnown
<1>3. CASE Reboot
  <2>1. lock' = None /\ \A q \in Proc : pc'[q] = "idle"  BY <1>3 DEF Reboot
  <2>2. Fronts'  BY <1>3 DEF Reboot, Fronts, Dead
  <2>3. QED
    BY <1>0, <2>1, <2>2 DEF EndInv, Awaited, Held, PidKnown
<1>4. CASE ProxyExit \/ UNCHANGED vars
  <2>1. UNCHANGED <<lock, vmm, pc, op, r, was, child>>
    BY <1>4 DEF ProxyExit, vars, host, locals
  <2>2. Fronts'  BY <2>1, SameFronts DEF EndInv, SameBoots
  <2>3. QED  BY <1>0, <2>1, <2>2, BootEnd
<1>5. QED
  BY <1>0, <1>1, <1>2, <1>3, <1>4, StepEnd, ForkEnd, ReadyEnd, FailEnd, ExitEnd DEF Next, Boot

(* What a CLI waits for is on its way, whatever dies or fails.               *)
LEMMA EndCorrect == Spec => []EndInv
<1>1. Init => EndInv
  <2>1. Init => Fronts /\ Awaited /\ Held /\ PidKnown
    BY NoneAssumption DEF Init, Fronts, Awaited, Held, PidKnown, Dead
  <2>2. QED  BY <2>1, GateInit DEF EndInv
<1>2. QED  BY <1>1, EndNext, PTL DEF Spec

(* How many steps an operation has left, by where it is.                     *)
LEMMA LeftAt ==
    ASSUME TypeInv, NEW p \in Proc
    PROVE  /\ StepsLeft(p) \in 0..27
           /\ StepsLeft(p) = 0 <=> pc[p] = "idle"
           /\ pc[p] # "wait" => StepsLeft(p) = Turns(op[p])[pc[p]]
           /\ pc[p] = "wait" => StepsLeft(p) = IF Forked(child[p]) THEN 12 ELSE 13
<1>1. pc[p] \in PC  BY DEF TypeInv, ControlOK
<1>2. Turns(op[p])[pc[p]] \in 0..27 /\ (Turns(op[p])[pc[p]] = 0 <=> pc[p] = "idle")
  BY <1>1, TurnsBound
<1>3. Turns(op[p])["wait"] = 12  BY TurnsOf
<1>4. CASE pc[p] = "wait"  BY <1>2, <1>3, <1>4 DEF StepsLeft
<1>5. CASE pc[p] # "wait"  BY <1>2, <1>5 DEF StepsLeft
<1>6. QED  BY <1>4, <1>5

(* The same, in the state a step leads to.                                   *)
LEMMA LeftAfter ==
    ASSUME TypeInv', NEW p \in Proc
    PROVE  /\ pc'[p] # "wait" => StepsLeft(p)' = Turns(op'[p])[pc'[p]]
           /\ pc'[p] = "wait" => StepsLeft(p)' = IF Forked(child[p])' THEN 12 ELSE 13
<1>1. pc'[p] \in PC  BY DEF TypeInv, ControlOK
<1>2. Turns(op'[p])[pc'[p]] \in 0..27  BY <1>1, TurnsBound
<1>3. Turns(op'[p])["wait"] = 12  BY TurnsOf
<1>4. CASE pc'[p] = "wait"  BY <1>2, <1>3, <1>4 DEF StepsLeft
<1>5. CASE pc'[p] # "wait"  BY <1>2, <1>5 DEF StepsLeft
<1>6. QED  BY <1>4, <1>5

(* A CLI's step uses one up, or more; so does its death.                     *)
LEMMA StepUses ==
    ASSUME EndInv, TypeInv', NEW p \in Proc, Step(p) \/ Crash(p)
    PROVE  StepsLeft(p)' < StepsLeft(p)
<1>0. TypeInv  BY DEF EndInv, GateInv
<1>1. pc[p] # "idle" /\ (Step(p) => pc[p] # "wait")
  BY StepAt DEF Crash
<1>2. /\ StepsLeft(p) \in 0..27 /\ StepsLeft(p) # 0
      /\ Step(p) => StepsLeft(p) = Turns(op[p])[pc[p]]
  BY <1>0, <1>1, LeftAt
<1>3. CASE pc'[p] = "idle"
  <2>1. StepsLeft(p)' = 0  BY <1>3, LeftAfter, TurnsOf
  <2>2. QED  BY <1>2, <2>1
<1>4. CASE Step(p) /\ Onward(p)
  <2>1. CASE pc'[p] = "wait"
    <3>1. StepsLeft(p) = 14  BY <1>2, <1>4, <2>1, TurnsOf DEF Onward
    <3>2. StepsLeft(p)' \in {12, 13}  BY <2>1, LeftAfter
    <3>3. QED  BY <3>1, <3>2
  <2>2. CASE pc'[p] # "wait"
    BY <1>2, <1>4, <2>2, LeftAfter DEF Onward
  <2>3. QED  BY <2>1, <2>2
<1>5. QED
  BY <1>0, <1>3, <1>4, StepOnward, ReturnEnds DEF Ended, Crash

(* So does each step of the boot that c.Run waits for,                       *)
LEMMA BootUses ==
    ASSUME EndInv, TypeInv', NEW p \in Proc, pc[p] = "wait", BootOf(child[p])
    PROVE  StepsLeft(p)' < StepsLeft(p)
<1> DEFINE f == child[p]
<1>0. /\ TypeInv /\ vmm \in [Pid -> VMM] /\ f \in Pid /\ vmm[f].phase = "front"
  BY DEF EndInv, GateInv, TypeInv, DataOK, Awaited
<1>1. StepsLeft(p) = IF Forked(f) THEN 12 ELSE 13  BY <1>0, LeftAt
<1>2. CASE QemuFork(f)
  <2>1. ~Forked(f) /\ pc'[p] = "wait" /\ child'[p] = f
    BY <1>2 DEF QemuFork, locals
  <2>2. PICK d \in Free : vmm' = [vmm EXCEPT ![d] = DaemonOf(vmm[f], f)]  BY <1>2 DEF QemuFork
  <2>3. d \in Pid /\ vmm'[d].phase = "init" /\ vmm'[d].front = f
    BY <1>0, <2>2 DEF DaemonOf, VMM, Free
  <2>4. Forked(child[p])'  BY <2>1, <2>3 DEF Forked
  <2>5. QED  BY <1>1, <2>1, <2>4, LeftAfter
<1>3. ASSUME pc'[p] \in {"readpid", "runfailed"} PROVE StepsLeft(p)' < StepsLeft(p)
  <2>1. StepsLeft(p)' = 11  BY <1>3, LeftAfter, TurnsOf
  <2>2. QED  BY <1>1, <2>1
<1>4. CASE QemuFail(f)
  <2>1. pc'[p] = "runfailed"  BY <1>4 DEF QemuFail, Wake
  <2>2. QED  BY <1>3, <2>1
<1>5. ASSUME NEW d \in Pid, vmm[d].front = f, QemuReady(d) PROVE StepsLeft(p)' < StepsLeft(p)
  <2>1. pc'[p] = "readpid"  BY <1>5 DEF QemuReady, Wake
  <2>2. QED  BY <1>3, <2>1
<1>6. QED  BY <1>2, <1>4, <1>5 DEF BootOf

(* and a step of any other QEMU takes none back.                             *)
LEMMA OtherBoot ==
    ASSUME EndInv, TypeInv', NEW p \in Proc, pc'[p] = pc[p], op' = op, child'[p] = child[p],
           pc[p] = "wait" /\ Forked(child[p]) => Forked(child[p])'
    PROVE  StepsLeft(p)' <= StepsLeft(p)
<1>0. TypeInv  BY DEF EndInv, GateInv
<1>1. CASE pc[p] = "wait"
  <2>1. StepsLeft(p) = IF Forked(child[p]) THEN 12 ELSE 13  BY <1>0, <1>1, LeftAt
  <2>2. StepsLeft(p)' = IF Forked(child[p])' THEN 12 ELSE 13  BY <1>1, LeftAfter
  <2>3. QED  BY <1>1, <2>1, <2>2
<1>2. CASE pc[p] # "wait"
  <2>1. StepsLeft(p) = Turns(op[p])[pc[p]] /\ StepsLeft(p) \in 0..27  BY <1>0, <1>2, LeftAt
  <2>2. StepsLeft(p)' = Turns(op[p])[pc[p]]  BY <1>2, LeftAfter
  <2>3. QED  BY <2>1, <2>2
<1>3. QED  BY <1>1, <1>2

(* Whoever steps, an operation gets no more steps to do.                     *)
LEMMA NoMoreSteps ==
    ASSUME EndInv, GateInv', [Next]_vars, NEW p \in Proc, lock = p
    PROVE  StepsLeft(p)' <= StepsLeft(p)
<1>0. /\ TypeInv /\ TypeInv' /\ None \notin Proc /\ vmm \in [Pid -> VMM]
      /\ \A q \in Proc : q # p => pc[q] = "idle"
  BY NoneAssumption DEF EndInv, GateInv, TypeInv, DataOK, Mutex
<1>1. StepsLeft(p) \in 0..27  BY <1>0, LeftAt
<1>2. ASSUME StepsLeft(p)' < StepsLeft(p) PROVE StepsLeft(p)' <= StepsLeft(p)
  <2>1. StepsLeft(p)' \in Nat
    <3>1. pc'[p] = "wait" \/ StepsLeft(p)' = Turns(op'[p])[pc'[p]]  BY <1>0, LeftAfter
    <3>2. pc'[p] \in PC  BY <1>0 DEF TypeInv, ControlOK
    <3>3. QED  BY <1>0, <3>1, <3>2, LeftAfter, TurnsBound
  <2>2. QED  BY <1>1, <1>2, <2>1
<1>3. ASSUME NEW q \in Proc, Acquire(q) \/ Step(q) \/ Crash(q)
      PROVE  StepsLeft(p)' <= StepsLeft(p)
  <2>1. q = p /\ (Step(q) \/ Crash(q))
    BY <1>0, <1>3, StepAt DEF EndInv, Held, Acquire, Crash
  <2>2. QED  BY <1>0, <1>2, <2>1, StepUses
<1>4. ASSUME NEW f \in Pid, QemuFork(f) PROVE StepsLeft(p)' <= StepsLeft(p)
  <2>1. \A d \in Pid : vmm[d].phase = "init" => vmm'[d] = vmm[d]
    BY <1>0, <1>4 DEF QemuFork, Free, Live
  <2>2. QED  BY <1>0, <1>4, <2>1, OtherBoot DEF QemuFork, locals, Forked
<1>5. ASSUME NEW d \in Pid, QemuReady(d) PROVE StepsLeft(p)' <= StepsLeft(p)
  <2>1. CASE pc[p] = "wait" /\ child[p] = vmm[d].front
    BY <1>0, <1>2, <1>5, <2>1, BootUses DEF BootOf
  <2>2. CASE ~(pc[p] = "wait" /\ child[p] = vmm[d].front)
    <3>1. pc'[p] = pc[p] /\ child'[p] = child[p] /\ op' = op
      BY <1>5, <2>2 DEF QemuReady, Wake
    <3>2. \A e \in Pid : vmm[e].phase = "init" /\ vmm[e].front # vmm[d].front => vmm'[e] = vmm[e]
      BY <1>0, <1>5 DEF QemuReady, EndInv, Fronts
    <3>3. pc[p] = "wait" /\ Forked(child[p]) => Forked(child[p])'
      BY <2>2, <3>1, <3>2 DEF Forked
    <3>4. QED  BY <1>0, <3>1, <3>3, OtherBoot
  <2>3. QED  BY <2>1, <2>2
<1>6. ASSUME NEW f \in Pid, QemuFail(f) PROVE StepsLeft(p)' <= StepsLeft(p)
  <2>1. CASE pc[p] = "wait" /\ child[p] = f
    BY <1>0, <1>2, <1>6, <2>1, BootUses DEF BootOf
  <2>2. CASE ~(pc[p] = "wait" /\ child[p] = f)
    <3>1. pc'[p] = pc[p] /\ child'[p] = child[p] /\ op' = op
      BY <1>6, <2>2 DEF QemuFail, Wake
    <3>2. \A e \in Pid : vmm[e].phase = "init" /\ vmm[e].front # f => vmm'[e] = vmm[e]
      BY <1>6 DEF QemuFail
    <3>3. pc[p] = "wait" /\ Forked(child[p]) => Forked(child[p])'
      BY <2>2, <3>1, <3>2 DEF Forked
    <3>4. QED  BY <1>0, <3>1, <3>3, OtherBoot
  <2>3. QED  BY <2>1, <2>2
<1>7. ASSUME NEW d \in Pid, QemuExit(d) PROVE StepsLeft(p)' <= StepsLeft(p)
  <2>1. \A e \in Pid : vmm[e].phase = "init" => vmm'[e] = vmm[e]
    BY <1>0, <1>7 DEF QemuExit
  <2>2. QED  BY <1>0, <1>7, <2>1, OtherBoot DEF QemuExit, locals, Forked
<1>8. CASE Reboot
  <2>1. pc'[p] = "idle"  BY <1>8 DEF Reboot
  <2>2. StepsLeft(p)' = 0  BY <1>0, <2>1, LeftAfter, TurnsOf
  <2>3. QED  BY <1>1, <2>2
<1>9. CASE ProxyExit \/ UNCHANGED vars
  BY <1>0, <1>9, OtherBoot DEF ProxyExit, vars, host, locals, Forked
<1>10. QED
  BY <1>3, <1>4, <1>5, <1>6, <1>7, <1>8, <1>9 DEF Next, Boot

(* The safety half of Returns: the flock is held exactly while an operation  *)
(* runs; c.Run, which no context bounds, always has a boot to wait for; the  *)
(* whole takes at most 27 steps of the CLI and of that boot, each of them    *)
(* uses one up, and nothing the host or another CLI does gives one back.     *)
THEOREM OperationsAreBounded ==
    Spec => /\ [](\A p \in Proc : /\ lock = p <=> pc[p] # "idle"
                                  /\ StepsLeft(p) \in 0..27
                                  /\ StepsLeft(p) = 0 <=> pc[p] = "idle"
                                  /\ pc[p] = "wait" => vmm[child[p]].phase = "front")
            /\ [][\A p \in Proc : lock = p =>
                    /\ StepsLeft(p)' <= StepsLeft(p)
                    /\ Own(p) => StepsLeft(p)' < StepsLeft(p)]_vars
<1>1. EndInv => \A p \in Proc : /\ lock = p <=> pc[p] # "idle"
                                /\ StepsLeft(p) \in 0..27
                                /\ StepsLeft(p) = 0 <=> pc[p] = "idle"
                                /\ pc[p] = "wait" => vmm[child[p]].phase = "front"
  BY LeftAt DEF EndInv, GateInv, Mutex, Held, Awaited
<1>2. EndInv /\ [Next]_vars =>
        [\A p \in Proc : lock = p => /\ StepsLeft(p)' <= StepsLeft(p)
                                     /\ Own(p) => StepsLeft(p)' < StepsLeft(p)]_vars
  <2> SUFFICES ASSUME EndInv, [Next]_vars, NEW p \in Proc, lock = p
               PROVE  /\ StepsLeft(p)' <= StepsLeft(p)
                      /\ Own(p) => StepsLeft(p)' < StepsLeft(p)
    OBVIOUS
  <2>1. GateInv' /\ TypeInv'  BY GateNext DEF EndInv, GateInv
  <2>2. QED  BY <2>1, NoMoreSteps, StepUses, BootUses DEF Own
<1>3. QED  BY <1>1, <1>2, EndCorrect, PTL DEF Spec
=============================================================================
