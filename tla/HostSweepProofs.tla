--------------------------- MODULE HostSweepProofs ---------------------------
(***************************************************************************)
(* Theorems about HostSweep, for any number of VMs, CLIs and devices, any  *)
(* operations and any faults: what a sweep may take and what it must take, *)
(* that no CLI waits in a circle, and that a call only gets nearer to its  *)
(* end.                                                                    *)
(*                                                                         *)
(* SweepInv is inductive.  It says what each flock protects while a CLI    *)
(* holds it, whose device is whose, and what a sweep knows of the root it  *)
(* has locked.  WaitInv adds who may hold a flock, and in which order.     *)
(***************************************************************************)
EXTENDS HostSweep, TLAPS

-----------------------------------------------------------------------------
(* Positions                                                                 *)

Making == {"rlock", "scaffold", "clear", "mkdir", "mark", "provision", "commit", "undonet", "undodir"}
Removing == {"rm", "teardown", "rmmark", "rmdir"}
AtVM == Making \cup Removing \cup {"launch", "recover"}
Provisioning == {"scaffold", "clear", "mkdir", "mark", "provision", "commit"}
Sweeping == {"list", "vms", "strays", "devs"}
Collecting == {"strays", "devs"}

-----------------------------------------------------------------------------
(* What the flocks guarantee.                                                *)

(* An operation is where its command line has sent it.                       *)
Course(p) ==
    /\ op[p] = "gc" => pc[p] \in Sweeping \cup {"gc"}
    /\ pc[p] \in Sweeping \cup {"gc"} => op[p] = "gc"
    /\ pc[p] = "lock" => nm[p] \in Name /\ op[p] \in AllOps \ {"gc"}
    /\ pc[p] \in Making => op[p] \in {"create", "run", "clone"}
    /\ pc[p] = "launch" => op[p] \in {"run", "start"}
    /\ pc[p] = "recover" => op[p] = "start"

Locking(p) ==
    /\ pc[p] \in AtVM => nm[p] \in Name /\ vlock[nm[p]] = p
    /\ pc[p] \in Provisioning => p \in gcs
    /\ pc[p] \in Sweeping => gcx = p
    /\ pc[p] = "vms" => todo[p] \subseteq seen[p] /\ \A n \in seen[p] \ todo[p] : vlock[n] = p
    /\ pc[p] \in Collecting => todo[p] \subseteq seen[p] /\ \A n \in seen[p] : vlock[n] = p

GcExclusive == gcx # None => gcs = {}

-----------------------------------------------------------------------------
(* Whose device is whose.                                                    *)

(* The VMID a CLI provisions is its own until a record has it; without the   *)
(* gc flock only run still has one, that of its record.                      *)
Owning(p) ==
    id[p] # None =>
        /\ pc[p] \in {"commit", "launch", "undonet", "undodir"}
        /\ \A q \in Proc : id[q] = id[p] => q = p
        /\ \A n \in Name : rec[n] = id[p] => n = nm[p]
        /\ p \in gcs \/ rec[nm[p]] = id[p]

OneRecord == \A m, n \in Name : rec[m] # None /\ rec[m] = rec[n] => m = n

-----------------------------------------------------------------------------
(* What an operation knows of its VM.                                        *)

Working(p) ==
    /\ pc[p] \in Provisioning \ {"scaffold"} => rec[nm[p]] = None
    /\ pc[p] \in {"mark", "provision", "commit"} => dir[nm[p]]
    /\ pc[p] = "commit" => id[p] \in dev
    /\ pc[p] = "launch" => rec[nm[p]] \in dev /\ ~live[nm[p]]
    /\ pc[p] \in {"teardown", "rmmark", "rmdir"} => ~live[nm[p]]
    /\ pc[p] \in {"teardown", "rmmark", "rmdir"} => dir[nm[p]]
    /\ pc[p] = "teardown" => rec[nm[p]] # None

(* The root is marked before evidence of a VM goes or a device comes.        *)
Marking(p) ==
    /\ pc[p] \in {"clear", "provision", "commit", "undonet", "rmdir"} => marker
    /\ pc[p] = "launch" /\ op[p] = "run" => marker
    /\ pc[p] = "undodir" => marker \/ rec[nm[p]] = None

Evidence == marker \/ \E n \in Name : rec[n] # None
Unrecorded == {i \in dev : \A n \in Name : rec[n] # i}

Leaks == Unrecorded # {} => Evidence

(* What a sweep has seen stays so until it ends.                             *)
Surveyed(p) ==
    /\ pc[p] \in {"vms"} \cup Collecting => \A n \in Name : dir[n] => n \in seen[p]
    /\ pc[p] \in Collecting => \A i \in cand[p], n \in Name : rec[n] # i
    /\ pc[p] \in Collecting /\ ok[p] /\ (marker \/ \E n \in Name : dir[n])
         => Unrecorded \subseteq cand[p]

SweepInv ==
    /\ TypeOK
    /\ \A p \in Proc : Course(p) /\ Locking(p) /\ Owning(p) /\ Working(p) /\ Marking(p) /\ Surveyed(p)
    /\ GcExclusive /\ OneRecord /\ Leaks
    /\ \A n \in Name : rec[n] # None => dir[n]
    /\ \A n \in Name : live[n] => rec[n] # None

-----------------------------------------------------------------------------
(* Types.  The two usual ends of a step, going on and returning, keep those  *)
(* of the control state.                                                     *)

RootTypes ==
    /\ dir \in [Name -> BOOLEAN] /\ rec \in [Name -> Id \cup {None}] /\ marker \in BOOLEAN
    /\ live \in [Name -> BOOLEAN] /\ dev \subseteq Id

ControlTypes ==
    /\ vlock \in [Name -> Proc \cup {None}] /\ gcx \in Proc \cup {None} /\ gcs \subseteq Proc
    /\ pc \in [Proc -> PC] /\ op \in [Proc -> AllOps \cup {"none"}]
    /\ nm \in [Proc -> Name \cup {None}] /\ src \in [Proc -> Name \cup {None}]
    /\ id \in [Proc -> Id \cup {None}] /\ seen \in [Proc -> SUBSET Name]
    /\ todo \in [Proc -> SUBSET Name] /\ cand \in [Proc -> SUBSET Id] /\ ok \in [Proc -> BOOLEAN]

(* TypeOK is the types of the root and the host, and of the control state.   *)
LEMMA TypeParts == TypeOK <=> RootTypes /\ ControlTypes
  BY DEF TypeOK, RootTypes, ControlTypes

(* The same after a step.                                                    *)
LEMMA TypePartsNext == RootTypes' /\ ControlTypes' => TypeOK'
  BY DEF TypeOK, RootTypes, ControlTypes

(* Going on to the next position.                                            *)
LEMMA GotoTypes ==
    ASSUME ControlTypes, NEW p \in Proc, NEW l \in PC, Goto(p, l), UNCHANGED <<locks, locals>>
    PROVE  ControlTypes'
  BY DEF ControlTypes, Goto, locks, locals

(* The deferred Unlocks.                                                     *)
LEMMA ReturnTypes ==
    ASSUME ControlTypes, NEW p \in Proc, NEW result \in BOOLEAN, Return(p, result)
    PROVE  ControlTypes'
  BY DEF ControlTypes, Return, Goto, PC

-----------------------------------------------------------------------------
(* What the holder of a VM's flock may rely on: no other operation and no    *)
(* sweep is at that VM.                                                      *)
LEMMA HoldsVM ==
    ASSUME SweepInv, NEW p \in Proc, pc[p] \in AtVM
    PROVE  /\ nm[p] \in Name /\ vlock[nm[p]] = p
           /\ \A q \in Proc : pc[q] \in AtVM /\ nm[q] = nm[p] => q = p
           /\ \A q \in Proc : pc[q] \in Collecting => nm[p] \notin seen[q]
           /\ \A q \in Proc : pc[q] = "vms" => nm[p] \notin seen[q] \ todo[q]
  BY DEF SweepInv, Locking, AtVM, Making, Removing, Collecting

(* What a CLI that provisions may rely on: there is no sweep.                *)
LEMMA NoSweep ==
    ASSUME SweepInv, NEW p \in Proc, p \in gcs
    PROVE  \A q \in Proc : pc[q] \notin Sweeping
  BY NoneAssumption DEF SweepInv, Locking, GcExclusive

(* What a sweep may rely on: there is no other, and nobody provisions.       *)
LEMMA SweepsAlone ==
    ASSUME SweepInv, NEW p \in Proc, pc[p] \in Sweeping
    PROVE  /\ gcx = p /\ gcs = {}
           /\ \A q \in Proc : pc[q] \in Sweeping => q = p
           /\ \A q \in Proc : pc[q] \notin Provisioning
           /\ \A q \in Proc : id[q] # None => rec[nm[q]] = id[q]
  BY NoneAssumption DEF SweepInv, Locking, GcExclusive, Owning

-----------------------------------------------------------------------------
(* One lemma per action, one step per part of the invariant.                 *)

USE DEF Making, Removing, AtVM, Provisioning, Sweeping, Collecting

(* A CLI is invoked; it holds nothing yet.                                   *)
LEMMA CallInv == ASSUME SweepInv, NEW p \in Proc, Call(p) PROVE SweepInv'
<1> USE DEF Call, Goto, Return, locks, root, host, locals
<1>1. TypeOK'
  <2> HIDE DEF Goto, Return
  <2>1. RootTypes'
    BY TypeParts DEF SweepInv, RootTypes
  <2>2. ControlTypes'
    BY OpsAssumption, TypeParts DEF SweepInv, ControlTypes, RootTypes, PC, Goto, AllOps
  <2> QED
    BY <2>1, <2>2, TypePartsNext
<1>2. ASSUME NEW q \in Proc PROVE Course(q)'
  BY OpsAssumption DEF SweepInv, TypeOK, Course, AllOps
<1>3. ASSUME NEW q \in Proc PROVE Locking(q)'
  BY DEF SweepInv, TypeOK, Course, Locking
<1>4. ASSUME NEW q \in Proc PROVE Owning(q)'
  BY NoneAssumption DEF SweepInv, TypeOK, Locking, Owning
<1>5. ASSUME NEW q \in Proc PROVE Working(q)'
  BY NoneAssumption DEF SweepInv, TypeOK, Locking, Owning, Working
<1>6. ASSUME NEW q \in Proc PROVE Marking(q)'
  BY NoneAssumption DEF SweepInv, TypeOK, Locking, Owning, Working, Marking
<1>7. ASSUME NEW q \in Proc PROVE Surveyed(q)'
  BY NoneAssumption DEF SweepInv, TypeOK, Locking, Owning, Working, Surveyed, Unrecorded
<1>8. GcExclusive' /\ OneRecord'
  BY NoneAssumption DEF SweepInv, TypeOK, Locking, Owning, GcExclusive, OneRecord
<1>9. Leaks'
  BY NoneAssumption DEF SweepInv, TypeOK, Marking, Leaks, Evidence, Unrecorded
<1>10. (\A m \in Name : rec[m] # None => dir[m])'
  BY NoneAssumption DEF SweepInv, TypeOK, Locking, Working
<1>11. (\A m \in Name : live[m] => rec[m] # None)'
  BY NoneAssumption DEF SweepInv, TypeOK, Locking, Owning, Working
<1> QED
  BY <1>1, <1>2, <1>3, <1>4, <1>5, <1>6, <1>7, <1>8, <1>9, <1>10, <1>11 DEF SweepInv

(* withVMLocks: a flock that nobody held protects nothing yet.               *)
LEMMA LockVMInv == ASSUME SweepInv, NEW p \in Proc, LockVM(p) PROVE SweepInv'
<1> USE DEF LockVM, Goto, Return, locks, root, host, locals
<1>1. TypeOK'
  <2> HIDE DEF Goto, Return
  <2>1. RootTypes'
    BY TypeParts DEF SweepInv, RootTypes
  <2>2. ControlTypes'
    BY TypeParts, GotoTypes, ReturnTypes DEF SweepInv, ControlTypes, RootTypes, PC
  <2> QED
    BY <2>1, <2>2, TypePartsNext
<1>2. ASSUME NEW q \in Proc PROVE Course(q)'
  BY DEF SweepInv, TypeOK, Course, AllOps
<1>3. ASSUME NEW q \in Proc PROVE Locking(q)'
  BY NoneAssumption DEF SweepInv, TypeOK, Course, Locking
<1>4. ASSUME NEW q \in Proc PROVE Owning(q)'
  BY NoneAssumption DEF SweepInv, TypeOK, Locking, Owning
<1>5. ASSUME NEW q \in Proc PROVE Working(q)'
  BY NoneAssumption DEF SweepInv, TypeOK, Locking, Owning, Working
<1>6. ASSUME NEW q \in Proc PROVE Marking(q)'
  BY NoneAssumption DEF SweepInv, TypeOK, Locking, Owning, Working, Marking
<1>7. ASSUME NEW q \in Proc PROVE Surveyed(q)'
  BY NoneAssumption DEF SweepInv, TypeOK, Locking, Owning, Working, Surveyed, Unrecorded
<1>8. GcExclusive' /\ OneRecord'
  BY NoneAssumption DEF SweepInv, TypeOK, Locking, Owning, GcExclusive, OneRecord
<1>9. Leaks'
  BY NoneAssumption DEF SweepInv, TypeOK, Marking, Leaks, Evidence, Unrecorded
<1>10. (\A m \in Name : rec[m] # None => dir[m])'
  BY NoneAssumption DEF SweepInv, TypeOK, Locking, Working
<1>11. (\A m \in Name : live[m] => rec[m] # None)'
  BY NoneAssumption DEF SweepInv, TypeOK, Locking, Owning, Working
<1> QED
  BY <1>1, <1>2, <1>3, <1>4, <1>5, <1>6, <1>7, <1>8, <1>9, <1>10, <1>11 DEF SweepInv

(* The locks are held: the operation begins on what they protect.            *)
LEMMA LockedInv == ASSUME SweepInv, NEW p \in Proc, Locked(p) PROVE SweepInv'
<1> USE DEF Goto, Return, locks, root, host, locals
<1>a. \/ Return(p, FALSE)
      \/ /\ Goto(p, pc'[p]) /\ UNCHANGED <<locks, locals>>
         /\ nm[p] \in Name /\ vlock[nm[p]] = p
         /\ \/ pc'[p] = "rlock" /\ op[p] \in {"create", "run", "clone"}
            \/ pc'[p] = "recover" /\ op[p] = "start"
            \/ pc'[p] = "rm"
  BY DEF Locked, SweepInv, TypeOK, Course, Missing, Wanted, AllOps
<1>b. pc[p] = "lock" /\ UNCHANGED <<root, host>>
  BY DEF Locked
<1>1. TypeOK'
  <2> HIDE DEF Goto, Return
  <2>1. RootTypes'
    BY <1>a, <1>b, TypeParts DEF SweepInv, RootTypes
  <2>2. ControlTypes'
    BY <1>a, <1>b, <1>a, TypeParts, GotoTypes, ReturnTypes DEF SweepInv, PC
  <2> QED
    BY <1>a, <1>b, <2>1, <2>2, TypePartsNext
<1>2. ASSUME NEW q \in Proc PROVE Course(q)'
  BY <1>a, <1>b DEF SweepInv, TypeOK, Course, AllOps
<1>3. ASSUME NEW q \in Proc PROVE Locking(q)'
  BY <1>a, <1>b DEF SweepInv, TypeOK, Course, Locking
<1>4. ASSUME NEW q \in Proc PROVE Owning(q)'
  BY <1>a, <1>b, NoneAssumption DEF SweepInv, TypeOK, Locking, Owning
<1>5. ASSUME NEW q \in Proc PROVE Working(q)'
  BY <1>a, <1>b, NoneAssumption DEF SweepInv, TypeOK, Locking, Owning, Working
<1>6. ASSUME NEW q \in Proc PROVE Marking(q)'
  BY <1>a, <1>b, NoneAssumption DEF SweepInv, TypeOK, Locking, Owning, Working, Marking
<1>7. ASSUME NEW q \in Proc PROVE Surveyed(q)'
  BY SMTT(30), <1>a, <1>b, NoneAssumption DEF SweepInv, TypeOK, Locking, Owning, Working, Surveyed, Unrecorded
<1>8. GcExclusive' /\ OneRecord'
  BY <1>a, <1>b, NoneAssumption DEF SweepInv, TypeOK, Locking, Owning, GcExclusive, OneRecord
<1>9. Leaks'
  BY <1>a, <1>b, NoneAssumption DEF SweepInv, TypeOK, Marking, Leaks, Evidence, Unrecorded
<1>10. (\A m \in Name : rec[m] # None => dir[m])'
  BY <1>a, <1>b, NoneAssumption DEF SweepInv, TypeOK, Locking, Working
<1>11. (\A m \in Name : live[m] => rec[m] # None)'
  BY <1>a, <1>b, NoneAssumption DEF SweepInv, TypeOK, Locking, Owning, Working
<1> QED
  BY <1>1, <1>2, <1>3, <1>4, <1>5, <1>6, <1>7, <1>8, <1>9, <1>10, <1>11 DEF SweepInv

(* withProvisionLock: no sweep has the gc flock.                             *)
LEMMA ProvisionLockInv == ASSUME SweepInv, NEW p \in Proc, ProvisionLock(p) PROVE SweepInv'
<1> USE DEF ProvisionLock, Goto, Return, locks, root, host, locals
<1>1. TypeOK'
  <2> HIDE DEF Goto, Return
  <2>1. RootTypes'
    BY TypeParts DEF SweepInv, RootTypes
  <2>2. ControlTypes'
    BY TypeParts DEF SweepInv, ControlTypes, RootTypes, PC, Goto
  <2> QED
    BY <2>1, <2>2, TypePartsNext
<1>2. ASSUME NEW q \in Proc PROVE Course(q)'
  BY DEF SweepInv, TypeOK, Course, AllOps
<1>3. ASSUME NEW q \in Proc PROVE Locking(q)'
  BY DEF SweepInv, TypeOK, Course, Locking
<1>4. ASSUME NEW q \in Proc PROVE Owning(q)'
  BY NoneAssumption DEF SweepInv, TypeOK, Locking, Owning
<1>5. ASSUME NEW q \in Proc PROVE Working(q)'
  BY NoneAssumption DEF SweepInv, TypeOK, Locking, Owning, Working
<1>6. ASSUME NEW q \in Proc PROVE Marking(q)'
  BY NoneAssumption DEF SweepInv, TypeOK, Locking, Owning, Working, Marking
<1>7. ASSUME NEW q \in Proc PROVE Surveyed(q)'
  BY NoneAssumption DEF SweepInv, TypeOK, Locking, Owning, Working, Surveyed, Unrecorded
<1>8. GcExclusive' /\ OneRecord'
  BY NoneAssumption DEF SweepInv, TypeOK, Locking, Owning, GcExclusive, OneRecord
<1>9. Leaks'
  BY NoneAssumption DEF SweepInv, TypeOK, Marking, Leaks, Evidence, Unrecorded
<1>10. (\A m \in Name : rec[m] # None => dir[m])'
  BY NoneAssumption DEF SweepInv, TypeOK, Locking, Working
<1>11. (\A m \in Name : live[m] => rec[m] # None)'
  BY NoneAssumption DEF SweepInv, TypeOK, Locking, Owning, Working
<1> QED
  BY <1>1, <1>2, <1>3, <1>4, <1>5, <1>6, <1>7, <1>8, <1>9, <1>10, <1>11 DEF SweepInv

(* scaffoldVM goes on only without a record, and marks the root.             *)
LEMMA ScaffoldInv == ASSUME SweepInv, NEW p \in Proc, Scaffold(p) PROVE SweepInv'
<1> USE DEF Scaffold, Goto, Return, locks, root, host, locals
<1>1. TypeOK'
  <2> HIDE DEF Goto, Return
  <2>1. RootTypes'
    BY TypeParts DEF SweepInv, RootTypes
  <2>2. ControlTypes'
    BY TypeParts, GotoTypes, ReturnTypes DEF SweepInv, ControlTypes, RootTypes, PC
  <2> QED
    BY <2>1, <2>2, TypePartsNext
<1>2. ASSUME NEW q \in Proc PROVE Course(q)'
  BY DEF SweepInv, TypeOK, Course, AllOps
<1>3. ASSUME NEW q \in Proc PROVE Locking(q)'
  BY DEF SweepInv, TypeOK, Course, Locking
<1>4. ASSUME NEW q \in Proc PROVE Owning(q)'
  BY NoneAssumption DEF SweepInv, TypeOK, Locking, Owning
<1>5. ASSUME NEW q \in Proc PROVE Working(q)'
  BY NoneAssumption DEF SweepInv, TypeOK, Locking, Owning, Working
<1>6. ASSUME NEW q \in Proc PROVE Marking(q)'
  BY NoneAssumption DEF SweepInv, TypeOK, Locking, Owning, Working, Marking
<1>7. ASSUME NEW q \in Proc PROVE Surveyed(q)'
  BY SMTT(30), NoneAssumption DEF SweepInv, TypeOK, Locking, Owning, Working, Surveyed, Unrecorded
<1>8. GcExclusive' /\ OneRecord'
  BY NoneAssumption DEF SweepInv, TypeOK, Locking, Owning, GcExclusive, OneRecord
<1>9. Leaks'
  BY NoneAssumption DEF SweepInv, TypeOK, Marking, Leaks, Evidence, Unrecorded
<1>10. (\A m \in Name : rec[m] # None => dir[m])'
  BY NoneAssumption DEF SweepInv, TypeOK, Locking, Working
<1>11. (\A m \in Name : live[m] => rec[m] # None)'
  BY NoneAssumption DEF SweepInv, TypeOK, Locking, Owning, Working
<1> QED
  BY <1>1, <1>2, <1>3, <1>4, <1>5, <1>6, <1>7, <1>8, <1>9, <1>10, <1>11 DEF SweepInv

(* resetIncompleteVMDir removes a stray dir of a marked root.                *)
LEMMA ClearInv == ASSUME SweepInv, NEW p \in Proc, Clear(p) PROVE SweepInv'
<1> USE DEF Clear, Goto, Return, locks, root, host, locals
<1>1. TypeOK'
  <2> HIDE DEF Goto, Return
  <2>1. RootTypes'
    BY TypeParts DEF SweepInv, RootTypes
  <2>2. ControlTypes'
    BY TypeParts, GotoTypes, ReturnTypes DEF SweepInv, ControlTypes, RootTypes, PC
  <2> QED
    BY <2>1, <2>2, TypePartsNext
<1>2. ASSUME NEW q \in Proc PROVE Course(q)'
  BY DEF SweepInv, TypeOK, Course, AllOps
<1>3. ASSUME NEW q \in Proc PROVE Locking(q)'
  BY DEF SweepInv, TypeOK, Course, Locking
<1>4. ASSUME NEW q \in Proc PROVE Owning(q)'
  BY NoneAssumption DEF SweepInv, TypeOK, Locking, Owning
<1>5. ASSUME NEW q \in Proc PROVE Working(q)'
  BY NoneAssumption DEF SweepInv, TypeOK, Locking, Owning, Working
<1>6. ASSUME NEW q \in Proc PROVE Marking(q)'
  BY NoneAssumption DEF SweepInv, TypeOK, Locking, Owning, Working, Marking
<1>7. ASSUME NEW q \in Proc PROVE Surveyed(q)'
  BY NoneAssumption DEF SweepInv, TypeOK, Locking, Owning, Working, Surveyed, Unrecorded
<1>8. GcExclusive' /\ OneRecord'
  BY NoneAssumption DEF SweepInv, TypeOK, Locking, Owning, GcExclusive, OneRecord
<1>9. Leaks'
  BY NoneAssumption DEF SweepInv, TypeOK, Marking, Leaks, Evidence, Unrecorded
<1>10. (\A m \in Name : rec[m] # None => dir[m])'
  BY NoneAssumption DEF SweepInv, TypeOK, Locking, Working
<1>11. (\A m \in Name : live[m] => rec[m] # None)'
  BY NoneAssumption DEF SweepInv, TypeOK, Locking, Owning, Working
<1> QED
  BY <1>1, <1>2, <1>3, <1>4, <1>5, <1>6, <1>7, <1>8, <1>9, <1>10, <1>11 DEF SweepInv

(* scaffoldVM makes the dir under the VM and the gc flock.                   *)
LEMMA MkdirInv == ASSUME SweepInv, NEW p \in Proc, Mkdir(p) PROVE SweepInv'
<1> USE DEF Mkdir, Goto, Return, locks, root, host, locals
<1>1. TypeOK'
  <2> HIDE DEF Goto, Return
  <2>1. RootTypes'
    BY TypeParts DEF SweepInv, RootTypes
  <2>2. ControlTypes'
    BY ZenonT(60), TypeParts, GotoTypes, ReturnTypes DEF SweepInv, ControlTypes, RootTypes, PC
  <2> QED
    BY <2>1, <2>2, TypePartsNext
<1>2. ASSUME NEW q \in Proc PROVE Course(q)'
  BY DEF SweepInv, TypeOK, Course, AllOps
<1>3. ASSUME NEW q \in Proc PROVE Locking(q)'
  BY DEF SweepInv, TypeOK, Course, Locking
<1>4. ASSUME NEW q \in Proc PROVE Owning(q)'
  BY NoneAssumption DEF SweepInv, TypeOK, Locking, Owning
<1>5. ASSUME NEW q \in Proc PROVE Working(q)'
  BY NoneAssumption DEF SweepInv, TypeOK, Locking, Owning, Working
<1>6. ASSUME NEW q \in Proc PROVE Marking(q)'
  BY NoneAssumption DEF SweepInv, TypeOK, Locking, Owning, Working, Marking
<1>7. ASSUME NEW q \in Proc PROVE Surveyed(q)'
  BY NoSweep DEF SweepInv, TypeOK, Locking, Surveyed
<1>8. GcExclusive' /\ OneRecord'
  BY NoneAssumption DEF SweepInv, TypeOK, Locking, Owning, GcExclusive, OneRecord
<1>9. Leaks'
  BY NoneAssumption DEF SweepInv, TypeOK, Marking, Leaks, Evidence, Unrecorded
<1>10. (\A m \in Name : rec[m] # None => dir[m])'
  BY NoneAssumption DEF SweepInv, TypeOK, Locking, Working
<1>11. (\A m \in Name : live[m] => rec[m] # None)'
  BY NoneAssumption DEF SweepInv, TypeOK, Locking, Owning, Working
<1> QED
  BY <1>1, <1>2, <1>3, <1>4, <1>5, <1>6, <1>7, <1>8, <1>9, <1>10, <1>11 DEF SweepInv

(* applyNet marks the root.                                                  *)
LEMMA MarkRootInv == ASSUME SweepInv, NEW p \in Proc, MarkRoot(p) PROVE SweepInv'
<1> USE DEF MarkRoot, Goto, Return, locks, root, host, locals
<1>1. TypeOK'
  <2> HIDE DEF Goto, Return
  <2>1. RootTypes'
    BY TypeParts DEF SweepInv, RootTypes
  <2>2. ControlTypes'
    BY TypeParts, GotoTypes, ReturnTypes DEF SweepInv, ControlTypes, RootTypes, PC
  <2> QED
    BY <2>1, <2>2, TypePartsNext
<1>2. ASSUME NEW q \in Proc PROVE Course(q)'
  BY DEF SweepInv, TypeOK, Course, AllOps
<1>3. ASSUME NEW q \in Proc PROVE Locking(q)'
  BY DEF SweepInv, TypeOK, Course, Locking
<1>4. ASSUME NEW q \in Proc PROVE Owning(q)'
  BY NoneAssumption DEF SweepInv, TypeOK, Locking, Owning
<1>5. ASSUME NEW q \in Proc PROVE Working(q)'
  BY NoneAssumption DEF SweepInv, TypeOK, Locking, Owning, Working
<1>6. ASSUME NEW q \in Proc PROVE Marking(q)'
  BY NoneAssumption DEF SweepInv, TypeOK, Locking, Owning, Working, Marking
<1>7. ASSUME NEW q \in Proc PROVE Surveyed(q)'
  BY NoneAssumption DEF SweepInv, TypeOK, Locking, Owning, Working, Surveyed, Unrecorded
<1>8. GcExclusive' /\ OneRecord'
  BY NoneAssumption DEF SweepInv, TypeOK, Locking, Owning, GcExclusive, OneRecord
<1>9. Leaks'
  BY NoneAssumption DEF SweepInv, TypeOK, Marking, Leaks, Evidence, Unrecorded
<1>10. (\A m \in Name : rec[m] # None => dir[m])'
  BY NoneAssumption DEF SweepInv, TypeOK, Locking, Working
<1>11. (\A m \in Name : live[m] => rec[m] # None)'
  BY NoneAssumption DEF SweepInv, TypeOK, Locking, Owning, Working
<1> QED
  BY <1>1, <1>2, <1>3, <1>4, <1>5, <1>6, <1>7, <1>8, <1>9, <1>10, <1>11 DEF SweepInv

(* provisionNet makes a device that is nobody else's.                        *)
LEMMA ProvisionInv == ASSUME SweepInv, NEW p \in Proc, Provision(p) PROVE SweepInv'
<1> USE DEF Provision, Goto, Return, locks, root, host, locals
<1>1. TypeOK'
  <2> HIDE DEF Goto, Return
  <2>1. RootTypes'
    BY TypeParts DEF SweepInv, RootTypes, Fresh
  <2>2. ControlTypes'
    BY TypeParts DEF SweepInv, ControlTypes, RootTypes, PC, Goto, Fresh
  <2> QED
    BY <2>1, <2>2, TypePartsNext
<1>2. ASSUME NEW q \in Proc PROVE Course(q)'
  BY DEF SweepInv, TypeOK, Course, AllOps
<1>3. ASSUME NEW q \in Proc PROVE Locking(q)'
  BY DEF SweepInv, TypeOK, Course, Locking
<1>4. ASSUME NEW q \in Proc PROVE Owning(q)'
  BY NoneAssumption DEF SweepInv, TypeOK, Locking, Owning, Fresh
<1>5. ASSUME NEW q \in Proc PROVE Working(q)'
  BY NoneAssumption DEF SweepInv, TypeOK, Locking, Owning, Working
<1>6. ASSUME NEW q \in Proc PROVE Marking(q)'
  BY NoneAssumption DEF SweepInv, TypeOK, Locking, Owning, Working, Marking
<1>7. ASSUME NEW q \in Proc PROVE Surveyed(q)'
  BY NoneAssumption DEF SweepInv, TypeOK, Locking, Owning, Working, Surveyed, Unrecorded
<1>8. GcExclusive' /\ OneRecord'
  BY NoneAssumption DEF SweepInv, TypeOK, Locking, Owning, GcExclusive, OneRecord
<1>9. Leaks'
  BY NoneAssumption DEF SweepInv, TypeOK, Marking, Leaks, Evidence, Unrecorded
<1>10. (\A m \in Name : rec[m] # None => dir[m])'
  BY NoneAssumption DEF SweepInv, TypeOK, Locking, Working
<1>11. (\A m \in Name : live[m] => rec[m] # None)'
  BY NoneAssumption DEF SweepInv, TypeOK, Locking, Owning, Working
<1> QED
  BY <1>1, <1>2, <1>3, <1>4, <1>5, <1>6, <1>7, <1>8, <1>9, <1>10, <1>11 DEF SweepInv

(* saveRec: the device of the CLI becomes that of the record.                *)
LEMMA CommitInv == ASSUME SweepInv, NEW p \in Proc, Commit(p) PROVE SweepInv'
<1> USE DEF Commit, Goto, Return, locks, root, host, locals
<1>a. /\ nm[p] \in Name /\ rec[nm[p]] = None /\ id[p] \in dev /\ id[p] # None
      /\ \A n \in Name : rec[n] # id[p]
  BY NoneAssumption, HoldsVM DEF SweepInv, TypeOK, Working, Owning
<1>1. TypeOK'
  <2> HIDE DEF Goto, Return
  <2>1. RootTypes'
    BY ZenonT(30), TypeParts DEF SweepInv, RootTypes, ControlTypes
  <2>2. ControlTypes'
    <3>1. CASE Return(p, TRUE)
      BY <3>1, TypeParts, ReturnTypes DEF SweepInv
    <3>2. ASSUME Goto(p, "launch") \/ Goto(p, "undonet"), gcs' \subseteq gcs, UNCHANGED <<vlock, gcx, locals>>
          PROVE  ControlTypes'
      BY <3>2, TypeParts DEF SweepInv, ControlTypes, Goto, PC
    <3> QED
      BY <3>1, <3>2
  <2> QED
    BY <2>1, <2>2, TypePartsNext
<1>2. ASSUME NEW q \in Proc PROVE Course(q)'
  BY DEF SweepInv, TypeOK, Course, AllOps
<1>3. ASSUME NEW q \in Proc PROVE Locking(q)'
  BY DEF SweepInv, TypeOK, Course, Locking
<1>4. ASSUME NEW q \in Proc PROVE Owning(q)'
  BY NoneAssumption DEF SweepInv, TypeOK, Locking, Owning
<1>5. ASSUME NEW q \in Proc PROVE Working(q)'
  BY NoneAssumption DEF SweepInv, TypeOK, Locking, Owning, Working
<1>6. ASSUME NEW q \in Proc PROVE Marking(q)'
  BY NoneAssumption DEF SweepInv, TypeOK, Locking, Owning, Working, Marking
<1>7. ASSUME NEW q \in Proc PROVE Surveyed(q)'
  BY NoneAssumption DEF SweepInv, TypeOK, Locking, Owning, Working, Surveyed, Unrecorded
<1>8. GcExclusive' /\ OneRecord'
  <2>1. GcExclusive'
    BY DEF SweepInv, GcExclusive
  <2>2. OneRecord'
    BY SMTT(30), <1>a DEF SweepInv, TypeOK, OneRecord
  <2> QED
    BY <2>1, <2>2
<1>9. Leaks'
  BY NoneAssumption DEF SweepInv, TypeOK, Marking, Leaks, Evidence, Unrecorded
<1>10. (\A m \in Name : rec[m] # None => dir[m])'
  BY NoneAssumption DEF SweepInv, TypeOK, Locking, Working
<1>11. (\A m \in Name : live[m] => rec[m] # None)'
  BY <1>a DEF SweepInv, TypeOK
<1> QED
  BY <1>1, <1>2, <1>3, <1>4, <1>5, <1>6, <1>7, <1>8, <1>9, <1>10, <1>11 DEF SweepInv

(* launch boots on the device of the record.                                 *)
LEMMA LaunchInv == ASSUME SweepInv, NEW p \in Proc, Launch(p) PROVE SweepInv'
<1> USE DEF Launch, Goto, Return, locks, root, host, locals
<1>1. TypeOK'
  <2> HIDE DEF Goto, Return
  <2>1. RootTypes'
    BY TypeParts DEF SweepInv, RootTypes
  <2>2. ControlTypes'
    BY TypeParts, GotoTypes, ReturnTypes DEF SweepInv, ControlTypes, RootTypes, PC
  <2> QED
    BY <2>1, <2>2, TypePartsNext
<1>2. ASSUME NEW q \in Proc PROVE Course(q)'
  BY SMTT(30) DEF SweepInv, TypeOK, Course, AllOps
<1>3. ASSUME NEW q \in Proc PROVE Locking(q)'
  BY DEF SweepInv, TypeOK, Course, Locking
<1>4. ASSUME NEW q \in Proc PROVE Owning(q)'
  BY NoneAssumption DEF SweepInv, TypeOK, Locking, Owning
<1>5. ASSUME NEW q \in Proc PROVE Working(q)'
  <2>0. /\ nm[p] \in Name /\ pc \in [Proc -> PC] /\ live \in [Name -> BOOLEAN]
        /\ pc[p] = "launch" /\ rec[nm[p]] \in dev /\ Working(q)
    BY HoldsVM DEF SweepInv, TypeOK, Working
  <2>1. CASE q = p
    BY <2>0, <2>1 DEF Working
  <2>2. CASE q # p
    <3>1. UNCHANGED <<rec, dir, dev>> /\ pc'[q] = pc[q] /\ nm'[q] = nm[q] /\ id'[q] = id[q]
      BY <2>0, <2>2 DEF SweepInv, TypeOK
    <3>2. pc[q] \in AtVM => nm[q] \in Name /\ nm[q] # nm[p]
      BY <2>0, <2>2, HoldsVM
    <3>3. \A m \in Name : m # nm[p] => live'[m] = live[m]
      BY <2>0
    <3> QED
      BY <2>0, <3>1, <3>2, <3>3 DEF Working
  <2> QED
    BY <2>1, <2>2
<1>6. ASSUME NEW q \in Proc PROVE Marking(q)'
  BY NoneAssumption DEF SweepInv, TypeOK, Locking, Owning, Working, Marking
<1>7. ASSUME NEW q \in Proc PROVE Surveyed(q)'
  BY NoneAssumption DEF SweepInv, TypeOK, Locking, Owning, Working, Surveyed, Unrecorded
<1>8. GcExclusive' /\ OneRecord'
  BY NoneAssumption DEF SweepInv, TypeOK, Locking, Owning, GcExclusive, OneRecord
<1>9. Leaks'
  BY NoneAssumption DEF SweepInv, TypeOK, Marking, Leaks, Evidence, Unrecorded
<1>10. (\A m \in Name : rec[m] # None => dir[m])'
  BY NoneAssumption DEF SweepInv, TypeOK, Locking, Working
<1>11. (\A m \in Name : live[m] => rec[m] # None)'
  <2>1. rec[nm[p]] # None
    BY NoneAssumption DEF SweepInv, TypeOK, Working
  <2>2. \A m \in Name : live'[m] => m = nm[p] \/ live[m]
    BY DEF SweepInv, TypeOK
  <2> QED
    BY <2>1, <2>2 DEF SweepInv
<1> QED
  BY <1>1, <1>2, <1>3, <1>4, <1>5, <1>6, <1>7, <1>8, <1>9, <1>10, <1>11 DEF SweepInv

(* cleanupFailedVM tears down its own device.                                *)
LEMMA UndoNetInv == ASSUME SweepInv, NEW p \in Proc, UndoNet(p) PROVE SweepInv'
<1> USE DEF UndoNet, Goto, Return, locks, root, host, locals
<1>1. TypeOK'
  <2> HIDE DEF Goto, Return
  <2>1. RootTypes'
    BY TypeParts DEF SweepInv, RootTypes
  <2>2. ControlTypes'
    BY TypeParts, GotoTypes, ReturnTypes DEF SweepInv, ControlTypes, RootTypes, PC
  <2> QED
    BY <2>1, <2>2, TypePartsNext
<1>2. ASSUME NEW q \in Proc PROVE Course(q)'
  BY DEF SweepInv, TypeOK, Course, AllOps
<1>3. ASSUME NEW q \in Proc PROVE Locking(q)'
  BY DEF SweepInv, TypeOK, Course, Locking
<1>4. ASSUME NEW q \in Proc PROVE Owning(q)'
  BY NoneAssumption DEF SweepInv, TypeOK, Locking, Owning
<1>5. ASSUME NEW q \in Proc PROVE Working(q)'
  BY NoneAssumption DEF SweepInv, TypeOK, Locking, Owning, Working
<1>6. ASSUME NEW q \in Proc PROVE Marking(q)'
  BY NoneAssumption DEF SweepInv, TypeOK, Locking, Owning, Working, Marking
<1>7. ASSUME NEW q \in Proc PROVE Surveyed(q)'
  BY NoneAssumption DEF SweepInv, TypeOK, Locking, Owning, Working, Surveyed, Unrecorded
<1>8. GcExclusive' /\ OneRecord'
  BY NoneAssumption DEF SweepInv, TypeOK, Locking, Owning, GcExclusive, OneRecord
<1>9. Leaks'
  BY NoneAssumption DEF SweepInv, TypeOK, Marking, Leaks, Evidence, Unrecorded
<1>10. (\A m \in Name : rec[m] # None => dir[m])'
  BY NoneAssumption DEF SweepInv, TypeOK, Locking, Working
<1>11. (\A m \in Name : live[m] => rec[m] # None)'
  BY NoneAssumption DEF SweepInv, TypeOK, Locking, Owning, Working
<1> QED
  BY <1>1, <1>2, <1>3, <1>4, <1>5, <1>6, <1>7, <1>8, <1>9, <1>10, <1>11 DEF SweepInv

(* cleanupFailedVM removes a dir whose guest it has killed.                  *)
LEMMA UndoDirInv == ASSUME SweepInv, NEW p \in Proc, UndoDir(p) PROVE SweepInv'
<1> USE DEF UndoDir, Goto, Return, locks, root, host, locals
<1>1. TypeOK'
  <2> HIDE DEF Goto, Return
  <2>1. RootTypes'
    BY TypeParts DEF SweepInv, RootTypes
  <2>2. ControlTypes'
    BY TypeParts, GotoTypes, ReturnTypes DEF SweepInv, ControlTypes, RootTypes, PC
  <2> QED
    BY <2>1, <2>2, TypePartsNext
<1>2. ASSUME NEW q \in Proc PROVE Course(q)'
  BY DEF SweepInv, TypeOK, Course, AllOps
<1>3. ASSUME NEW q \in Proc PROVE Locking(q)'
  BY DEF SweepInv, TypeOK, Course, Locking
<1>4. ASSUME NEW q \in Proc PROVE Owning(q)'
  BY NoneAssumption DEF SweepInv, TypeOK, Locking, Owning
<1>5. ASSUME NEW q \in Proc PROVE Working(q)'
  BY NoneAssumption DEF SweepInv, TypeOK, Locking, Owning, Working
<1>6. ASSUME NEW q \in Proc PROVE Marking(q)'
  BY NoneAssumption DEF SweepInv, TypeOK, Locking, Owning, Working, Marking
<1>7. ASSUME NEW q \in Proc PROVE Surveyed(q)'
  BY SMTT(30), NoneAssumption DEF SweepInv, TypeOK, Locking, Owning, Working, Surveyed, Unrecorded
<1>8. GcExclusive' /\ OneRecord'
  BY NoneAssumption DEF SweepInv, TypeOK, Locking, Owning, GcExclusive, OneRecord
<1>9. Leaks'
  BY NoneAssumption DEF SweepInv, TypeOK, Marking, Leaks, Evidence, Unrecorded
<1>10. (\A m \in Name : rec[m] # None => dir[m])'
  BY NoneAssumption DEF SweepInv, TypeOK, Locking, Working
<1>11. (\A m \in Name : live[m] => rec[m] # None)'
  BY NoneAssumption DEF SweepInv, TypeOK, Locking, Owning, Working
<1> QED
  BY <1>1, <1>2, <1>3, <1>4, <1>5, <1>6, <1>7, <1>8, <1>9, <1>10, <1>11 DEF SweepInv

(* recoverNet rebuilds the device of the record.                             *)
LEMMA RecoverInv == ASSUME SweepInv, NEW p \in Proc, Recover(p) PROVE SweepInv'
<1> USE DEF Recover, Goto, Return, locks, root, host, locals
<1>a. nm[p] \in Name /\ (rec[nm[p]] # None => rec[nm[p]] \in Id)
  BY HoldsVM DEF SweepInv, TypeOK
<1>1. TypeOK'
  <2> HIDE DEF Goto, Return
  <2>1. RootTypes'
    BY <1>a, TypeParts DEF SweepInv, RootTypes
  <2>2. ControlTypes'
    BY TypeParts, GotoTypes, ReturnTypes DEF SweepInv, ControlTypes, RootTypes, PC
  <2> QED
    BY <2>1, <2>2, TypePartsNext
<1>2. ASSUME NEW q \in Proc PROVE Course(q)'
  BY DEF SweepInv, TypeOK, Course
<1>3. ASSUME NEW q \in Proc PROVE Locking(q)'
  BY DEF SweepInv, TypeOK, Course, Locking
<1>4. ASSUME NEW q \in Proc PROVE Owning(q)'
  BY NoneAssumption DEF SweepInv, TypeOK, Locking, Owning
<1>5. ASSUME NEW q \in Proc PROVE Working(q)'
  BY <1>a DEF SweepInv, TypeOK, Course, Working
<1>6. ASSUME NEW q \in Proc PROVE Marking(q)'
  BY <1>a DEF SweepInv, TypeOK, Course, Marking
<1>7. ASSUME NEW q \in Proc PROVE Surveyed(q)'
  BY NoneAssumption DEF SweepInv, TypeOK, Locking, Owning, Working, Surveyed, Unrecorded
<1>8. GcExclusive' /\ OneRecord'
  BY NoneAssumption DEF SweepInv, TypeOK, Locking, Owning, GcExclusive, OneRecord
<1>9. Leaks'
  BY <1>a DEF SweepInv, TypeOK, Leaks, Evidence, Unrecorded
<1>10. (\A m \in Name : rec[m] # None => dir[m])'
  BY NoneAssumption DEF SweepInv, TypeOK, Locking, Working
<1>11. (\A m \in Name : live[m] => rec[m] # None)'
  BY NoneAssumption DEF SweepInv, TypeOK, Locking, Owning, Working
<1> QED
  BY <1>1, <1>2, <1>3, <1>4, <1>5, <1>6, <1>7, <1>8, <1>9, <1>10, <1>11 DEF SweepInv

(* RM stops the guest first.                                                 *)
LEMMA RmStopInv == ASSUME SweepInv, NEW p \in Proc, RmStop(p) PROVE SweepInv'
<1> USE DEF RmStop, Goto, Return, locks, root, host, locals
<1>1. TypeOK'
  <2> HIDE DEF Goto, Return
  <2>1. RootTypes'
    BY TypeParts DEF SweepInv, RootTypes
  <2>2. ControlTypes'
    BY TypeParts, GotoTypes, ReturnTypes DEF SweepInv, ControlTypes, RootTypes, PC
  <2> QED
    BY <2>1, <2>2, TypePartsNext
<1>2. ASSUME NEW q \in Proc PROVE Course(q)'
  BY DEF SweepInv, TypeOK, Course, AllOps
<1>3. ASSUME NEW q \in Proc PROVE Locking(q)'
  BY SMTT(30) DEF SweepInv, TypeOK, Course, Locking
<1>4. ASSUME NEW q \in Proc PROVE Owning(q)'
  BY NoneAssumption DEF SweepInv, TypeOK, Locking, Owning
<1>5. ASSUME NEW q \in Proc PROVE Working(q)'
  BY NoneAssumption DEF SweepInv, TypeOK, Locking, Owning, Working
<1>6. ASSUME NEW q \in Proc PROVE Marking(q)'
  BY NoneAssumption DEF SweepInv, TypeOK, Locking, Owning, Working, Marking
<1>7. ASSUME NEW q \in Proc PROVE Surveyed(q)'
  BY NoneAssumption DEF SweepInv, TypeOK, Locking, Owning, Working, Surveyed, Unrecorded
<1>8. GcExclusive' /\ OneRecord'
  BY NoneAssumption DEF SweepInv, TypeOK, Locking, Owning, GcExclusive, OneRecord
<1>9. Leaks'
  BY NoneAssumption DEF SweepInv, TypeOK, Marking, Leaks, Evidence, Unrecorded
<1>10. (\A m \in Name : rec[m] # None => dir[m])'
  BY NoneAssumption DEF SweepInv, TypeOK, Locking, Working
<1>11. (\A m \in Name : live[m] => rec[m] # None)'
  BY NoneAssumption DEF SweepInv, TypeOK, Locking, Owning, Working
<1> QED
  BY <1>1, <1>2, <1>3, <1>4, <1>5, <1>6, <1>7, <1>8, <1>9, <1>10, <1>11 DEF SweepInv

(* teardownNet of a VM that does not run.                                    *)
LEMMA TeardownInv == ASSUME SweepInv, NEW p \in Proc, Teardown(p) PROVE SweepInv'
<1> USE DEF Teardown, Goto, Return, locks, root, host, locals
<1>1. TypeOK'
  <2> HIDE DEF Goto, Return
  <2>1. RootTypes'
    BY TypeParts DEF SweepInv, RootTypes
  <2>2. ControlTypes'
    BY TypeParts, GotoTypes, ReturnTypes DEF SweepInv, ControlTypes, RootTypes, PC
  <2> QED
    BY <2>1, <2>2, TypePartsNext
<1>2. ASSUME NEW q \in Proc PROVE Course(q)'
  BY DEF SweepInv, TypeOK, Course, AllOps
<1>3. ASSUME NEW q \in Proc PROVE Locking(q)'
  BY SMTT(30) DEF SweepInv, TypeOK, Course, Locking
<1>4. ASSUME NEW q \in Proc PROVE Owning(q)'
  BY NoneAssumption DEF SweepInv, TypeOK, Locking, Owning
<1>5. ASSUME NEW q \in Proc PROVE Working(q)'
  BY NoneAssumption, HoldsVM DEF SweepInv, TypeOK, Locking, Owning, Working, OneRecord
<1>6. ASSUME NEW q \in Proc PROVE Marking(q)'
  BY NoneAssumption DEF SweepInv, TypeOK, Locking, Owning, Working, Marking
<1>7. ASSUME NEW q \in Proc PROVE Surveyed(q)'
  BY NoneAssumption DEF SweepInv, TypeOK, Locking, Owning, Working, Surveyed, Unrecorded
<1>8. GcExclusive' /\ OneRecord'
  BY NoneAssumption DEF SweepInv, TypeOK, Locking, Owning, GcExclusive, OneRecord
<1>9. Leaks'
  BY NoneAssumption DEF SweepInv, TypeOK, Marking, Leaks, Evidence, Unrecorded
<1>10. (\A m \in Name : rec[m] # None => dir[m])'
  BY NoneAssumption DEF SweepInv, TypeOK, Locking, Working
<1>11. (\A m \in Name : live[m] => rec[m] # None)'
  BY NoneAssumption, HoldsVM DEF SweepInv, TypeOK, Locking, Owning, Working, OneRecord
<1> QED
  BY <1>1, <1>2, <1>3, <1>4, <1>5, <1>6, <1>7, <1>8, <1>9, <1>10, <1>11 DEF SweepInv

(* RM marks the root.                                                        *)
LEMMA RmMarkInv == ASSUME SweepInv, NEW p \in Proc, RmMark(p) PROVE SweepInv'
<1> USE DEF RmMark, Goto, Return, locks, root, host, locals
<1>1. TypeOK'
  <2> HIDE DEF Goto, Return
  <2>1. RootTypes'
    BY TypeParts DEF SweepInv, RootTypes
  <2>2. ControlTypes'
    BY TypeParts, GotoTypes, ReturnTypes DEF SweepInv, ControlTypes, RootTypes, PC
  <2> QED
    BY <2>1, <2>2, TypePartsNext
<1>2. ASSUME NEW q \in Proc PROVE Course(q)'
  BY DEF SweepInv, TypeOK, Course, AllOps
<1>3. ASSUME NEW q \in Proc PROVE Locking(q)'
  BY DEF SweepInv, TypeOK, Course, Locking
<1>4. ASSUME NEW q \in Proc PROVE Owning(q)'
  BY NoneAssumption DEF SweepInv, TypeOK, Locking, Owning
<1>5. ASSUME NEW q \in Proc PROVE Working(q)'
  BY NoneAssumption DEF SweepInv, TypeOK, Locking, Owning, Working
<1>6. ASSUME NEW q \in Proc PROVE Marking(q)'
  BY NoneAssumption DEF SweepInv, TypeOK, Locking, Owning, Working, Marking
<1>7. ASSUME NEW q \in Proc PROVE Surveyed(q)'
  BY NoneAssumption DEF SweepInv, TypeOK, Locking, Owning, Working, Surveyed, Unrecorded
<1>8. GcExclusive' /\ OneRecord'
  BY NoneAssumption DEF SweepInv, TypeOK, Locking, Owning, GcExclusive, OneRecord
<1>9. Leaks'
  BY NoneAssumption DEF SweepInv, TypeOK, Marking, Leaks, Evidence, Unrecorded
<1>10. (\A m \in Name : rec[m] # None => dir[m])'
  BY NoneAssumption DEF SweepInv, TypeOK, Locking, Working
<1>11. (\A m \in Name : live[m] => rec[m] # None)'
  BY NoneAssumption DEF SweepInv, TypeOK, Locking, Owning, Working
<1> QED
  BY <1>1, <1>2, <1>3, <1>4, <1>5, <1>6, <1>7, <1>8, <1>9, <1>10, <1>11 DEF SweepInv

(* RM removes the dir of a marked root.                                      *)
LEMMA RmDirInv == ASSUME SweepInv, NEW p \in Proc, RmDir(p) PROVE SweepInv'
<1> USE DEF RmDir, Goto, Return, locks, root, host, locals
<1>1. TypeOK'
  <2> HIDE DEF Goto, Return
  <2>1. RootTypes'
    BY TypeParts DEF SweepInv, RootTypes
  <2>2. ControlTypes'
    BY TypeParts, GotoTypes, ReturnTypes DEF SweepInv, ControlTypes, RootTypes, PC
  <2> QED
    BY <2>1, <2>2, TypePartsNext
<1>2. ASSUME NEW q \in Proc PROVE Course(q)'
  BY SMTT(30) DEF SweepInv, TypeOK, Course, AllOps
<1>3. ASSUME NEW q \in Proc PROVE Locking(q)'
  BY DEF SweepInv, TypeOK, Course, Locking
<1>4. ASSUME NEW q \in Proc PROVE Owning(q)'
  BY NoneAssumption DEF SweepInv, TypeOK, Locking, Owning
<1>5. ASSUME NEW q \in Proc PROVE Working(q)'
  BY SMTT(30), NoneAssumption, HoldsVM DEF SweepInv, TypeOK, Locking, Owning, Working
<1>6. ASSUME NEW q \in Proc PROVE Marking(q)'
  BY NoneAssumption DEF SweepInv, TypeOK, Locking, Owning, Working, Marking
<1>7. ASSUME NEW q \in Proc PROVE Surveyed(q)'
  <2>1. pc[q] \notin Collecting
    BY HoldsVM DEF SweepInv, Working, Surveyed
  <2> QED
    BY SMTT(30), <2>1 DEF SweepInv, TypeOK, Surveyed
<1>8. GcExclusive' /\ OneRecord'
  BY NoneAssumption DEF SweepInv, TypeOK, Locking, Owning, GcExclusive, OneRecord
<1>9. Leaks'
  BY NoneAssumption DEF SweepInv, TypeOK, Marking, Leaks, Evidence, Unrecorded
<1>10. (\A m \in Name : rec[m] # None => dir[m])'
  BY SMTT(30), NoneAssumption DEF SweepInv, TypeOK, Locking, Working
<1>11. (\A m \in Name : live[m] => rec[m] # None)'
  BY NoneAssumption DEF SweepInv, TypeOK, Locking, Owning, Working
<1> QED
  BY <1>1, <1>2, <1>3, <1>4, <1>5, <1>6, <1>7, <1>8, <1>9, <1>10, <1>11 DEF SweepInv

(* gc takes the root only while nobody provisions.                           *)
LEMMA GcLockInv == ASSUME SweepInv, NEW p \in Proc, GcLock(p) PROVE SweepInv'
<1> USE DEF GcLock, Goto, Return, locks, root, host, locals
<1>1. TypeOK'
  <2> HIDE DEF Goto, Return
  <2>1. RootTypes'
    BY TypeParts DEF SweepInv, RootTypes
  <2>2. ControlTypes'
    <3>1. CASE Return(p, FALSE)
      BY <3>1, TypeParts, ReturnTypes DEF SweepInv, ControlTypes
    <3>2. CASE ~ Return(p, FALSE)
      BY <3>2, TypeParts DEF SweepInv, ControlTypes, RootTypes, PC, Goto
    <3> QED
      BY <3>1, <3>2
  <2> QED
    BY <2>1, <2>2, TypePartsNext
<1>2. ASSUME NEW q \in Proc PROVE Course(q)'
  BY DEF SweepInv, TypeOK, Course, AllOps
<1>3. ASSUME NEW q \in Proc PROVE Locking(q)'
  <2>1. CASE Return(p, FALSE)
    BY <2>1 DEF SweepInv, TypeOK, Locking
  <2>2. CASE ~ Return(p, FALSE)
    BY <2>2, NoneAssumption DEF SweepInv, TypeOK, Locking
  <2> QED
    BY <2>1, <2>2
<1>4. ASSUME NEW q \in Proc PROVE Owning(q)'
  BY NoneAssumption DEF SweepInv, TypeOK, Locking, Owning
<1>5. ASSUME NEW q \in Proc PROVE Working(q)'
  BY NoneAssumption DEF SweepInv, TypeOK, Locking, Owning, Working
<1>6. ASSUME NEW q \in Proc PROVE Marking(q)'
  BY NoneAssumption DEF SweepInv, TypeOK, Locking, Owning, Working, Marking
<1>7. ASSUME NEW q \in Proc PROVE Surveyed(q)'
  BY SMTT(30), NoneAssumption DEF SweepInv, TypeOK, Locking, Owning, Working, Surveyed, Unrecorded
<1>8. GcExclusive' /\ OneRecord'
  BY NoneAssumption DEF SweepInv, TypeOK, Locking, Owning, GcExclusive, OneRecord
<1>9. Leaks'
  BY NoneAssumption DEF SweepInv, TypeOK, Marking, Leaks, Evidence, Unrecorded
<1>10. (\A m \in Name : rec[m] # None => dir[m])'
  BY NoneAssumption DEF SweepInv, TypeOK, Locking, Working
<1>11. (\A m \in Name : live[m] => rec[m] # None)'
  BY NoneAssumption DEF SweepInv, TypeOK, Locking, Owning, Working
<1> QED
  BY <1>1, <1>2, <1>3, <1>4, <1>5, <1>6, <1>7, <1>8, <1>9, <1>10, <1>11 DEF SweepInv

(* forEachVMDir: the dirs of a root in which none can be made.               *)
LEMMA GcListInv == ASSUME SweepInv, NEW p \in Proc, GcList(p) PROVE SweepInv'
<1> USE DEF GcList, Goto, Return, locks, root, host, locals
<1>1. TypeOK'
  <2> HIDE DEF Goto, Return
  <2>1. RootTypes'
    BY TypeParts DEF SweepInv, RootTypes
  <2>2. ControlTypes'
    BY TypeParts DEF SweepInv, ControlTypes, RootTypes, PC, Goto
  <2> QED
    BY <2>1, <2>2, TypePartsNext
<1>2. ASSUME NEW q \in Proc PROVE Course(q)'
  BY DEF SweepInv, TypeOK, Course, AllOps
<1>3. ASSUME NEW q \in Proc PROVE Locking(q)'
  BY DEF SweepInv, TypeOK, Course, Locking
<1>4. ASSUME NEW q \in Proc PROVE Owning(q)'
  BY NoneAssumption DEF SweepInv, TypeOK, Locking, Owning
<1>5. ASSUME NEW q \in Proc PROVE Working(q)'
  BY NoneAssumption DEF SweepInv, TypeOK, Locking, Owning, Working
<1>6. ASSUME NEW q \in Proc PROVE Marking(q)'
  BY NoneAssumption DEF SweepInv, TypeOK, Locking, Owning, Working, Marking
<1>7. ASSUME NEW q \in Proc PROVE Surveyed(q)'
  BY NoneAssumption DEF SweepInv, TypeOK, Locking, Owning, Working, Surveyed, Unrecorded
<1>8. GcExclusive' /\ OneRecord'
  BY NoneAssumption DEF SweepInv, TypeOK, Locking, Owning, GcExclusive, OneRecord
<1>9. Leaks'
  BY NoneAssumption DEF SweepInv, TypeOK, Marking, Leaks, Evidence, Unrecorded
<1>10. (\A m \in Name : rec[m] # None => dir[m])'
  BY NoneAssumption DEF SweepInv, TypeOK, Locking, Working
<1>11. (\A m \in Name : live[m] => rec[m] # None)'
  BY NoneAssumption DEF SweepInv, TypeOK, Locking, Owning, Working
<1> QED
  BY <1>1, <1>2, <1>3, <1>4, <1>5, <1>6, <1>7, <1>8, <1>9, <1>10, <1>11 DEF SweepInv

(* tryLockVMDirs takes the flocks of what was listed, or gives up.           *)
LEMMA GcLockVMInv == ASSUME SweepInv, NEW p \in Proc, GcLockVM(p) PROVE SweepInv'
<1> USE DEF GcLockVM, Goto, Return, locks, root, host, locals
<1>1. TypeOK'
  <2> HIDE DEF Goto, Return
  <2>1. RootTypes'
    BY TypeParts DEF SweepInv, RootTypes
  <2>2. ControlTypes'
    <3>1. CASE Return(p, FALSE)
      BY <3>1, TypeParts, ReturnTypes DEF SweepInv
    <3>2. ASSUME NEW n \in todo[p], vlock' = [vlock EXCEPT ![n] = p], todo' = [todo EXCEPT ![p] = @ \ {n}],
                 UNCHANGED <<gcx, gcs, pc, op, nm, src, id, seen, cand, ok>>
          PROVE  ControlTypes'
      BY <3>2, TypeParts DEF SweepInv, ControlTypes
    <3> QED
      BY <3>1, <3>2
  <2> QED
    BY <2>1, <2>2, TypePartsNext
<1>2. ASSUME NEW q \in Proc PROVE Course(q)'
  BY DEF SweepInv, TypeOK, Course, AllOps
<1>3. ASSUME NEW q \in Proc PROVE Locking(q)'
  <2>1. CASE Return(p, FALSE)
    BY <2>1 DEF SweepInv, TypeOK, Locking
  <2>2. CASE ~ Return(p, FALSE)
    BY <2>2, NoneAssumption DEF SweepInv, TypeOK, Locking
  <2> QED
    BY <2>1, <2>2
<1>4. ASSUME NEW q \in Proc PROVE Owning(q)'
  BY NoneAssumption DEF SweepInv, TypeOK, Locking, Owning
<1>5. ASSUME NEW q \in Proc PROVE Working(q)'
  BY NoneAssumption DEF SweepInv, TypeOK, Locking, Owning, Working
<1>6. ASSUME NEW q \in Proc PROVE Marking(q)'
  BY NoneAssumption DEF SweepInv, TypeOK, Locking, Owning, Working, Marking
<1>7. ASSUME NEW q \in Proc PROVE Surveyed(q)'
  BY NoneAssumption DEF SweepInv, TypeOK, Locking, Owning, Working, Surveyed, Unrecorded
<1>8. GcExclusive' /\ OneRecord'
  BY NoneAssumption DEF SweepInv, TypeOK, Locking, Owning, GcExclusive, OneRecord
<1>9. Leaks'
  BY NoneAssumption DEF SweepInv, TypeOK, Marking, Leaks, Evidence, Unrecorded
<1>10. (\A m \in Name : rec[m] # None => dir[m])'
  BY NoneAssumption DEF SweepInv, TypeOK, Locking, Working
<1>11. (\A m \in Name : live[m] => rec[m] # None)'
  BY NoneAssumption DEF SweepInv, TypeOK, Locking, Owning, Working
<1> QED
  BY <1>1, <1>2, <1>3, <1>4, <1>5, <1>6, <1>7, <1>8, <1>9, <1>10, <1>11 DEF SweepInv

(* ReadDB: with all VMs locked, no record and no device changes hands.       *)
LEMMA GcReadInv == ASSUME SweepInv, NEW p \in Proc, GcRead(p) PROVE SweepInv'
<1> USE DEF GcRead, Goto, Return, locks, root, host, locals
<1>1. TypeOK'
  <2> HIDE DEF Goto, Return
  <2>1. RootTypes'
    BY TypeParts DEF SweepInv, RootTypes
  <2>2. ControlTypes'
    <3>1. CASE Return(p, FALSE)
      BY <3>1, TypeParts, ReturnTypes DEF SweepInv
    <3>2. CASE ~ Return(p, FALSE)
      <4>1. Unowned(p) \in SUBSET Id /\ {n \in seen[p] : rec[n] = None} \in SUBSET Name
        BY TypeParts DEF SweepInv, ControlTypes, RootTypes, Unowned
      <4>2. ASSUME NEW T \in SUBSET Name, NEW C \in SUBSET Id,
                   todo' = [todo EXCEPT ![p] = T], cand' = [cand EXCEPT ![p] = C]
            PROVE  ControlTypes'
        BY <3>2, <4>2, TypeParts DEF SweepInv, ControlTypes, Goto, PC
      <4> QED
        BY <3>2, <4>1, <4>2
    <3> QED
      BY <3>1, <3>2
  <2> QED
    BY <2>1, <2>2, TypePartsNext
<1>2. ASSUME NEW q \in Proc PROVE Course(q)'
  BY DEF SweepInv, TypeOK, Course, AllOps
<1>3. ASSUME NEW q \in Proc PROVE Locking(q)'
  BY DEF SweepInv, TypeOK, Course, Locking
<1>4. ASSUME NEW q \in Proc PROVE Owning(q)'
  BY NoneAssumption DEF SweepInv, TypeOK, Locking, Owning
<1>5. ASSUME NEW q \in Proc PROVE Working(q)'
  BY NoneAssumption DEF SweepInv, TypeOK, Locking, Owning, Working
<1>6. ASSUME NEW q \in Proc PROVE Marking(q)'
  BY NoneAssumption DEF SweepInv, TypeOK, Locking, Owning, Working, Marking
<1>7. ASSUME NEW q \in Proc PROVE Surveyed(q)'
  BY NoneAssumption, SweepsAlone DEF SweepInv, TypeOK, Locking, Surveyed, Unrecorded, Unowned
<1>8. GcExclusive' /\ OneRecord'
  BY NoneAssumption DEF SweepInv, TypeOK, Locking, Owning, GcExclusive, OneRecord
<1>9. Leaks'
  BY NoneAssumption DEF SweepInv, TypeOK, Marking, Leaks, Evidence, Unrecorded
<1>10. (\A m \in Name : rec[m] # None => dir[m])'
  BY NoneAssumption DEF SweepInv, TypeOK, Locking, Working
<1>11. (\A m \in Name : live[m] => rec[m] # None)'
  BY NoneAssumption DEF SweepInv, TypeOK, Locking, Owning, Working
<1> QED
  BY <1>1, <1>2, <1>3, <1>4, <1>5, <1>6, <1>7, <1>8, <1>9, <1>10, <1>11 DEF SweepInv

(* Collect of the vm module: strays have no record and no QEMU.              *)
LEMMA GcStrayInv == ASSUME SweepInv, NEW p \in Proc, GcStray(p) PROVE SweepInv'
<1> USE DEF GcStray, Goto, Return, locks, root, host, locals
<1>1. TypeOK'
  <2> HIDE DEF Goto, Return
  <2>1. RootTypes'
    BY TypeParts DEF SweepInv, RootTypes
  <2>2. ControlTypes'
    <3>1. CASE Goto(p, "devs") /\ UNCHANGED <<todo, ok>>
      BY <3>1, TypeParts DEF SweepInv, ControlTypes, Goto, PC
    <3>2. ASSUME NEW n \in todo[p], todo' = [todo EXCEPT ![p] = @ \ {n}], UNCHANGED pc,
                 UNCHANGED ok \/ ok' = [ok EXCEPT ![p] = FALSE]
          PROVE  ControlTypes'
      BY <3>2, TypeParts DEF SweepInv, ControlTypes
    <3> QED
      BY <3>1, <3>2
  <2> QED
    BY <2>1, <2>2, TypePartsNext
<1>2. ASSUME NEW q \in Proc PROVE Course(q)'
  BY DEF SweepInv, TypeOK, Course, AllOps
<1>3. ASSUME NEW q \in Proc PROVE Locking(q)'
  BY DEF SweepInv, TypeOK, Course, Locking
<1>4. ASSUME NEW q \in Proc PROVE Owning(q)'
  BY NoneAssumption DEF SweepInv, TypeOK, Locking, Owning
<1>5. ASSUME NEW q \in Proc PROVE Working(q)'
  BY NoneAssumption DEF SweepInv, TypeOK, Locking, Owning, Working
<1>6. ASSUME NEW q \in Proc PROVE Marking(q)'
  BY NoneAssumption DEF SweepInv, TypeOK, Locking, Owning, Working, Marking
<1>7. ASSUME NEW q \in Proc PROVE Surveyed(q)'
  BY SMTT(30), NoneAssumption DEF SweepInv, TypeOK, Locking, Owning, Working, Surveyed, Unrecorded
<1>8. GcExclusive' /\ OneRecord'
  BY NoneAssumption DEF SweepInv, TypeOK, Locking, Owning, GcExclusive, OneRecord
<1>9. Leaks'
  BY NoneAssumption DEF SweepInv, TypeOK, Marking, Leaks, Evidence, Unrecorded
<1>10. (\A m \in Name : rec[m] # None => dir[m])'
  BY NoneAssumption DEF SweepInv, TypeOK, Locking, Working
<1>11. (\A m \in Name : live[m] => rec[m] # None)'
  BY NoneAssumption DEF SweepInv, TypeOK, Locking, Owning, Working
<1> QED
  BY <1>1, <1>2, <1>3, <1>4, <1>5, <1>6, <1>7, <1>8, <1>9, <1>10, <1>11 DEF SweepInv

(* Collect of the network modules: nobody uses what is taken.                *)
LEMMA GcDevInv == ASSUME SweepInv, NEW p \in Proc, GcDev(p) PROVE SweepInv'
<1> USE DEF GcDev, Goto, Return, locks, root, host, locals
<1>1. TypeOK'
  <2> HIDE DEF Goto, Return
  <2>1. RootTypes'
    BY TypeParts DEF SweepInv, RootTypes
  <2>2. ControlTypes'
    <3>1. CASE Return(p, ok[p])
      BY <3>1, TypeParts, ReturnTypes DEF SweepInv, ControlTypes
    <3>2. CASE ~ Return(p, ok[p])
      <4>0. ControlTypes
        BY TypeParts DEF SweepInv
      <4>1. PICK i \in cand[p] :
                /\ cand' = [cand EXCEPT ![p] = @ \ {i}]
                /\ (ok' = ok \/ ok' = [ok EXCEPT ![p] = FALSE])
        BY <3>2
      <4>2. UNCHANGED <<locks, pc, op, nm, src, id, seen, todo>>
        BY <3>2
      <4> HIDE DEF GcDev
      <4>3. cand' \in [Proc -> SUBSET Id] /\ ok' \in [Proc -> BOOLEAN]
        BY <4>0, <4>1 DEF ControlTypes
      <4> QED
        BY <4>0, <4>2, <4>3 DEF ControlTypes
    <3> QED
      BY <3>1, <3>2
  <2> QED
    BY <2>1, <2>2, TypePartsNext
<1>2. ASSUME NEW q \in Proc PROVE Course(q)'
  BY DEF SweepInv, TypeOK, Course, AllOps
<1>3. ASSUME NEW q \in Proc PROVE Locking(q)'
  BY DEF SweepInv, TypeOK, Course, Locking
<1>4. ASSUME NEW q \in Proc PROVE Owning(q)'
  BY NoneAssumption DEF SweepInv, TypeOK, Locking, Owning
<1>5. ASSUME NEW q \in Proc PROVE Working(q)'
  <2>1. pc[q] = "commit" => FALSE
    BY SweepsAlone
  <2>2. pc[q] = "launch" => rec[nm[q]] \in dev /\ rec[nm[q]] \notin cand[p]
    BY HoldsVM DEF SweepInv, Working, Surveyed
  <2> QED
    BY <2>1, <2>2 DEF SweepInv, TypeOK, Working
<1>6. ASSUME NEW q \in Proc PROVE Marking(q)'
  BY NoneAssumption DEF SweepInv, TypeOK, Locking, Owning, Working, Marking
<1>7. ASSUME NEW q \in Proc PROVE Surveyed(q)'
  BY NoneAssumption DEF SweepInv, TypeOK, Locking, Owning, Working, Surveyed, Unrecorded
<1>8. GcExclusive' /\ OneRecord'
  BY NoneAssumption DEF SweepInv, TypeOK, Locking, Owning, GcExclusive, OneRecord
<1>9. Leaks'
  BY NoneAssumption DEF SweepInv, TypeOK, Marking, Leaks, Evidence, Unrecorded
<1>10. (\A m \in Name : rec[m] # None => dir[m])'
  BY NoneAssumption DEF SweepInv, TypeOK, Locking, Working
<1>11. (\A m \in Name : live[m] => rec[m] # None)'
  BY SweepsAlone DEF SweepInv, TypeOK, Surveyed
<1> QED
  BY <1>1, <1>2, <1>3, <1>4, <1>5, <1>6, <1>7, <1>8, <1>9, <1>10, <1>11 DEF SweepInv

(* A guest that ends.                                                        *)
LEMMA QemuExitInv == ASSUME SweepInv, NEW n \in Name, QemuExit(n) PROVE SweepInv'
<1> USE DEF QemuExit, locks, root, locals
<1>1. TypeOK'
  <2> HIDE DEF Goto, Return
  <2>1. RootTypes'
    BY TypeParts DEF SweepInv, RootTypes
  <2>2. ControlTypes'
    BY TypeParts, GotoTypes, ReturnTypes DEF SweepInv, ControlTypes, RootTypes, PC
  <2> QED
    BY <2>1, <2>2, TypePartsNext
<1>2. ASSUME NEW q \in Proc PROVE Course(q)'
  BY DEF SweepInv, TypeOK, Course, AllOps
<1>3. ASSUME NEW q \in Proc PROVE Locking(q)'
  BY DEF SweepInv, TypeOK, Course, Locking
<1>4. ASSUME NEW q \in Proc PROVE Owning(q)'
  BY NoneAssumption DEF SweepInv, TypeOK, Locking, Owning
<1>5. ASSUME NEW q \in Proc PROVE Working(q)'
  BY NoneAssumption DEF SweepInv, TypeOK, Locking, Owning, Working
<1>6. ASSUME NEW q \in Proc PROVE Marking(q)'
  BY NoneAssumption DEF SweepInv, TypeOK, Locking, Owning, Working, Marking
<1>7. ASSUME NEW q \in Proc PROVE Surveyed(q)'
  BY NoneAssumption DEF SweepInv, TypeOK, Locking, Owning, Working, Surveyed, Unrecorded
<1>8. GcExclusive' /\ OneRecord'
  BY NoneAssumption DEF SweepInv, TypeOK, Locking, Owning, GcExclusive, OneRecord
<1>9. Leaks'
  BY NoneAssumption DEF SweepInv, TypeOK, Marking, Leaks, Evidence, Unrecorded
<1>10. (\A m \in Name : rec[m] # None => dir[m])'
  BY NoneAssumption DEF SweepInv, TypeOK, Locking, Working
<1>11. (\A m \in Name : live[m] => rec[m] # None)'
  BY NoneAssumption DEF SweepInv, TypeOK, Locking, Owning, Working
<1> QED
  BY <1>1, <1>2, <1>3, <1>4, <1>5, <1>6, <1>7, <1>8, <1>9, <1>10, <1>11 DEF SweepInv

(* A killed CLI gives up its flocks, and leaves what it made behind.         *)
LEMMA CrashInv == ASSUME SweepInv, NEW p \in Proc, Crash(p) PROVE SweepInv'
<1> USE DEF Crash, Goto, Return, locks, root, host, locals
<1>1. TypeOK'
  <2> HIDE DEF Goto, Return
  <2>1. RootTypes'
    BY TypeParts DEF SweepInv, RootTypes
  <2>2. ControlTypes'
    BY TypeParts, GotoTypes, ReturnTypes DEF SweepInv, ControlTypes, RootTypes, PC
  <2> QED
    BY <2>1, <2>2, TypePartsNext
<1>2. ASSUME NEW q \in Proc PROVE Course(q)'
  BY DEF SweepInv, TypeOK, Course, AllOps
<1>3. ASSUME NEW q \in Proc PROVE Locking(q)'
  BY DEF SweepInv, TypeOK, Course, Locking
<1>4. ASSUME NEW q \in Proc PROVE Owning(q)'
  BY NoneAssumption DEF SweepInv, TypeOK, Locking, Owning
<1>5. ASSUME NEW q \in Proc PROVE Working(q)'
  BY NoneAssumption DEF SweepInv, TypeOK, Locking, Owning, Working
<1>6. ASSUME NEW q \in Proc PROVE Marking(q)'
  BY NoneAssumption DEF SweepInv, TypeOK, Locking, Owning, Working, Marking
<1>7. ASSUME NEW q \in Proc PROVE Surveyed(q)'
  BY NoneAssumption DEF SweepInv, TypeOK, Locking, Owning, Working, Surveyed, Unrecorded
<1>8. GcExclusive' /\ OneRecord'
  BY NoneAssumption DEF SweepInv, TypeOK, Locking, Owning, GcExclusive, OneRecord
<1>9. Leaks'
  BY NoneAssumption DEF SweepInv, TypeOK, Marking, Leaks, Evidence, Unrecorded
<1>10. (\A m \in Name : rec[m] # None => dir[m])'
  BY NoneAssumption DEF SweepInv, TypeOK, Locking, Working
<1>11. (\A m \in Name : live[m] => rec[m] # None)'
  BY NoneAssumption DEF SweepInv, TypeOK, Locking, Owning, Working
<1> QED
  BY <1>1, <1>2, <1>3, <1>4, <1>5, <1>6, <1>7, <1>8, <1>9, <1>10, <1>11 DEF SweepInv

(* A reboot leaves the root, and no device.                                  *)
LEMMA RebootInv == ASSUME SweepInv, Reboot PROVE SweepInv'
<1> USE DEF Reboot, root
<1>1. TypeOK'
  <2> HIDE DEF Goto, Return
  <2>1. RootTypes'
    BY TypeParts DEF SweepInv, RootTypes
  <2>2. ControlTypes'
    BY TypeParts, GotoTypes, ReturnTypes DEF SweepInv, ControlTypes, RootTypes, PC
  <2> QED
    BY <2>1, <2>2, TypePartsNext
<1>2. ASSUME NEW q \in Proc PROVE Course(q)'
  BY DEF SweepInv, TypeOK, Course, AllOps
<1>3. ASSUME NEW q \in Proc PROVE Locking(q)'
  BY DEF SweepInv, TypeOK, Course, Locking
<1>4. ASSUME NEW q \in Proc PROVE Owning(q)'
  BY NoneAssumption DEF SweepInv, TypeOK, Locking, Owning
<1>5. ASSUME NEW q \in Proc PROVE Working(q)'
  BY NoneAssumption DEF SweepInv, TypeOK, Locking, Owning, Working
<1>6. ASSUME NEW q \in Proc PROVE Marking(q)'
  BY NoneAssumption DEF SweepInv, TypeOK, Locking, Owning, Working, Marking
<1>7. ASSUME NEW q \in Proc PROVE Surveyed(q)'
  BY NoneAssumption DEF SweepInv, TypeOK, Locking, Owning, Working, Surveyed, Unrecorded
<1>8. GcExclusive' /\ OneRecord'
  BY NoneAssumption DEF SweepInv, TypeOK, Locking, Owning, GcExclusive, OneRecord
<1>9. Leaks'
  BY NoneAssumption DEF SweepInv, TypeOK, Marking, Leaks, Evidence, Unrecorded
<1>10. (\A m \in Name : rec[m] # None => dir[m])'
  BY NoneAssumption DEF SweepInv, TypeOK, Locking, Working
<1>11. (\A m \in Name : live[m] => rec[m] # None)'
  BY NoneAssumption DEF SweepInv, TypeOK, Locking, Owning, Working
<1> QED
  BY <1>1, <1>2, <1>3, <1>4, <1>5, <1>6, <1>7, <1>8, <1>9, <1>10, <1>11 DEF SweepInv

-----------------------------------------------------------------------------
(* A fresh root, or one with a VM of an older build.                         *)
LEMMA InitInv == Init => SweepInv
<1> SUFFICES ASSUME Init PROVE SweepInv
  OBVIOUS
<1>1. TypeOK
  BY DEF Init, TypeOK, PC
<1>2. ASSUME NEW p \in Proc
      PROVE  Course(p) /\ Locking(p) /\ Owning(p) /\ Working(p) /\ Marking(p) /\ Surveyed(p)
  BY DEF Init, Course, Locking, Owning, Working, Marking, Surveyed
<1>3. GcExclusive /\ OneRecord
  BY DEF Init, GcExclusive, OneRecord
<1>4. Leaks
  BY NoneAssumption DEF Init, Leaks, Evidence, Unrecorded
<1>5. \A n \in Name : (rec[n] # None => dir[n]) /\ (live[n] => rec[n] # None)
  BY DEF Init
<1> QED
  BY <1>1, <1>2, <1>3, <1>4, <1>5 DEF SweepInv

(* No step of a CLI, a guest or the host breaks the invariant.               *)
LEMMA NextInv == SweepInv /\ [Next]_vars => SweepInv'
<1> SUFFICES ASSUME SweepInv, [Next]_vars PROVE SweepInv'
  OBVIOUS
<1>1. CASE \E p \in Proc : Call(p) \/ LockVM(p) \/ ProvisionLock(p) \/ Crash(p)
  BY <1>1, CallInv, LockVMInv, ProvisionLockInv, CrashInv
<1>2. ASSUME NEW p \in Proc, Step(p) PROVE SweepInv'
  BY <1>2, LockedInv, ScaffoldInv, ClearInv, MkdirInv, MarkRootInv, ProvisionInv, CommitInv,
     LaunchInv, UndoNetInv, UndoDirInv, RecoverInv, RmStopInv, TeardownInv, RmMarkInv, RmDirInv,
     GcLockInv, GcListInv, GcLockVMInv, GcReadInv, GcStrayInv, GcDevInv
     DEF Step
<1>3. CASE (\E n \in Name : QemuExit(n)) \/ Reboot
  BY <1>3, QemuExitInv, RebootInv
<1>4. CASE UNCHANGED vars
  BY <1>4 DEF vars, locks, root, host, locals, SweepInv, TypeOK, Course, Locking, Owning,
     Working, Marking, Surveyed, GcExclusive, OneRecord, Leaks, Evidence, Unrecorded
<1> QED
  BY <1>1, <1>2, <1>3, <1>4 DEF Next

(* A call of gc that ends well has gone through all its devices: nothing     *)
(* else of a sweep, and no crash or reboot, ends with success.               *)
LEMMA SweepEnds ==
    ASSUME SweepInv, [Next]_vars, NEW p \in Proc,
           op[p] = "gc", pc[p] # "idle", pc'[p] = "idle", ok'[p]
    PROVE  pc[p] = "devs" /\ cand[p] = {} /\ ok[p] /\ UNCHANGED <<root, host>>
<1>1. ok \in [Proc -> BOOLEAN] /\ pc \in [Proc -> PC]
  BY DEF SweepInv, TypeOK
<1>2. pc[p] \in Sweeping \cup {"gc"}
  BY DEF SweepInv, Course
<1>3. ~ UNCHANGED vars
  BY DEF vars
<1>4. ASSUME NEW q \in Proc, Step(q) PROVE q = p
  BY ZenonT(30), <1>1, <1>4 DEF Step, Return, Goto, locals, Locked, Scaffold, Clear, Mkdir, MarkRoot,
     Provision, Commit, Launch, UndoNet, UndoDir, Recover, RmStop, Teardown, RmMark, RmDir,
     GcLock, GcList, GcLockVM, GcRead, GcStray, GcDev
<1>5. ASSUME NEW q \in Proc PROVE ~ (Call(q) \/ LockVM(q) \/ ProvisionLock(q) \/ Crash(q))
  BY <1>1, <1>2 DEF Call, LockVM, ProvisionLock, Crash, Return, Goto, locals
<1>6. ~ Reboot /\ \A n \in Name : ~ QemuExit(n)
  BY DEF Reboot, QemuExit
<1>7. Step(p)
  BY <1>3, <1>4, <1>5, <1>6 DEF Next
<1>8. GcDev(p)
  BY <1>1, <1>2, <1>7 DEF Step, Return, Goto, Locked, Scaffold, Clear, Mkdir, MarkRoot,
     Provision, Commit, Launch, UndoNet, UndoDir, Recover, RmStop, Teardown, RmMark, RmDir,
     GcLock, GcList, GcLockVM, GcRead, GcStray
<1> QED
  BY <1>1, <1>8 DEF GcDev, Return, Goto, root, host

-----------------------------------------------------------------------------
(* SweepInv holds in every reachable state: flocks keep operations and       *)
(* sweeps apart, every device has one owner, and what a sweep has read of    *)
(* the root holds until it ends (gc.go, utils.go).                           *)
THEOREM SweepCorrect == Spec => []SweepInv
  BY InitInv, NextInv, PTL DEF Spec

(* Every variable keeps its type (flocks, records and host devices).         *)
THEOREM SweepTypes == Spec => []TypeOK
<1>1. SweepInv => TypeOK
  BY DEF SweepInv
<1> QED
  BY <1>1, SweepCorrect, PTL

(* A sweep collects no device in use, and a teardown only that of its VM.    *)
LEMMA NotInUse ==
    ASSUME SweepInv, NEW p \in Proc
    PROVE  /\ pc[p] = "devs" => cand[p] \cap InUse = {}
           /\ pc[p] = "teardown" => rec[nm[p]] \notin InUse
<1>1. \A n \in Name : live[n] => rec[n] # None
  BY DEF SweepInv
<1>2. ASSUME pc[p] = "devs", NEW i \in cand[p] PROVE i \notin InUse
  <2>1. \A n \in Name : rec[n] # i
    BY <1>2 DEF SweepInv, Surveyed
  <2>2. \A q \in Proc : pc[q] = "launch" => nm[q] \in Name
    BY HoldsVM
  <2>3. \A q \in Proc : pc[q] # "commit"
    BY <1>2, SweepsAlone
  <2> QED
    BY <2>1, <2>2, <2>3 DEF InUse
<1>3. ASSUME pc[p] = "teardown" PROVE rec[nm[p]] \notin InUse
  <2>1. /\ nm[p] \in Name /\ rec[nm[p]] # None /\ ~live[nm[p]]
        /\ \A q \in Proc : pc[q] \in {"launch", "commit"} => nm[q] \in Name /\ nm[q] # nm[p]
    BY <1>3, HoldsVM DEF SweepInv, Working
  <2>2. \A n \in Name : rec[n] = rec[nm[p]] => n = nm[p]
    BY <2>1 DEF SweepInv, OneRecord
  <2>3. \A q \in Proc : pc[q] = "commit" => rec[nm[p]] # id[q]
    BY <2>1 DEF SweepInv, Owning
  <2> QED
    BY <2>1, <2>2, <2>3 DEF InUse
<1> QED
  BY <1>2, <1>3

(* gc.go:53: no sweep, and no cleanup or rm of another VM, takes the device  *)
(* under a running guest or a launch, or that of a create or clone in flight.*)
THEOREM DevicesStay == Spec => InUseDevicesStay
<1>1. ASSUME SweepInv, [Next]_vars, NEW i \in (dev \ dev') \cap InUse \cap InUse'
      PROVE  \E p \in Proc : id[p] = i /\ pc[p] = "undonet" /\ pc'[p] = "undodir"
  <2>1. ~ Reboot
    BY <1>1 DEF Reboot, InUse
  <2>2. PICK p \in Proc : UndoNet(p) \/ Teardown(p) \/ GcDev(p)
    <3>1. ~ (dev \subseteq dev')
      BY <1>1
    <3>2. ASSUME NEW p \in Proc
          PROVE  ~ (Call(p) \/ LockVM(p) \/ ProvisionLock(p) \/ Crash(p))
      BY <3>1 DEF Call, LockVM, ProvisionLock, Crash, host
    <3>3. ASSUME NEW p \in Proc
          PROVE  ~ \/ Locked(p) \/ Scaffold(p) \/ Clear(p) \/ Mkdir(p) \/ MarkRoot(p)
                   \/ Provision(p) \/ Commit(p) \/ Launch(p) \/ UndoDir(p) \/ Recover(p)
      BY <3>1 DEF Locked, Scaffold, Clear, Mkdir, MarkRoot, Provision, Commit, Launch, UndoDir,
                  Recover, host
    <3>4. ASSUME NEW p \in Proc
          PROVE  ~ \/ RmStop(p) \/ RmMark(p) \/ RmDir(p) \/ GcLock(p) \/ GcList(p)
                   \/ GcLockVM(p) \/ GcRead(p) \/ GcStray(p)
      BY <3>1 DEF RmStop, RmMark, RmDir, GcLock, GcList, GcLockVM, GcRead, GcStray, host
    <3>5. ~ UNCHANGED vars /\ \A n \in Name : ~ QemuExit(n)
      BY <3>1 DEF vars, host, QemuExit
    <3> QED
      BY <1>1, <2>1, <3>2, <3>3, <3>4, <3>5 DEF Next, Step
  <2>3. ~ Teardown(p)
    BY <1>1, NotInUse DEF Teardown
  <2>4. ~ GcDev(p)
    BY <1>1, NotInUse DEF GcDev
  <2>5. pc \in [Proc -> PC]
    BY <1>1 DEF SweepInv, TypeOK
  <2>6. id[p] = i /\ pc[p] = "undonet" /\ pc'[p] = "undodir"
    BY <1>1, <2>2, <2>3, <2>4, <2>5 DEF UndoNet, Goto
  <2> QED
    BY <2>6
<1>2. SweepInv /\ [Next]_vars =>
        [\A i \in (dev \ dev') \cap InUse \cap InUse' :
            \E p \in Proc : id[p] = i /\ pc[p] = "undonet" /\ pc'[p] = "undodir"]_vars
  BY <1>1
<1> QED
  BY <1>2, SweepCorrect, PTL DEF Spec, InUseDevicesStay

(* tryLockVMDirs, resetIncompleteVMDir: nobody removes the VM dir under a    *)
(* create or clone in flight, and a record never outlives its dir.           *)
THEOREM DirsStay == Spec => []InFlightDirsStay
<1>1. SweepInv => InFlightDirsStay
  BY DEF SweepInv, Working, InFlightDirsStay
<1> QED
  BY <1>1, SweepCorrect, PTL

(* cli.md:83: the root keeps evidence of the VM that leaked a device.        *)
THEOREM LeaksReclaimable == Spec => []LeakStaysReclaimable
<1>1. SweepInv => LeakStaysReclaimable
  BY DEF SweepInv, Leaks, Evidence, Unrecorded, LeakStaysReclaimable
<1> QED
  BY <1>1, SweepCorrect, PTL

(* cli.md:72: a sweep that reports success on a root known to have held a VM *)
(* leaves no device that no record names.                                    *)
THEOREM SweepReclaims == Spec => GcReclaims
<1>1. SweepInv /\ [Next]_vars =>
        [\A p \in Proc :
            /\ op[p] = "gc" /\ pc[p] # "idle" /\ pc'[p] = "idle" /\ ok'[p]
            /\ marker' \/ \E n \in Name : dir'[n]
            => \A i \in dev' : \E n \in Name : rec'[n] = i]_vars
  <2> SUFFICES ASSUME SweepInv, [Next]_vars, NEW p \in Proc,
                      op[p] = "gc", pc[p] # "idle", pc'[p] = "idle", ok'[p],
                      marker' \/ \E n \in Name : dir'[n]
               PROVE  \A i \in dev' : \E n \in Name : rec'[n] = i
    OBVIOUS
  <2>1. pc[p] = "devs" /\ cand[p] = {} /\ ok[p] /\ UNCHANGED <<root, host>>
    BY SweepEnds
  <2>2. Unrecorded \subseteq cand[p]
    BY <2>1 DEF SweepInv, Surveyed, root
  <2> QED
    BY <2>1, <2>2 DEF Unrecorded, root, host
<1> QED
  BY <1>1, SweepCorrect, PTL DEF Spec, GcReclaims
-----------------------------------------------------------------------------
(* Waiting.  A CLI that holds a flock is inside a call that wants it, and    *)
(* one that still waits holds nothing it should have taken later.            *)

Holding(p) ==
    /\ \A n \in Name : vlock[n] = p => pc[p] # "idle" /\ (op[p] # "gc" => n \in Wanted(p))
    /\ gcx = p => pc[p] \in Sweeping
    /\ pc[p] = "lock" => \A n \in Wanted(p) \ Missing(p), m \in Missing(p) : n < m

WaitInv == SweepInv /\ \A p \in Proc : Holding(p)

(* The positions, by the steps left at most.                                 *)
Turns == [idle |-> 0, lock |-> 20, rlock |-> 19, scaffold |-> 18, clear |-> 17, mkdir |-> 16,
          mark |-> 15, provision |-> 14, commit |-> 13, launch |-> 12, undonet |-> 11,
          undodir |-> 10, recover |-> 13, rm |-> 14, teardown |-> 13, rmmark |-> 12, rmdir |-> 11,
          gc |-> 20, list |-> 19, vms |-> 18, strays |-> 17, devs |-> 16]

(* Besides returning, a step of a CLI goes on to a later position, or stays  *)
(* where it is with less to do.                                              *)
Onward(p) ==
    /\ pc'[p] \in PC \ {"idle", "lock"} /\ Turns[pc'[p]] < Turns[pc[p]]
    /\ pc[p] \in Sweeping => pc'[p] \in Sweeping
    /\ UNCHANGED <<vlock, op, nm, src>>
    /\ gcx' = gcx \/ (gcx' = p /\ pc'[p] \in Sweeping)
Dwindles(p) ==
    /\ UNCHANGED <<pc, gcx, op, nm, src>> /\ pc[p] \in Sweeping
    /\ todo'[p] \subseteq todo[p] /\ cand'[p] \subseteq cand[p]
    /\ todo'[p] # todo[p] \/ cand'[p] # cand[p]
    /\ vlock' = vlock \/ \E n \in Name : vlock[n] = None /\ vlock' = [vlock EXCEPT ![n] = p]
Returns(p) == \E result \in BOOLEAN : Return(p, result)

(* It leaves the positions and lists of the others alone.                    *)
Aside(p) ==
    \A q \in Proc \ {p} : pc'[q] = pc[q] /\ todo'[q] = todo[q] /\ cand'[q] = cand[q]

(* The number of every position.                                             *)
LEMMA TurnsOf ==
    /\ Turns.idle = 0 /\ Turns.lock = 20 /\ Turns.rlock = 19 /\ Turns.scaffold = 18
    /\ Turns.clear = 17 /\ Turns.mkdir = 16 /\ Turns.mark = 15 /\ Turns.provision = 14
    /\ Turns.commit = 13 /\ Turns.launch = 12 /\ Turns.undonet = 11 /\ Turns.undodir = 10
    /\ Turns.recover = 13 /\ Turns.rm = 14 /\ Turns.teardown = 13 /\ Turns.rmmark = 12
    /\ Turns.rmdir = 11 /\ Turns.gc = 20 /\ Turns.list = 19 /\ Turns.vms = 18
    /\ Turns.strays = 17 /\ Turns.devs = 16
  BY DEF Turns

(* Every step inside a call has one of the three forms.                      *)
LEMMA StepForms ==
    ASSUME SweepInv, NEW p \in Proc, Step(p)
    PROVE  Aside(p) /\ pc[p] # "idle" /\ (Returns(p) \/ Onward(p) \/ Dwindles(p))
<1> USE DEF Goto, locks, root, host, locals, Aside, Onward, Returns, Sweeping
<1>0. /\ pc \in [Proc -> PC] /\ todo \in [Proc -> SUBSET Name] /\ cand \in [Proc -> SUBSET Id]
      /\ ok[p] \in BOOLEAN /\ Course(p)
  BY DEF SweepInv, TypeOK
<1>1. /\ Return(p, FALSE) => Aside(p) /\ Returns(p)
      /\ Return(p, TRUE) => Aside(p) /\ Returns(p)
      /\ Return(p, ok[p]) => Aside(p) /\ Returns(p)
  <2>1. ASSUME NEW r \in BOOLEAN, Return(p, r) PROVE Aside(p) /\ Returns(p)
    BY <1>0, <2>1 DEF Return
  <2>2. QED  BY <1>0, <2>1
<1> HIDE DEF Returns
<1>2. CASE Locked(p)
  <2>1. CASE Return(p, FALSE)  BY <1>1, <1>2, <2>1 DEF Locked
  <2>2. CASE ~Return(p, FALSE)
    <3>1. /\ Aside(p) /\ pc[p] = "lock" /\ pc'[p] \in {"rlock", "recover", "rm"}
          /\ UNCHANGED <<vlock, op, nm, src>> /\ UNCHANGED gcx
      BY <1>0, <1>2, <2>2 DEF Locked, Course, AllOps
    <3>2. QED  BY <3>1, TurnsOf DEF PC
  <2>3. QED  BY <2>1, <2>2
<1>3. CASE Scaffold(p)
  <2>1. CASE Return(p, FALSE)  BY <1>1, <1>3, <2>1 DEF Scaffold
  <2>2. CASE ~Return(p, FALSE)
    <3>1. /\ Aside(p) /\ pc[p] = "scaffold" /\ pc'[p] \in {"mkdir", "clear"}
          /\ UNCHANGED <<vlock, op, nm, src>> /\ UNCHANGED gcx
      BY <1>0, <1>3, <2>2 DEF Scaffold
    <3>2. QED  BY <3>1, TurnsOf DEF PC
  <2>3. QED  BY <2>1, <2>2
<1>4. CASE Clear(p)  BY <1>0, <1>4, TurnsOf DEF Clear, PC
<1>5. CASE Mkdir(p)
  <2>1. CASE Return(p, FALSE)  BY <1>1, <1>5, <2>1 DEF Mkdir
  <2>2. CASE ~Return(p, FALSE)
    <3>1. /\ Aside(p) /\ pc[p] = "mkdir" /\ pc'[p] \in {"mark", "undodir"}
          /\ UNCHANGED <<vlock, op, nm, src>> /\ UNCHANGED gcx
      BY <1>0, <1>5, <2>2 DEF Mkdir
    <3>2. QED  BY <3>1, TurnsOf DEF PC
  <2>3. QED  BY <2>1, <2>2
<1>6. CASE MarkRoot(p)  BY <1>0, <1>6, TurnsOf DEF MarkRoot, PC
<1>7. CASE Provision(p)  BY <1>0, <1>7, TurnsOf DEF Provision, PC
<1>8. CASE Commit(p)
  <2>1. CASE Return(p, TRUE)  BY <1>1, <1>8, <2>1 DEF Commit
  <2>2. CASE ~Return(p, TRUE)
    <3>1. /\ Aside(p) /\ pc[p] = "commit" /\ pc'[p] \in {"launch", "undonet"}
          /\ UNCHANGED <<vlock, op, nm, src>> /\ UNCHANGED gcx
      BY <1>0, <1>8, <2>2 DEF Commit
    <3>2. QED  BY <3>1, TurnsOf DEF PC
  <2>3. QED  BY <2>1, <2>2
<1>9. CASE Launch(p)
  <2>1. CASE Return(p, TRUE) \/ Return(p, FALSE)  BY <1>1, <1>9, <2>1 DEF Launch
  <2>2. CASE ~Return(p, TRUE) /\ ~Return(p, FALSE)
    <3>1. /\ Aside(p) /\ pc[p] = "launch" /\ pc'[p] \in {"undonet"}
          /\ UNCHANGED <<vlock, op, nm, src>> /\ UNCHANGED gcx
      BY <1>0, <1>9, <2>2 DEF Launch
    <3>2. QED  BY <3>1, TurnsOf DEF PC
  <2>3. QED  BY <2>1, <2>2
<1>10. CASE UndoNet(p)  BY <1>0, <1>10, TurnsOf DEF UndoNet, PC
<1>11. CASE UndoDir(p)  BY <1>0, <1>1, <1>11, TurnsOf DEF UndoDir, PC
<1>12. CASE Recover(p)
  <2>1. CASE Return(p, FALSE)  BY <1>1, <1>12, <2>1 DEF Recover
  <2>2. CASE ~Return(p, FALSE)
    <3>1. /\ Aside(p) /\ pc[p] = "recover" /\ pc'[p] \in {"launch"}
          /\ UNCHANGED <<vlock, op, nm, src>> /\ UNCHANGED gcx
      BY <1>0, <1>12, <2>2 DEF Recover
    <3>2. QED  BY <3>1, TurnsOf DEF PC
  <2>3. QED  BY <2>1, <2>2
<1>13. CASE RmStop(p)
  <2>1. CASE Return(p, TRUE)  BY <1>1, <1>13, <2>1 DEF RmStop
  <2>2. CASE ~Return(p, TRUE)
    <3>1. /\ Aside(p) /\ pc[p] = "rm" /\ pc'[p] \in {"rmmark", "teardown"}
          /\ UNCHANGED <<vlock, op, nm, src>> /\ UNCHANGED gcx
      BY <1>0, <1>13, <2>2 DEF RmStop
    <3>2. QED  BY <3>1, TurnsOf DEF PC
  <2>3. QED  BY <2>1, <2>2
<1>14. CASE Teardown(p)
  <2>1. CASE Return(p, FALSE)  BY <1>1, <1>14, <2>1 DEF Teardown
  <2>2. CASE ~Return(p, FALSE)
    <3>1. /\ Aside(p) /\ pc[p] = "teardown" /\ pc'[p] \in {"rmmark"}
          /\ UNCHANGED <<vlock, op, nm, src>> /\ UNCHANGED gcx
      BY <1>0, <1>14, <2>2 DEF Teardown
    <3>2. QED  BY <3>1, TurnsOf DEF PC
  <2>3. QED  BY <2>1, <2>2
<1>15. CASE RmMark(p)
  <2>1. CASE Return(p, FALSE)  BY <1>1, <1>15, <2>1 DEF RmMark
  <2>2. CASE ~Return(p, FALSE)
    <3>1. /\ Aside(p) /\ pc[p] = "rmmark" /\ pc'[p] \in {"rmdir"}
          /\ UNCHANGED <<vlock, op, nm, src>> /\ UNCHANGED gcx
      BY <1>0, <1>15, <2>2 DEF RmMark
    <3>2. QED  BY <3>1, TurnsOf DEF PC
  <2>3. QED  BY <2>1, <2>2
<1>16. CASE RmDir(p)  BY <1>0, <1>1, <1>16, TurnsOf DEF RmDir, PC
<1>17. CASE GcLock(p)
  <2>1. CASE Return(p, FALSE)  BY <1>1, <1>17, <2>1 DEF GcLock
  <2>2. CASE ~Return(p, FALSE)
    <3>1. /\ Aside(p) /\ pc[p] = "gc" /\ pc'[p] \in {"list"}
          /\ UNCHANGED <<vlock, op, nm, src>> /\ gcx' = p
      BY <1>0, <1>17, <2>2 DEF GcLock
    <3>2. QED  BY <3>1, TurnsOf DEF PC
  <2>3. QED  BY <2>1, <2>2
<1>18. CASE GcList(p)  BY <1>0, <1>18, TurnsOf DEF GcList, PC
<1>19. CASE GcLockVM(p)  BY <1>0, <1>1, <1>19 DEF GcLockVM, Dwindles
<1>20. CASE GcRead(p)
  <2>1. CASE Return(p, FALSE)  BY <1>1, <1>20, <2>1 DEF GcRead
  <2>2. CASE ~Return(p, FALSE)
    <3>1. /\ Aside(p) /\ pc[p] = "vms" /\ pc'[p] \in {"strays"}
          /\ UNCHANGED <<vlock, op, nm, src>> /\ UNCHANGED gcx
      BY <1>0, <1>20, <2>2 DEF GcRead
    <3>2. QED  BY <3>1, TurnsOf DEF PC
  <2>3. QED  BY <2>1, <2>2
<1>21. CASE GcStray(p)  BY <1>0, <1>21, TurnsOf DEF GcStray, PC, Dwindles
<1>22. CASE GcDev(p)  BY <1>0, <1>1, <1>22 DEF GcDev, Dwindles
<1> QED
  BY <1>2, <1>3, <1>4, <1>5, <1>6, <1>7, <1>8, <1>9, <1>10, <1>11, <1>12, <1>13, <1>14, <1>15,
     <1>16, <1>17, <1>18, <1>19, <1>20, <1>21, <1>22 DEF Step

(* The smallest of the locks a call still misses (withVMLocks sorts them).   *)
LEMMA FirstMissing ==
    ASSUME SweepInv, NEW p \in Proc, Waits(p)
    PROVE  /\ LockOrder(p) \in Missing(p) /\ LockOrder(p) \in Name
           /\ \A m \in Missing(p) : LockOrder(p) <= m
<1>1. PICK a \in Missing(p) : TRUE  BY DEF Waits
<1>2. Missing(p) \subseteq Nat /\ Missing(p) \subseteq Name
  BY NameAssumption DEF Missing, Wanted
<1>3. \A m \in Missing(p) : m = nm[p] \/ m = src[p]  BY DEF Missing, Wanted
<1>4. \E n \in Missing(p) : \A m \in Missing(p) : n <= m
  <2>1. CASE \E b \in Missing(p) : b < a  BY <1>1, <1>2, <1>3, <2>1
  <2>2. CASE \A b \in Missing(p) : a <= b  BY <1>1, <2>2
  <2>3. QED  BY <1>1, <1>2, <2>1, <2>2
<1>5. QED  BY <1>2, <1>4 DEF LockOrder

(* The three forms keep what the flocks' holders are.                        *)
LEMMA FormHolding ==
    ASSUME WaitInv, NEW p \in Proc, Aside(p), Returns(p) \/ Onward(p) \/ Dwindles(p),
           pc[p] # "idle", NEW q \in Proc
    PROVE  Holding(q)'
<1>0. /\ vlock \in [Name -> Proc \cup {None}] /\ None \notin Proc /\ Holding(p) /\ Holding(q)
      /\ Course(p) /\ pc \in [Proc -> PC]
      /\ DOMAIN op = Proc /\ DOMAIN nm = Proc /\ DOMAIN src = Proc
  BY NoneAssumption DEF WaitInv, SweepInv, TypeOK
<1>1. CASE Returns(p)
  <2>1. PICK r \in BOOLEAN : Return(p, r)  BY <1>1 DEF Returns
  <2>2. pc'[p] = "idle" /\ \A n \in Name : vlock'[n] # p  BY <1>0, <2>1 DEF Return, Goto
  <2>3. gcx' # p  BY <1>0, <2>1 DEF Return
  <2>4. CASE q = p  BY <2>2, <2>3, <2>4 DEF Holding
  <2>5. CASE q # p
    <3>1. /\ pc'[q] = pc[q] /\ op'[q] = op[q] /\ nm'[q] = nm[q] /\ src'[q] = src[q]
          /\ gcx' = q => gcx = q
      BY <1>0, <2>1, <2>5 DEF Return, Goto
    <3>2. \A n \in Name : vlock'[n] = q <=> vlock[n] = q  BY <1>0, <2>1, <2>5 DEF Return
    <3>3. QED  BY <1>0, <3>1, <3>2 DEF Holding, Wanted, Missing
  <2>6. QED  BY <2>4, <2>5
<1>2. CASE Onward(p)
  BY <1>0, <1>2 DEF Onward, Holding, Wanted, Missing, Aside
<1>3. CASE Dwindles(p)
  <2>1. op[p] = "gc" /\ pc[p] # "lock" /\ pc[p] # "idle"
    BY <1>0, <1>3 DEF Dwindles, Course, Sweeping
  <2>2. /\ UNCHANGED <<pc, gcx, op, nm, src>>
        /\ q # p => \A n \in Name : vlock'[n] = q <=> vlock[n] = q
    BY <1>0, <1>3 DEF Dwindles
  <2>3. QED  BY <1>0, <2>1, <2>2 DEF Holding, Wanted, Missing
<1>4. QED
  BY <1>1, <1>2, <1>3

(* The lock a call takes is the smallest it missed: those it holds are       *)
(* smaller, those it still misses larger.                                    *)
LEMMA LockVMHolding ==
    ASSUME WaitInv, NEW p \in Proc, LockVM(p), NEW q \in Proc
    PROVE  Holding(q)'
<1> DEFINE k == LockOrder(p)
<1>0. /\ vlock \in [Name -> Proc \cup {None}] /\ None \notin Proc /\ Holding(p) /\ Holding(q)
      /\ pc[p] = "lock" /\ vlock[k] = None /\ vlock' = [vlock EXCEPT ![k] = p]
      /\ UNCHANGED <<pc, gcx, op, nm, src>>
  BY NoneAssumption DEF WaitInv, SweepInv, TypeOK, LockVM, locals
<1>1. k \in Missing(p) /\ k \in Name /\ \A m \in Missing(p) : k <= m
  BY FirstMissing DEF WaitInv, LockVM, Waits
<1> HIDE DEF k
<1>2. \A n \in Name : vlock'[n] = IF n = k THEN p ELSE vlock[n]  BY <1>0, <1>1
<1>3. CASE q # p
  BY <1>0, <1>2, <1>3 DEF Holding, Wanted, Missing
<1>4. CASE q = p
  <2>1. Wanted(p)' = Wanted(p) /\ Missing(p)' = Missing(p) \ {k}
    BY <1>0, <1>1, <1>2 DEF Wanted, Missing
  <2>2. Wanted(p) \subseteq Nat  BY NameAssumption DEF Wanted
  <2>3. \A n \in Wanted(p)' \ Missing(p)', m \in Missing(p)' : n < m
    BY <1>0, <1>1, <2>1, <2>2 DEF Holding, Missing
  <2>4. \A n \in Name : vlock'[n] = p => pc'[p] # "idle" /\ (op'[p] # "gc" => n \in Wanted(p)')
    BY <1>0, <1>1, <1>2, <2>1 DEF Holding, Missing
  <2>5. gcx' = p => pc'[p] \in Sweeping  BY <1>0 DEF Holding
  <2>6. QED  BY <1>4, <2>3, <2>4, <2>5 DEF Holding
<1>5. QED
  BY <1>3, <1>4

(* A CLI that starts a call holds nothing.                                   *)
LEMMA CallHolding ==
    ASSUME WaitInv, NEW p \in Proc, Call(p), NEW q \in Proc
    PROVE  Holding(q)'
<1>0. /\ Holding(p) /\ Holding(q) /\ pc[p] = "idle" /\ UNCHANGED <<vlock, gcx>>
      /\ pc \in [Proc -> PC] /\ DOMAIN op = Proc /\ DOMAIN nm = Proc /\ DOMAIN src = Proc
  BY DEF WaitInv, SweepInv, TypeOK, Call, locks
<1>1. CASE q = p
  <2>1. gcx # p /\ \A n \in Name : vlock[n] # p  BY <1>0 DEF Holding, Sweeping
  <2>2. QED  BY <1>0, <1>1, <2>1 DEF Holding, Wanted, Missing
<1>2. CASE q # p
  <2>1. pc'[q] = pc[q] /\ op'[q] = op[q] /\ nm'[q] = nm[q] /\ src'[q] = src[q]
    BY <1>0, <1>2 DEF Call, Goto
  <2>2. QED  BY <1>0, <2>1 DEF Holding, Wanted, Missing
<1>3. QED
  BY <1>1, <1>2

(* Every step keeps who holds a flock, and in which order.                   *)
LEMMA WaitNext == WaitInv /\ [Next]_vars => WaitInv'
<1> SUFFICES ASSUME WaitInv, [Next]_vars PROVE WaitInv'
  OBVIOUS
<1>0. SweepInv'  BY NextInv DEF WaitInv
<1>1. ASSUME NEW q \in Proc PROVE Holding(q)'
  <2>0. Holding(q) /\ None \notin Proc /\ pc \in [Proc -> PC]
    BY NoneAssumption DEF WaitInv, SweepInv, TypeOK
  <2>1. ASSUME NEW p \in Proc, Call(p) PROVE Holding(q)'  BY <2>1, CallHolding
  <2>2. ASSUME NEW p \in Proc, LockVM(p) PROVE Holding(q)'  BY <2>2, LockVMHolding
  <2>3. ASSUME NEW p \in Proc, ProvisionLock(p) PROVE Holding(q)'
    BY <2>0, <2>3 DEF ProvisionLock, Goto, Holding, Wanted, Missing, Sweeping, locals
  <2>4. ASSUME NEW p \in Proc, Step(p) PROVE Holding(q)'
    BY <2>4, StepForms, FormHolding DEF WaitInv
  <2>5. ASSUME NEW p \in Proc, Crash(p) PROVE Holding(q)'
    <3>1. Aside(p) /\ Returns(p)
      BY <2>0, <2>5 DEF Crash, Return, Goto, Aside, Returns, WaitInv, SweepInv, TypeOK
    <3>2. QED  BY <2>5, <3>1, FormHolding DEF Crash
  <2>6. ASSUME NEW n \in Name, QemuExit(n) PROVE Holding(q)'
    BY <2>0, <2>6 DEF QemuExit, Holding, Wanted, Missing, locks, locals
  <2>7. CASE Reboot
    BY <2>0, <2>7 DEF Reboot, Holding
  <2>8. CASE UNCHANGED vars
    BY <2>0, <2>8 DEF vars, locks, locals, Holding, Wanted, Missing
  <2>9. QED  BY <2>1, <2>2, <2>3, <2>4, <2>5, <2>6, <2>7, <2>8 DEF Next
<1>2. QED
  BY <1>0, <1>1 DEF WaitInv

(* In every reachable state a flock's holder is inside a call that wants it, *)
(* and a call that waits holds only VMs of smaller paths than it misses.     *)
THEOREM WaitCorrect == Spec => []WaitInv
<1>1. Init => WaitInv
  <2>1. ASSUME Init, NEW p \in Proc PROVE Holding(p)
    BY <2>1, NoneAssumption DEF Init, Holding
  <2>2. QED  BY <2>1, InitInv DEF WaitInv
<1>2. QED
  BY <1>1, WaitNext, PTL DEF Spec

(* No CLI waits in a circle: crossing clones, a create behind a sweep, a     *)
(* sweep behind a clone.  Who holds the flock a call waits for can go on,    *)
(* waits for the gc lock, whose holder can go on, or waits for a VM of a     *)
(* larger path, and paths do not grow forever (withVMLocks,                  *)
(* withProvisionLock, tryLockVMDirs).                                        *)
THEOREM NoCircle == Spec => []NoCircularWait
<1>1. WaitInv => NoCircularWait
  <2> SUFFICES ASSUME WaitInv, NEW p \in Proc, NEW q \in Proc
               PROVE  /\ Waits(p) /\ vlock[LockOrder(p)] = q =>
                           MayGo(q) \/ pc[q] = "rlock" \/ (Waits(q) /\ LockOrder(p) < LockOrder(q))
                      /\ pc[p] = "rlock" /\ gcx = q => MayGo(q)
    BY DEF NoCircularWait
  <2>0. SweepInv /\ Holding(q) /\ Course(q)  BY DEF WaitInv, SweepInv
  <2>1. ASSUME Waits(p), vlock[LockOrder(p)] = q
        PROVE  MayGo(q) \/ pc[q] = "rlock" \/ (Waits(q) /\ LockOrder(p) < LockOrder(q))
    <3>1. LockOrder(p) \in Name  BY <2>0, <2>1, FirstMissing
    <3>2. pc[q] # "idle" /\ (op[q] # "gc" => LockOrder(p) \in Wanted(q))
      BY <2>0, <2>1, <3>1 DEF Holding
    <3>3. CASE Waits(q)
      <4>1. LockOrder(q) \in Missing(q)  BY <2>0, <3>3, FirstMissing
      <4>2. LockOrder(p) \in Wanted(q) \ Missing(q)
        BY <2>0, <2>1, <3>2, <3>3 DEF Course, Waits, Missing
      <4>3. QED  BY <2>0, <3>3, <4>1, <4>2 DEF Holding, Waits
    <3>4. CASE ~Waits(q)  BY <3>2, <3>4 DEF MayGo
    <3>5. QED  BY <3>3, <3>4
  <2>2. ASSUME pc[p] = "rlock", gcx = q PROVE MayGo(q)
    BY <2>0, <2>2 DEF Holding, MayGo, Waits, Sweeping
  <2>3. QED  BY <2>1, <2>2
<1>2. QED
  BY <1>1, WaitCorrect, PTL

-----------------------------------------------------------------------------
(* Ending.  What a call has left: its position, the locks it misses, and the *)
(* dirs and devices of its sweep.                                            *)

Own(p) == Call(p) \/ LockVM(p) \/ ProvisionLock(p) \/ Step(p) \/ Crash(p)

Nearer(p) ==
    \/ Turns[pc'[p]] < Turns[pc[p]]
    \/ /\ pc'[p] = pc[p]
       /\ Missing(p)' \subseteq Missing(p)
       /\ todo'[p] \subseteq todo[p] /\ cand'[p] \subseteq cand[p]
       /\ Missing(p)' # Missing(p) \/ todo'[p] # todo[p] \/ cand'[p] # cand[p]

Stays(p) ==
    pc'[p] = pc[p] /\ Missing(p)' = Missing(p) /\ todo'[p] = todo[p] /\ cand'[p] = cand[p]

(* A CLI's own step inside a call brings the call nearer to its end.         *)
LEMMA OwnNearer ==
    ASSUME SweepInv, NEW p \in Proc, Own(p), pc[p] # "idle"
    PROVE  Nearer(p)
<1>0. /\ pc \in [Proc -> PC] /\ vlock \in [Name -> Proc \cup {None}] /\ DOMAIN todo = Proc
  BY DEF SweepInv, TypeOK
<1>1. \A l \in PC : l # "idle" => Turns["idle"] < Turns[l]  BY TurnsOf DEF PC
<1>2. CASE LockVM(p)
  <2>1. LockOrder(p) \in Missing(p) /\ LockOrder(p) \in Name
    BY <1>2, FirstMissing DEF LockVM, Waits
  <2>2. Missing(p)' = Missing(p) \ {LockOrder(p)}
    BY <1>0, <1>2, <2>1 DEF LockVM, locals, Missing, Wanted
  <2>3. QED  BY <1>2, <2>1, <2>2 DEF LockVM, locals, Nearer
<1>3. CASE ProvisionLock(p)
  BY <1>0, <1>3, TurnsOf DEF ProvisionLock, Goto, Nearer
<1>4. ASSUME Returns(p) PROVE Nearer(p)
  <2>1. pc'[p] = "idle"  BY <1>0, <1>4 DEF Returns, Return, Goto
  <2>2. QED  BY <1>0, <1>1, <2>1 DEF Nearer
<1>5. CASE Step(p)
  <2>1. CASE Onward(p)  BY <2>1 DEF Onward, Nearer
  <2>2. CASE Dwindles(p)
    <3>1. Missing(p)' \subseteq Missing(p)
      BY <1>0, <2>2 DEF Dwindles, Missing, Wanted
    <3>2. QED  BY <2>2, <3>1 DEF Dwindles, Nearer
  <2>3. QED  BY <1>4, <1>5, <2>1, <2>2, StepForms
<1>6. CASE Crash(p)  BY <1>4, <1>6 DEF Crash, Returns
<1>7. QED
  BY <1>2, <1>3, <1>5, <1>6 DEF Own, Call

(* The steps of another leave a call where it is.                            *)
LEMMA OtherStays ==
    ASSUME SweepInv, NEW p \in Proc, NEW q \in Proc, q # p, Own(q)
    PROVE  Stays(p)
<1>0. /\ vlock \in [Name -> Proc \cup {None}] /\ None \notin Proc /\ pc \in [Proc -> PC]
      /\ DOMAIN op = Proc /\ DOMAIN nm = Proc /\ DOMAIN src = Proc
      /\ DOMAIN todo = Proc /\ DOMAIN cand = Proc
  BY NoneAssumption DEF SweepInv, TypeOK
<1> SUFFICES /\ Aside(q) /\ nm'[p] = nm[p] /\ src'[p] = src[p]
             /\ \A n \in Name : vlock'[n] = p <=> vlock[n] = p
  BY DEF Aside, Stays, Missing, Wanted
<1>1. CASE Call(q)
  BY <1>0, <1>1 DEF Call, Goto, locks, Aside
<1>2. CASE LockVM(q)
  BY <1>0, <1>2 DEF LockVM, locals, Aside
<1>3. CASE ProvisionLock(q)
  BY <1>0, <1>3 DEF ProvisionLock, Goto, locals, Aside
<1>4. ASSUME Returns(q)
      PROVE  /\ Aside(q) /\ nm'[p] = nm[p] /\ src'[p] = src[p]
             /\ \A n \in Name : vlock'[n] = p <=> vlock[n] = p
  BY <1>0, <1>4 DEF Returns, Return, Goto, Aside
<1>5. CASE Step(q)
  <2>1. Aside(q) /\ (Returns(q) \/ Onward(q) \/ Dwindles(q))  BY <1>5, StepForms
  <2>2. CASE Onward(q)  BY <2>1, <2>2 DEF Onward
  <2>3. CASE Dwindles(q)
    <3>1. \A n \in Name : vlock'[n] = p <=> vlock[n] = p  BY <1>0, <2>3 DEF Dwindles
    <3>2. QED  BY <2>1, <2>3, <3>1 DEF Dwindles
  <2>4. QED  BY <1>4, <2>1, <2>2, <2>3
<1>6. CASE Crash(q)  BY <1>4, <1>6 DEF Crash, Returns
<1>7. QED
  BY <1>1, <1>2, <1>3, <1>5, <1>6 DEF Own

(* The safety half of EveryCallEnds: every step of a CLI inside a call       *)
(* brings the call nearer to its end, and no step of another, of the guests  *)
(* or of the host takes it further from it.  A call has no loop that a       *)
(* neighbour can make it run again: it polls for a lock, and has it for good *)
(* (withVMLocks, withProvisionLock, runGC).                                  *)
THEOREM CallsAdvance ==
    Spec => [][\A p \in Proc : pc[p] # "idle" => Nearer(p) \/ (Stays(p) /\ ~Own(p))]_vars
<1>1. SweepInv /\ [Next]_vars =>
        [\A p \in Proc : pc[p] # "idle" => Nearer(p) \/ (Stays(p) /\ ~Own(p))]_vars
  <2> SUFFICES ASSUME SweepInv, Next, NEW p \in Proc, pc[p] # "idle"
               PROVE  Nearer(p) \/ (Stays(p) /\ ~Own(p))
    OBVIOUS
  <2>1. CASE Own(p)  BY <2>1, OwnNearer
  <2>2. CASE ~Own(p)
    <3>1. ASSUME NEW q \in Proc, Own(q) PROVE Stays(p)  BY <2>2, <3>1, OtherStays
    <3>2. ASSUME NEW n \in Name, QemuExit(n) PROVE Stays(p)
      BY <3>2 DEF QemuExit, locks, locals, Stays, Missing, Wanted
    <3>3. CASE Reboot
      <4>1. pc \in [Proc -> PC] /\ pc'[p] = "idle"  BY <3>3 DEF Reboot, SweepInv, TypeOK
      <4>2. QED  BY <4>1, TurnsOf DEF PC, Nearer
    <3>4. QED  BY <2>2, <3>1, <3>2, <3>3 DEF Next, Own
  <2>3. QED  BY <2>1, <2>2
<1>2. QED
  BY <1>1, SweepCorrect, PTL DEF Spec
=============================================================================
