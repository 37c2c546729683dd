--------------------------- MODULE NBDLeaseProofs ---------------------------
(***************************************************************************)
(* Theorems about NBDLease, for any number of CLIs, images and devices and *)
(* any faults: which device an injection may take, and what it leaves.     *)
(*                                                                         *)
(* InjectInv is inductive.  A CLI owns the image it works on and, inside   *)
(* InjectConfig, the lease; what it has read of the process table covers   *)
(* every use of a device that is not its own, and the device it is served  *)
(* from is reached by no other process.                                    *)
(***************************************************************************)
EXTENDS NBDLease, TLAPS

-----------------------------------------------------------------------------
Inside == PC \ {"idle", "lock", "commit", "cleanup"}
OnDevice == {"part", "mount", "mounting", "patch", "umount"}
Closing == {"disconnect", "disconnecting", "wait", "kill", "final"}

(* Nothing serves the device, and nothing is on its way to it.               *)
Untouched(d) == server[d] = None /\ \A c \in child : c.dev # d

Calling(p) ==
    /\ pc[p] = "idle" <=> img[p] = None
    /\ img[p] # None => img[p] \in dir \ saved
    /\ \A q \in Proc : img[p] # None /\ img[q] = img[p] => q = p
    /\ lease = p <=> pc[p] \in Inside
    /\ pc[p] \in Inside \ {"scan", "probe"} => at[p] \in Device

(* connectFreeNBD: the devices still to be tried are untouched, unless they  *)
(* were named in the process table that was read under the lease.            *)
Searching(p) ==
    /\ pc[p] \in {"probe", "connect"} =>
        \A d \in Device \ seen[p] : d >= at[p] => Untouched(d)
    /\ pc[p] \in {"connecting", "retry"} =>
        \A d \in Device \ seen[p] : d > at[p] => Untouched(d)
    /\ pc[p] = "connect" => at[p] \notin seen[p] /\ mount[at[p]] = None

(* The device it uses serves its image, and no process but its own command   *)
(* is on its way to it.                                                      *)
Using(p) ==
    /\ pc[p] = "connecting" => \A c \in child : c.dev = at[p] => c = Proceeding(p, "connect")
    /\ pc[p] \in OnDevice => server[at[p]] = img[p]
    /\ pc[p] \in OnDevice =>
        \A c \in child : c.dev = at[p] => pc[p] = "mounting" /\ c = Proceeding(p, "mount")

(* Without an error so far the identity is, or is about to be, in the image. *)
Patching(p) ==
    /\ pc[p] = "umount" /\ ~err[p] => at[p] \in dirty
    /\ pc[p] \in Closing /\ ~err[p] => img[p] \in patched
    /\ pc[p] = "commit" => img[p] \in patched

(* Where the call may end, its server is gone or withstood its kill.         *)
Releasing(p) ==
    /\ pc[p] = "kill" => cmdErr[p]
    /\ pc[p] = "final" /\ Held(img[p]) => cmdErr[p]
    /\ pc[p] = "commit" => ~Held(img[p])
    /\ pc[p] \in {"lock", "scan", "probe", "connect", "final", "cleanup"} /\ Held(img[p])
         => img[p] \in stuck

InjectInv ==
    /\ TypeOK
    /\ \A p \in Proc : Calling(p) /\ Searching(p) /\ Using(p) /\ Patching(p) /\ Releasing(p)
    /\ \A i \in saved : i \in patched /\ ~Held(i)
    /\ \A i \in Image \ dir : Held(i) => i \in stuck

-----------------------------------------------------------------------------
(* The types in two halves: of a CLI's own state, and of what it shares.     *)
ControlTypes ==
    /\ lease \in Proc \cup {None}
    /\ pc \in [Proc -> PC] /\ img \in [Proc -> Image \cup {None}]
    /\ at \in [Proc -> 0 .. NbdCount] /\ seen \in [Proc -> SUBSET Device]
    /\ ended \in [Proc -> BOOLEAN] /\ err \in [Proc -> BOOLEAN] /\ cmdErr \in [Proc -> BOOLEAN]
HostTypes ==
    /\ child \subseteq Children
    /\ server \in [Device -> Image \cup {None}] /\ mount \in [Device -> Image \cup {None}]
    /\ dirty \subseteq Device
    /\ patched \subseteq Image /\ dir \subseteq Image /\ saved \subseteq dir /\ stuck \subseteq Image

(* The types in two halves, now and after a step.                            *)
LEMMA TypeParts == TypeOK <=> ControlTypes /\ HostTypes
BY DEF TypeOK, ControlTypes, HostTypes

(* The same of the next state.                                               *)
LEMMA TypePartsNext == TypeOK' <=> ControlTypes' /\ HostTypes'
BY DEF TypeOK, ControlTypes, HostTypes

(* InjectConfig runs under the lease: nobody else is inside.                 *)
LEMMA Alone ==
    ASSUME InjectInv, NEW p \in Proc, pc[p] \in Inside
    PROVE  \A q \in Proc \ {p} : pc[q] \notin Inside
BY DEF InjectInv, Calling

(* Nothing is asked of the devices for a CLI that is not inside.             *)
LEMMA Outside ==
    ASSUME NEW q \in Proc, pc'[q] \notin Inside PROVE Searching(q)' /\ Using(q)'
BY DEF Searching, Using, OnDevice, Inside, PC

(* TerminateByCmdline: what it leaves held withstood its kill, and it does   *)
(* nothing to any device but those that serve the image.                     *)
Kills(i) == Terminated(i) \/ Unkillable(i)
Killed(i) ==
    /\ server' \in [Device -> Image \cup {None}] /\ child' \subseteq child
    /\ stuck' \subseteq Image /\ stuck \ {i} \subseteq stuck'
    /\ \A d \in Device : server'[d] \in {server[d], None}
    /\ \A d \in Device : server[d] # i => server'[d] = server[d]
    /\ Held(i)' => i \in stuck'

(* So do its two ways, a kill that works and one that is withstood.          *)
LEMMA KillsLemma == ASSUME TypeOK, NEW i \in Image, Kills(i) PROVE Killed(i)
<1> USE NoneAssumption DEF Held, Killed
<1>1. CASE Terminated(i)
  BY <1>1 DEF Terminated, TypeOK
<1>2. CASE Unkillable(i)
  BY <1>2 DEF Unkillable, TypeOK
<1> QED
  BY <1>1, <1>2 DEF Kills

-----------------------------------------------------------------------------
(* One lemma per action, one step per part of the invariant.                 *)

(* create begins on an image that nobody works on, with its servers dead.    *)
LEMMA CreateInv == ASSUME InjectInv, NEW p \in Proc, NEW i \in Image, Create(p, i) PROVE InjectInv'
<1> USE DEF Create, Goto, Unlocked
<1>d. Killed(i)
  <2>1. CASE UNCHANGED <<server, child, stuck>> /\ i \notin dir
    BY <2>1 DEF InjectInv, TypeOK, Killed, Held
  <2>2. CASE Terminated(i)
    BY <2>2, KillsLemma DEF InjectInv, Kills
  <2> QED
    BY <2>1, <2>2
<1>e. img[p] = None
  BY DEF InjectInv, Calling
<1>1. TypeOK'
  <2>1. ControlTypes'
    BY <1>d, <1>e, CountAssumption, NoneAssumption, TypeParts DEF Killed, Held, InjectInv,
       ControlTypes, HostTypes, Device, PC
  <2>2. HostTypes'
    BY <1>d, <1>e, CountAssumption, NoneAssumption, TypeParts DEF Killed, Held, InjectInv,
       Calling, Using, ControlTypes, HostTypes, Children, Kinds, Inside, PC, OnDevice,
       Closing
  <2> QED
    BY <2>1, <2>2, TypePartsNext
<1>2. ASSUME NEW q \in Proc PROVE Calling(q)'
  BY <1>d, <1>e, CountAssumption, NoneAssumption, TypeParts DEF Killed, Held, InjectInv,
     ControlTypes, PC, Device, Inside, Calling
<1>3. ASSUME NEW q \in Proc PROVE Searching(q)'
  BY <1>d, <1>e, CountAssumption, NoneAssumption, TypeParts DEF Killed, Held, InjectInv,
     ControlTypes, HostTypes, Device, Children, PC, Kinds, Inside, OnDevice, Closing,
     Calling, Searching, Using, Untouched, Proceeding
<1>4. ASSUME NEW q \in Proc PROVE Using(q)'
  <2>1. CASE q = p
    BY <2>1, TypeParts, Outside DEF InjectInv, ControlTypes, Inside, PC
  <2>2. CASE q # p
    <3>1. pc'[q] = pc[q] /\ img'[q] = img[q] /\ at'[q] = at[q]
      BY <2>2, TypeParts DEF InjectInv, ControlTypes
    <3>2. pc[q] \in OnDevice => img[q] # i /\ at[q] \in Device
      BY <2>2, TypeParts DEF InjectInv, ControlTypes, Calling, OnDevice, Inside, PC
    <3>3. child' \subseteq child /\ (pc[q] \in OnDevice => server'[at[q]] = server[at[q]])
      BY <3>2, <1>d, TypeParts DEF Killed, InjectInv, HostTypes, Using
    <3> HIDE DEF Create
    <3> QED
      BY <3>1, <3>3 DEF InjectInv, Using, Proceeding
  <2> QED
    BY <2>1, <2>2
<1>5. ASSUME NEW q \in Proc PROVE Patching(q)'
  BY <1>d, <1>e, CountAssumption, NoneAssumption, TypeParts DEF Killed, Held, InjectInv,
     ControlTypes, HostTypes, Device, Children, PC, Kinds, Inside, OnDevice, Closing,
     Calling, Using, Patching
<1>6. ASSUME NEW q \in Proc PROVE Releasing(q)'
  BY <1>d, <1>e, CountAssumption, NoneAssumption, TypeParts DEF Killed, Held, InjectInv,
     ControlTypes, HostTypes, Device, Children, PC, Kinds, Inside, OnDevice, Closing,
     Calling, Using, Releasing, Held
<1>7. (\A j \in saved : j \in patched /\ ~Held(j))'
  BY <1>d, <1>e, CountAssumption, NoneAssumption, TypeParts DEF Killed, Held, InjectInv,
     ControlTypes, HostTypes, Device, Children, PC, Kinds, Inside, OnDevice, Closing,
     Calling, Patching, Releasing, Held
<1>8. (\A j \in Image \ dir : Held(j) => j \in stuck)'
  BY <1>d, <1>e, CountAssumption, NoneAssumption, TypeParts DEF Killed, Held, InjectInv,
     ControlTypes, HostTypes, Device, Children, PC, Kinds, Inside, OnDevice, Closing,
     Calling, Releasing, Held
<1> QED
  BY <1>1, <1>2, <1>3, <1>4, <1>5, <1>6, <1>7, <1>8 DEF InjectInv

(* The record is saved for an image that is patched and free.                *)
LEMMA CommitInv == ASSUME InjectInv, NEW p \in Proc, Commit(p) PROVE InjectInv'
<1> USE DEF Commit, Idle, host, Goto
<1>1. TypeOK'
  <2>1. ControlTypes'
    BY CountAssumption, NoneAssumption, TypeParts DEF InjectInv, ControlTypes, HostTypes,
       Device, PC
  <2>2. HostTypes'
    BY CountAssumption, NoneAssumption, TypeParts DEF InjectInv, Calling, Using,
       ControlTypes, HostTypes, Children, Kinds, Inside, PC, OnDevice, Closing
  <2> QED
    BY <2>1, <2>2, TypePartsNext
<1>2. ASSUME NEW q \in Proc PROVE Calling(q)'
  BY CountAssumption, NoneAssumption, TypeParts DEF InjectInv, ControlTypes, PC, Device,
     Inside, Calling
<1>3. ASSUME NEW q \in Proc PROVE Searching(q)'
  <2>1. CASE q = p
    BY <2>1, TypeParts, Outside DEF InjectInv, ControlTypes, Inside, PC
  <2>2. CASE q # p
    BY <2>2, TypeParts DEF InjectInv, ControlTypes, Searching, Untouched
  <2> QED
    BY <2>1, <2>2
<1>4. ASSUME NEW q \in Proc PROVE Using(q)'
  BY CountAssumption, NoneAssumption, TypeParts DEF InjectInv, ControlTypes, HostTypes,
     Device, Children, PC, Kinds, Inside, OnDevice, Closing, Calling, Searching, Using,
     Untouched, Proceeding
<1>5. ASSUME NEW q \in Proc PROVE Patching(q)'
  BY CountAssumption, NoneAssumption, TypeParts DEF InjectInv, ControlTypes, HostTypes,
     Device, Children, PC, Kinds, Inside, OnDevice, Closing, Calling, Using, Patching
<1>6. ASSUME NEW q \in Proc PROVE Releasing(q)'
  BY CountAssumption, NoneAssumption, TypeParts DEF InjectInv, ControlTypes, HostTypes,
     Device, Children, PC, Kinds, Inside, OnDevice, Closing, Calling, Using, Releasing, Held
<1>7. (\A j \in saved : j \in patched /\ ~Held(j))'
  BY CountAssumption, NoneAssumption, TypeParts DEF InjectInv, ControlTypes, HostTypes,
     Device, Children, PC, Kinds, Inside, OnDevice, Closing, Calling, Patching, Releasing,
     Held
<1>8. (\A j \in Image \ dir : Held(j) => j \in stuck)'
  BY CountAssumption, NoneAssumption, TypeParts DEF InjectInv, ControlTypes, HostTypes,
     Device, Children, PC, Kinds, Inside, OnDevice, Closing, Calling, Releasing, Held
<1> QED
  BY <1>1, <1>2, <1>3, <1>4, <1>5, <1>6, <1>7, <1>8 DEF InjectInv

(* cleanupFailedVM: a server that outlives the dir withstood its kill.       *)
LEMMA CleanupInv == ASSUME InjectInv, NEW p \in Proc, Cleanup(p) PROVE InjectInv'
<1> USE DEF Cleanup, Idle, Goto
<1>b. PICK i \in Image : i = img[p]
  BY TypeParts DEF InjectInv, ControlTypes, Calling
<1>c. Killed(i)
  BY <1>b, KillsLemma DEF InjectInv, Kills
<1>1. TypeOK'
  <2>1. ControlTypes'
    BY <1>b, <1>c, CountAssumption, NoneAssumption, TypeParts DEF Killed, InjectInv,
       ControlTypes, HostTypes, Device, PC
  <2>2. HostTypes'
    BY <1>b, <1>c, CountAssumption, NoneAssumption, TypeParts DEF Killed, InjectInv,
       Calling, Using, ControlTypes, HostTypes, Children, Kinds, Inside, PC, OnDevice,
       Closing
  <2> QED
    BY <2>1, <2>2, TypePartsNext
<1>2. ASSUME NEW q \in Proc PROVE Calling(q)'
  BY <1>b, <1>c, CountAssumption, NoneAssumption, TypeParts DEF Killed, InjectInv,
     ControlTypes, PC, Device, Inside, Calling
<1>3. ASSUME NEW q \in Proc PROVE Searching(q)'
  BY <1>b, <1>c, CountAssumption, NoneAssumption, TypeParts DEF Killed, InjectInv,
     ControlTypes, HostTypes, Device, Children, PC, Kinds, Inside, OnDevice, Closing,
     Calling, Searching, Using, Untouched, Proceeding
<1>4. ASSUME NEW q \in Proc PROVE Using(q)'
  <2>1. CASE q = p
    BY <2>1, TypeParts, Outside DEF InjectInv, ControlTypes, Inside, PC
  <2>2. CASE q # p
    <3>1. pc'[q] = pc[q] /\ img'[q] = img[q] /\ at'[q] = at[q]
      BY <2>2, TypeParts DEF InjectInv, ControlTypes
    <3>2. pc[q] \in OnDevice => img[q] # i /\ at[q] \in Device
      BY <2>2, <1>b, TypeParts DEF InjectInv, ControlTypes, Calling, OnDevice, Inside, PC
    <3>3. child' \subseteq child /\ (pc[q] \in OnDevice => server'[at[q]] = server[at[q]])
      BY <3>2, <1>c, TypeParts DEF Killed, InjectInv, HostTypes, Using
    <3> HIDE DEF Cleanup
    <3> QED
      BY <3>1, <3>3 DEF InjectInv, Using, Proceeding
  <2> QED
    BY <2>1, <2>2
<1>5. ASSUME NEW q \in Proc PROVE Patching(q)'
  BY <1>b, <1>c, CountAssumption, NoneAssumption, TypeParts DEF Killed, InjectInv,
     ControlTypes, HostTypes, Device, Children, PC, Kinds, Inside, OnDevice, Closing,
     Calling, Using, Patching
<1>6. ASSUME NEW q \in Proc PROVE Releasing(q)'
  BY <1>b, <1>c, CountAssumption, NoneAssumption, TypeParts DEF Killed, InjectInv,
     ControlTypes, HostTypes, Device, Children, PC, Kinds, Inside, OnDevice, Closing,
     Calling, Using, Releasing, Held
<1>7. (\A j \in saved : j \in patched /\ ~Held(j))'
  BY <1>b, <1>c, CountAssumption, NoneAssumption, TypeParts DEF Killed, InjectInv,
     ControlTypes, HostTypes, Device, Children, PC, Kinds, Inside, OnDevice, Closing,
     Calling, Patching, Releasing, Held
<1>8. (\A j \in Image \ dir : Held(j) => j \in stuck)'
  BY <1>b, <1>c, CountAssumption, NoneAssumption, TypeParts DEF Killed, InjectInv,
     ControlTypes, HostTypes, Device, Children, PC, Kinds, Inside, OnDevice, Closing,
     Calling, Releasing, Held
<1> QED
  BY <1>1, <1>2, <1>3, <1>4, <1>5, <1>6, <1>7, <1>8 DEF InjectInv

(* gc resets a dir that nobody works on.                                     *)
LEMMA CollectInv == ASSUME InjectInv, NEW i \in Image, Collect(i) PROVE InjectInv'
<1> USE DEF Collect, Unlocked, locals
<1>d. Killed(i)
  BY KillsLemma DEF InjectInv, Kills
<1>1. TypeOK'
  <2>1. ControlTypes'
    BY <1>d, CountAssumption, NoneAssumption, TypeParts DEF Killed, InjectInv, ControlTypes,
       HostTypes, Device, PC
  <2>2. HostTypes'
    BY <1>d, CountAssumption, NoneAssumption, TypeParts DEF Killed, InjectInv, Calling,
       Using, ControlTypes, HostTypes, Children, Kinds, Inside, PC, OnDevice, Closing
  <2> QED
    BY <2>1, <2>2, TypePartsNext
<1>2. ASSUME NEW q \in Proc PROVE Calling(q)'
  BY <1>d, CountAssumption, NoneAssumption, TypeParts DEF Killed, InjectInv, ControlTypes,
     PC, Device, Inside, Calling
<1>3. ASSUME NEW q \in Proc PROVE Searching(q)'
  BY <1>d, CountAssumption, NoneAssumption, TypeParts DEF Killed, InjectInv, ControlTypes,
     HostTypes, Device, Children, PC, Kinds, Inside, OnDevice, Closing, Calling, Searching,
     Using, Untouched, Proceeding
<1>4. ASSUME NEW q \in Proc PROVE Using(q)'
  <2>1. pc[q] \in OnDevice => img[q] # i /\ at[q] \in Device
    BY TypeParts DEF InjectInv, ControlTypes, Calling, OnDevice, Inside, PC
  <2>2. child' \subseteq child /\ (pc[q] \in OnDevice => server'[at[q]] = server[at[q]])
    BY <2>1, <1>d, TypeParts DEF Killed, InjectInv, HostTypes, Using, Proceeding
  <2> QED
    BY <2>2 DEF InjectInv, Using, Proceeding
<1>5. ASSUME NEW q \in Proc PROVE Patching(q)'
  BY <1>d, CountAssumption, NoneAssumption, TypeParts DEF Killed, InjectInv, ControlTypes,
     HostTypes, Device, Children, PC, Kinds, Inside, OnDevice, Closing, Calling, Using,
     Patching
<1>6. ASSUME NEW q \in Proc PROVE Releasing(q)'
  BY <1>d, CountAssumption, NoneAssumption, TypeParts DEF Killed, InjectInv, ControlTypes,
     HostTypes, Device, Children, PC, Kinds, Inside, OnDevice, Closing, Calling, Using,
     Releasing, Held
<1>7. (\A j \in saved : j \in patched /\ ~Held(j))'
  BY <1>d, CountAssumption, NoneAssumption, TypeParts DEF Killed, InjectInv, ControlTypes,
     HostTypes, Device, Children, PC, Kinds, Inside, OnDevice, Closing, Calling, Patching,
     Releasing, Held
<1>8. (\A j \in Image \ dir : Held(j) => j \in stuck)'
  <2>1. ASSUME NEW j \in Image, Held(j)' PROVE Held(j)
    BY <2>1, <1>d, NoneAssumption DEF Killed, InjectInv, TypeOK, Held
  <2>2. ASSUME NEW j \in Image, j # i, j \in stuck PROVE j \in stuck'
    BY <2>2, <1>d, NoneAssumption DEF Killed
  <2> QED
    BY <2>1, <2>2, <1>d, NoneAssumption, TypeParts DEF Killed, InjectInv, HostTypes
<1> QED
  BY <1>1, <1>2, <1>3, <1>4, <1>5, <1>6, <1>7, <1>8 DEF InjectInv

(* rm of a VM: its image was free.                                           *)
LEMMA RMInv == ASSUME InjectInv, NEW i \in Image, RM(i) PROVE InjectInv'
<1> USE DEF RM, Unlocked, host, locals
<1>1. TypeOK'
  <2>1. ControlTypes'
    BY CountAssumption, NoneAssumption, TypeParts DEF InjectInv, ControlTypes, HostTypes,
       Device, PC
  <2>2. HostTypes'
    BY CountAssumption, NoneAssumption, TypeParts DEF InjectInv, Calling, Using,
       ControlTypes, HostTypes, Children, Kinds, Inside, PC, OnDevice, Closing
  <2> QED
    BY <2>1, <2>2, TypePartsNext
<1>2. ASSUME NEW q \in Proc PROVE Calling(q)'
  BY CountAssumption, NoneAssumption, TypeParts DEF InjectInv, ControlTypes, PC, Device,
     Inside, Calling
<1>3. ASSUME NEW q \in Proc PROVE Searching(q)'
  BY DEF InjectInv, Searching, Untouched
<1>4. ASSUME NEW q \in Proc PROVE Using(q)'
  BY DEF InjectInv, Using, Proceeding
<1>5. ASSUME NEW q \in Proc PROVE Patching(q)'
  BY CountAssumption, NoneAssumption, TypeParts DEF InjectInv, ControlTypes, HostTypes,
     Device, Children, PC, Kinds, Inside, OnDevice, Closing, Calling, Using, Patching
<1>6. ASSUME NEW q \in Proc PROVE Releasing(q)'
  BY CountAssumption, NoneAssumption, TypeParts DEF InjectInv, ControlTypes, HostTypes,
     Device, Children, PC, Kinds, Inside, OnDevice, Closing, Calling, Using, Releasing, Held
<1>7. (\A j \in saved : j \in patched /\ ~Held(j))'
  BY CountAssumption, NoneAssumption, TypeParts DEF InjectInv, ControlTypes, HostTypes,
     Device, Children, PC, Kinds, Inside, OnDevice, Closing, Calling, Patching, Releasing,
     Held
<1>8. (\A j \in Image \ dir : Held(j) => j \in stuck)'
  BY CountAssumption, NoneAssumption, TypeParts DEF InjectInv, ControlTypes, HostTypes,
     Device, Children, PC, Kinds, Inside, OnDevice, Closing, Calling, Releasing, Held
<1> QED
  BY <1>1, <1>2, <1>3, <1>4, <1>5, <1>6, <1>7, <1>8 DEF InjectInv

(* withNBDLease: the flock has one holder.                                   *)
LEMMA LockInv == ASSUME InjectInv, NEW p \in Proc, Lock(p) PROVE InjectInv'
<1> USE DEF Lock, Goto, host, files, locals
<1>a. TRUE
  OBVIOUS
<1>1. TypeOK'
  <2>1. ControlTypes'
    BY CountAssumption, NoneAssumption, TypeParts DEF InjectInv, ControlTypes, HostTypes,
       Device, PC
  <2>2. HostTypes'
    BY CountAssumption, NoneAssumption, TypeParts DEF InjectInv, Calling, Using,
       ControlTypes, HostTypes, Children, Kinds, Inside, PC, OnDevice, Closing
  <2> QED
    BY <2>1, <2>2, TypePartsNext
<1>2. ASSUME NEW q \in Proc PROVE Calling(q)'
  <2>1. CASE q = p
    BY <2>1, CountAssumption, NoneAssumption, TypeParts DEF InjectInv, ControlTypes, PC,
       Device, Inside, Calling
  <2>2. CASE q # p
    BY <2>2, <1>a, CountAssumption, NoneAssumption, TypeParts DEF InjectInv, ControlTypes,
       PC, Device, Inside, Calling
  <2> QED
    BY <2>1, <2>2
<1>3. ASSUME NEW q \in Proc PROVE Searching(q)'
  <2>1. CASE q = p
    BY <2>1, CountAssumption, NoneAssumption, TypeParts DEF InjectInv, ControlTypes,
       HostTypes, Device, Children, PC, Kinds, Inside, OnDevice, Closing, Calling,
       Searching, Using, Untouched, Proceeding
  <2>2. CASE q # p
    BY <2>2, <1>a, CountAssumption, NoneAssumption, TypeParts DEF InjectInv, ControlTypes,
       HostTypes, Device, Children, PC, Kinds, Inside, OnDevice, Closing, Calling,
       Searching, Using, Untouched, Proceeding
  <2> QED
    BY <2>1, <2>2
<1>4. ASSUME NEW q \in Proc PROVE Using(q)'
  <2>1. CASE q = p
    BY <2>1, CountAssumption, NoneAssumption, TypeParts DEF InjectInv, ControlTypes,
       HostTypes, Device, Children, PC, Kinds, Inside, OnDevice, Closing, Calling,
       Searching, Using, Untouched, Proceeding
  <2>2. CASE q # p
    BY <2>2, <1>a, CountAssumption, NoneAssumption, TypeParts DEF InjectInv, ControlTypes,
       HostTypes, Device, Children, PC, Kinds, Inside, OnDevice, Closing, Calling,
       Searching, Using, Untouched, Proceeding
  <2> QED
    BY <2>1, <2>2
<1>5. ASSUME NEW q \in Proc PROVE Patching(q)'
  <2>1. CASE q = p
    BY <2>1, CountAssumption, NoneAssumption, TypeParts DEF InjectInv, ControlTypes,
       HostTypes, Device, Children, PC, Kinds, Inside, OnDevice, Closing, Calling, Using,
       Patching
  <2>2. CASE q # p
    BY <2>2, <1>a, CountAssumption, NoneAssumption, TypeParts DEF InjectInv, ControlTypes,
       HostTypes, Device, Children, PC, Kinds, Inside, OnDevice, Closing, Calling, Using,
       Patching
  <2> QED
    BY <2>1, <2>2
<1>6. ASSUME NEW q \in Proc PROVE Releasing(q)'
  <2>1. CASE q = p
    BY <2>1, CountAssumption, NoneAssumption, TypeParts DEF InjectInv, ControlTypes,
       HostTypes, Device, Children, PC, Kinds, Inside, OnDevice, Closing, Calling, Using,
       Releasing, Held
  <2>2. CASE q # p
    BY <2>2, <1>a, CountAssumption, NoneAssumption, TypeParts DEF InjectInv, ControlTypes,
       HostTypes, Device, Children, PC, Kinds, Inside, OnDevice, Closing, Calling, Using,
       Releasing, Held
  <2> QED
    BY <2>1, <2>2
<1>7. (\A j \in saved : j \in patched /\ ~Held(j))'
  BY CountAssumption, NoneAssumption, TypeParts DEF InjectInv, ControlTypes, HostTypes,
     Device, Children, PC, Kinds, Inside, OnDevice, Closing, Calling, Patching, Releasing,
     Held
<1>8. (\A j \in Image \ dir : Held(j) => j \in stuck)'
  BY CountAssumption, NoneAssumption, TypeParts DEF InjectInv, ControlTypes, HostTypes,
     Device, Children, PC, Kinds, Inside, OnDevice, Closing, Calling, Releasing, Held
<1> QED
  BY <1>1, <1>2, <1>3, <1>4, <1>5, <1>6, <1>7, <1>8 DEF InjectInv

(* readProcCmdlines: under the lease every use is on some command line.      *)
LEMMA ScanInv == ASSUME InjectInv, NEW p \in Proc, Scan(p) PROVE InjectInv'
<1> USE DEF Scan, Goto, Leave, Fault, Referenced, host, files
<1>a. \A q \in Proc \ {p} : pc[q] \notin Inside /\ pc'[q] = pc[q]
  BY Alone, TypeParts DEF InjectInv, ControlTypes, Inside, PC
<1>1. TypeOK'
  <2>1. Referenced \subseteq Device
    BY TypeParts DEF InjectInv, HostTypes, Children
  <2>2. ControlTypes'
    <3> HIDE DEF Referenced
    <3> QED
      BY <2>1, NoneAssumption, TypeParts DEF InjectInv, ControlTypes, PC
  <2>3. HostTypes'
    BY TypeParts DEF InjectInv, HostTypes
  <2> QED
    BY <2>2, <2>3, TypePartsNext
<1>2. ASSUME NEW q \in Proc PROVE Calling(q)'
  <2>1. CASE q = p
    BY <2>1, CountAssumption, NoneAssumption, TypeParts DEF InjectInv, ControlTypes, PC,
       Device, Inside, Calling
  <2>2. CASE q # p
    BY <2>2, <1>a, CountAssumption, NoneAssumption, TypeParts DEF InjectInv, ControlTypes,
       PC, Device, Inside, Calling
  <2> QED
    BY <2>1, <2>2
<1>3. ASSUME NEW q \in Proc PROVE Searching(q)'
  <2>1. CASE q = p /\ pc'[p] = "probe"
    <3>1. seen'[p] = Referenced
      BY <2>1, NoneAssumption, TypeParts DEF InjectInv, ControlTypes
    <3>2. \A d \in Device \ Referenced : Untouched(d)'
      BY TypeParts DEF InjectInv, HostTypes, Untouched
    <3> QED
      BY <2>1, <3>1, <3>2 DEF Searching
  <2>2. CASE q = p /\ pc'[p] # "probe"
    BY <2>2, TypeParts DEF InjectInv, ControlTypes, Searching
  <2>3. CASE q # p
    BY <2>3, <1>a, Outside
  <2> QED
    BY <2>1, <2>2, <2>3
<1>4. ASSUME NEW q \in Proc PROVE Using(q)'
  <2>1. CASE q = p
    BY <2>1, CountAssumption, NoneAssumption, TypeParts DEF InjectInv, ControlTypes,
       HostTypes, Device, Children, PC, Kinds, Inside, OnDevice, Closing, Calling,
       Searching, Using, Untouched, Proceeding
  <2>2. CASE q # p
    BY <2>2, <1>a, Outside
  <2> QED
    BY <2>1, <2>2
<1>5. ASSUME NEW q \in Proc PROVE Patching(q)'
  <2>1. CASE q = p
    BY <2>1, CountAssumption, NoneAssumption, TypeParts DEF InjectInv, ControlTypes,
       HostTypes, Device, Children, PC, Kinds, Inside, OnDevice, Closing, Calling, Using,
       Patching
  <2>2. CASE q # p
    BY <2>2, <1>a, CountAssumption, NoneAssumption, TypeParts DEF InjectInv, ControlTypes,
       HostTypes, Device, Children, PC, Kinds, Inside, OnDevice, Closing, Calling, Using,
       Patching
  <2> QED
    BY <2>1, <2>2
<1>6. ASSUME NEW q \in Proc PROVE Releasing(q)'
  <2>1. CASE q = p
    BY <2>1, CountAssumption, NoneAssumption, TypeParts DEF InjectInv, ControlTypes,
       HostTypes, Device, Children, PC, Kinds, Inside, OnDevice, Closing, Calling, Using,
       Releasing, Held
  <2>2. CASE q # p
    BY <2>2, <1>a, CountAssumption, NoneAssumption, TypeParts DEF InjectInv, ControlTypes,
       HostTypes, Device, Children, PC, Kinds, Inside, OnDevice, Closing, Calling, Using,
       Releasing, Held
  <2> QED
    BY <2>1, <2>2
<1>7. (\A j \in saved : j \in patched /\ ~Held(j))'
  BY CountAssumption, NoneAssumption, TypeParts DEF InjectInv, ControlTypes, HostTypes,
     Device, Children, PC, Kinds, Inside, OnDevice, Closing, Calling, Patching, Releasing,
     Held
<1>8. (\A j \in Image \ dir : Held(j) => j \in stuck)'
  BY CountAssumption, NoneAssumption, TypeParts DEF InjectInv, ControlTypes, HostTypes,
     Device, Children, PC, Kinds, Inside, OnDevice, Closing, Calling, Releasing, Held
<1> QED
  BY <1>1, <1>2, <1>3, <1>4, <1>5, <1>6, <1>7, <1>8 DEF InjectInv

(* One turn of the loop of connectFreeNBD.                                   *)
LEMMA ProbeInv == ASSUME InjectInv, NEW p \in Proc, Probe(p) PROVE InjectInv'
<1> USE DEF Probe, Goto, Leave, SysfsPid, host, files
<1>a. \A q \in Proc \ {p} : pc[q] \notin Inside /\ pc'[q] = pc[q]
  BY Alone, TypeParts DEF InjectInv, ControlTypes, Inside, PC
<1>1. TypeOK'
  <2>1. ControlTypes'
    <3>1. at[p] \in Device => at[p] + 1 \in 0 .. NbdCount
      BY CountAssumption DEF Device
    <3> QED
      BY <3>1, NoneAssumption, TypeParts DEF InjectInv, Calling, Inside, ControlTypes, PC
  <2>2. HostTypes'
    BY TypeParts DEF InjectInv, HostTypes
  <2> QED
    BY <2>1, <2>2, TypePartsNext
<1>2. ASSUME NEW q \in Proc PROVE Calling(q)'
  <2>1. CASE q = p
    BY <2>1, CountAssumption, NoneAssumption, TypeParts DEF InjectInv, ControlTypes, PC,
       Device, Inside, Calling
  <2>2. CASE q # p
    BY <2>2, <1>a, CountAssumption, NoneAssumption, TypeParts DEF InjectInv, ControlTypes,
       PC, Device, Inside, Calling
  <2> QED
    BY <2>1, <2>2
<1>3. ASSUME NEW q \in Proc PROVE Searching(q)'
  <2>1. CASE q = p
    BY <2>1, CountAssumption, NoneAssumption, TypeParts DEF InjectInv, ControlTypes,
       HostTypes, Device, Children, PC, Kinds, Inside, OnDevice, Closing, Calling,
       Searching, Using, Untouched, Proceeding
  <2>2. CASE q # p
    BY <2>2, <1>a, Outside
  <2> QED
    BY <2>1, <2>2
<1>4. ASSUME NEW q \in Proc PROVE Using(q)'
  <2>1. CASE q = p
    BY <2>1, CountAssumption, NoneAssumption, TypeParts DEF InjectInv, ControlTypes,
       HostTypes, Device, Children, PC, Kinds, Inside, OnDevice, Closing, Calling,
       Searching, Using, Untouched, Proceeding
  <2>2. CASE q # p
    BY <2>2, <1>a, Outside
  <2> QED
    BY <2>1, <2>2
<1>5. ASSUME NEW q \in Proc PROVE Patching(q)'
  <2>1. CASE q = p
    BY <2>1, CountAssumption, NoneAssumption, TypeParts DEF InjectInv, ControlTypes,
       HostTypes, Device, Children, PC, Kinds, Inside, OnDevice, Closing, Calling, Using,
       Patching
  <2>2. CASE q # p
    BY <2>2, <1>a, CountAssumption, NoneAssumption, TypeParts DEF InjectInv, ControlTypes,
       HostTypes, Device, Children, PC, Kinds, Inside, OnDevice, Closing, Calling, Using,
       Patching
  <2> QED
    BY <2>1, <2>2
<1>6. ASSUME NEW q \in Proc PROVE Releasing(q)'
  <2>1. CASE q = p
    BY <2>1, CountAssumption, NoneAssumption, TypeParts DEF InjectInv, ControlTypes,
       HostTypes, Device, Children, PC, Kinds, Inside, OnDevice, Closing, Calling, Using,
       Releasing, Held
  <2>2. CASE q # p
    BY <2>2, <1>a, CountAssumption, NoneAssumption, TypeParts DEF InjectInv, ControlTypes,
       HostTypes, Device, Children, PC, Kinds, Inside, OnDevice, Closing, Calling, Using,
       Releasing, Held
  <2> QED
    BY <2>1, <2>2
<1>7. (\A j \in saved : j \in patched /\ ~Held(j))'
  BY CountAssumption, NoneAssumption, TypeParts DEF InjectInv, ControlTypes, HostTypes,
     Device, Children, PC, Kinds, Inside, OnDevice, Closing, Calling, Patching, Releasing,
     Held
<1>8. (\A j \in Image \ dir : Held(j) => j \in stuck)'
  BY CountAssumption, NoneAssumption, TypeParts DEF InjectInv, ControlTypes, HostTypes,
     Device, Children, PC, Kinds, Inside, OnDevice, Closing, Calling, Releasing, Held
<1> QED
  BY <1>1, <1>2, <1>3, <1>4, <1>5, <1>6, <1>7, <1>8 DEF InjectInv

(* The device it connects is untouched and unmounted.                        *)
LEMMA ConnectInv == ASSUME InjectInv, NEW p \in Proc, Connect(p) PROVE InjectInv'
<1> USE DEF Connect, Goto, Start, files, locals, Proceeding
<1>a. \A q \in Proc \ {p} : pc[q] \notin Inside /\ pc'[q] = pc[q]
  BY Alone, TypeParts DEF InjectInv, ControlTypes, Inside, PC
<1>1. TypeOK'
  <2>1. ControlTypes'
    BY CountAssumption, NoneAssumption, TypeParts DEF InjectInv, ControlTypes, HostTypes,
       Device, PC
  <2>2. HostTypes'
    BY CountAssumption, NoneAssumption, TypeParts DEF InjectInv, Calling, Using,
       ControlTypes, HostTypes, Children, Kinds, Inside, PC, OnDevice, Closing
  <2> QED
    BY <2>1, <2>2, TypePartsNext
<1>2. ASSUME NEW q \in Proc PROVE Calling(q)'
  <2>1. CASE q = p
    BY <2>1, CountAssumption, NoneAssumption, TypeParts DEF InjectInv, ControlTypes, PC,
       Device, Inside, Calling
  <2>2. CASE q # p
    BY <2>2, <1>a, CountAssumption, NoneAssumption, TypeParts DEF InjectInv, ControlTypes,
       PC, Device, Inside, Calling
  <2> QED
    BY <2>1, <2>2
<1>3. ASSUME NEW q \in Proc PROVE Searching(q)'
  <2>1. CASE q = p
    BY <2>1, CountAssumption, NoneAssumption, TypeParts DEF InjectInv, ControlTypes,
       HostTypes, Device, Children, PC, Kinds, Inside, OnDevice, Closing, Calling,
       Searching, Using, Untouched, Proceeding
  <2>2. CASE q # p
    BY <2>2, <1>a, Outside
  <2> QED
    BY <2>1, <2>2
<1>4. ASSUME NEW q \in Proc PROVE Using(q)'
  <2>1. CASE q = p
    BY <2>1, CountAssumption, NoneAssumption, TypeParts DEF InjectInv, ControlTypes,
       HostTypes, Device, Children, PC, Kinds, Inside, OnDevice, Closing, Calling,
       Searching, Using, Untouched, Proceeding
  <2>2. CASE q # p
    BY <2>2, <1>a, Outside
  <2> QED
    BY <2>1, <2>2
<1>5. ASSUME NEW q \in Proc PROVE Patching(q)'
  <2>1. CASE q = p
    BY <2>1, CountAssumption, NoneAssumption, TypeParts DEF InjectInv, ControlTypes,
       HostTypes, Device, Children, PC, Kinds, Inside, OnDevice, Closing, Calling, Using,
       Patching
  <2>2. CASE q # p
    BY <2>2, <1>a, CountAssumption, NoneAssumption, TypeParts DEF InjectInv, ControlTypes,
       HostTypes, Device, Children, PC, Kinds, Inside, OnDevice, Closing, Calling, Using,
       Patching
  <2> QED
    BY <2>1, <2>2
<1>6. ASSUME NEW q \in Proc PROVE Releasing(q)'
  <2>1. CASE q = p
    BY <2>1, CountAssumption, NoneAssumption, TypeParts DEF InjectInv, ControlTypes,
       HostTypes, Device, Children, PC, Kinds, Inside, OnDevice, Closing, Calling, Using,
       Releasing, Held
  <2>2. CASE q # p
    BY <2>2, <1>a, CountAssumption, NoneAssumption, TypeParts DEF InjectInv, ControlTypes,
       HostTypes, Device, Children, PC, Kinds, Inside, OnDevice, Closing, Calling, Using,
       Releasing, Held
  <2> QED
    BY <2>1, <2>2
<1>7. (\A j \in saved : j \in patched /\ ~Held(j))'
  BY CountAssumption, NoneAssumption, TypeParts DEF InjectInv, ControlTypes, HostTypes,
     Device, Children, PC, Kinds, Inside, OnDevice, Closing, Calling, Patching, Releasing,
     Held
<1>8. (\A j \in Image \ dir : Held(j) => j \in stuck)'
  BY CountAssumption, NoneAssumption, TypeParts DEF InjectInv, ControlTypes, HostTypes,
     Device, Children, PC, Kinds, Inside, OnDevice, Closing, Calling, Releasing, Held
<1> QED
  BY <1>1, <1>2, <1>3, <1>4, <1>5, <1>6, <1>7, <1>8 DEF InjectInv

(* A connect that returns with its server up has the device to itself.       *)
LEMMA ConnectingInv == ASSUME InjectInv, NEW p \in Proc, Connecting(p) PROVE InjectInv'
<1> USE DEF Connecting, Goto, Proceeding, Fault, files, locals
<1>a. \A q \in Proc \ {p} : pc[q] \notin Inside /\ pc'[q] = pc[q]
  BY Alone, TypeParts DEF InjectInv, ControlTypes, Inside, PC
<1>1. TypeOK'
  <2>1. ControlTypes'
    BY CountAssumption, NoneAssumption, TypeParts DEF InjectInv, ControlTypes, HostTypes,
       Device, PC
  <2>2. HostTypes'
    BY CountAssumption, NoneAssumption, TypeParts DEF InjectInv, Calling, Using,
       ControlTypes, HostTypes, Children, Kinds, Inside, PC, OnDevice, Closing
  <2> QED
    BY <2>1, <2>2, TypePartsNext
<1>2. ASSUME NEW q \in Proc PROVE Calling(q)'
  <2>1. CASE q = p
    BY <2>1, CountAssumption, NoneAssumption, TypeParts DEF InjectInv, ControlTypes, PC,
       Device, Inside, Calling
  <2>2. CASE q # p
    BY <2>2, <1>a, CountAssumption, NoneAssumption, TypeParts DEF InjectInv, ControlTypes,
       PC, Device, Inside, Calling
  <2> QED
    BY <2>1, <2>2
<1>3. ASSUME NEW q \in Proc PROVE Searching(q)'
  <2>1. CASE q = p
    <3>1. child' \subseteq child /\ server' = server /\ at' = at /\ seen' = seen
      OBVIOUS
    <3>2. pc'[p] \in {"part", "unread", "retry"}
      BY TypeParts DEF InjectInv, ControlTypes
    <3> HIDE DEF Connecting
    <3> QED
      BY <2>1, <3>1, <3>2, TypeParts DEF InjectInv, Searching, Untouched, Connecting
  <2>2. CASE q # p
    BY <2>2, <1>a, Outside
  <2> QED
    BY <2>1, <2>2
<1>4. ASSUME NEW q \in Proc PROVE Using(q)'
  <2>1. CASE q = p
    BY <2>1, CountAssumption, NoneAssumption, TypeParts DEF InjectInv, ControlTypes,
       HostTypes, Device, Children, PC, Kinds, Inside, OnDevice, Closing, Calling,
       Searching, Using, Untouched, Proceeding
  <2>2. CASE q # p
    BY <2>2, <1>a, Outside
  <2> QED
    BY <2>1, <2>2
<1>5. ASSUME NEW q \in Proc PROVE Patching(q)'
  <2>1. CASE q = p
    BY <2>1, CountAssumption, NoneAssumption, TypeParts DEF InjectInv, ControlTypes,
       HostTypes, Device, Children, PC, Kinds, Inside, OnDevice, Closing, Calling, Using,
       Patching
  <2>2. CASE q # p
    BY <2>2, <1>a, CountAssumption, NoneAssumption, TypeParts DEF InjectInv, ControlTypes,
       HostTypes, Device, Children, PC, Kinds, Inside, OnDevice, Closing, Calling, Using,
       Patching
  <2> QED
    BY <2>1, <2>2
<1>6. ASSUME NEW q \in Proc PROVE Releasing(q)'
  <2>1. CASE q = p
    BY <2>1, CountAssumption, NoneAssumption, TypeParts DEF InjectInv, ControlTypes,
       HostTypes, Device, Children, PC, Kinds, Inside, OnDevice, Closing, Calling, Using,
       Releasing, Held
  <2>2. CASE q # p
    BY <2>2, <1>a, CountAssumption, NoneAssumption, TypeParts DEF InjectInv, ControlTypes,
       HostTypes, Device, Children, PC, Kinds, Inside, OnDevice, Closing, Calling, Using,
       Releasing, Held
  <2> QED
    BY <2>1, <2>2
<1>7. (\A j \in saved : j \in patched /\ ~Held(j))'
  BY CountAssumption, NoneAssumption, TypeParts DEF InjectInv, ControlTypes, HostTypes,
     Device, Children, PC, Kinds, Inside, OnDevice, Closing, Calling, Patching, Releasing,
     Held
<1>8. (\A j \in Image \ dir : Held(j) => j \in stuck)'
  BY CountAssumption, NoneAssumption, TypeParts DEF InjectInv, ControlTypes, HostTypes,
     Device, Children, PC, Kinds, Inside, OnDevice, Closing, Calling, Releasing, Held
<1> QED
  BY <1>1, <1>2, <1>3, <1>4, <1>5, <1>6, <1>7, <1>8 DEF InjectInv

(* A failed connect leaves no server of its image that could be killed.      *)
LEMMA RetryInv == ASSUME InjectInv, NEW p \in Proc, Retry(p) PROVE InjectInv'
<1> USE DEF Retry, Goto, Leave, files
<1>a. \A q \in Proc \ {p} : pc[q] \notin Inside /\ pc'[q] = pc[q]
  BY Alone, TypeParts DEF InjectInv, ControlTypes, Inside, PC
<1>b. PICK i \in Image : i = img[p]
  BY TypeParts DEF InjectInv, ControlTypes, Calling
<1>c. Killed(i)
  BY <1>b, KillsLemma DEF InjectInv, Kills
<1>1. TypeOK'
  <2>1. ControlTypes'
    <3>1. at[p] \in Device => at[p] + 1 \in 0 .. NbdCount
      BY CountAssumption DEF Device
    <3> QED
      BY <3>1, NoneAssumption, TypeParts DEF InjectInv, Calling, Inside, ControlTypes, PC
  <2>2. HostTypes'
    BY <1>b, <1>c, TypeParts DEF InjectInv, HostTypes, Killed
  <2> QED
    BY <2>1, <2>2, TypePartsNext
<1>2. ASSUME NEW q \in Proc PROVE Calling(q)'
  <2>1. CASE q = p
    BY <2>1, <1>b, <1>c, CountAssumption, NoneAssumption, TypeParts DEF Killed, InjectInv,
       ControlTypes, PC, Device, Inside, Calling
  <2>2. CASE q # p
    BY <2>2, <1>a, <1>b, <1>c, CountAssumption, NoneAssumption, TypeParts DEF Killed,
       InjectInv, ControlTypes, PC, Device, Inside, Calling
  <2> QED
    BY <2>1, <2>2
<1>3. ASSUME NEW q \in Proc PROVE Searching(q)'
  <2>1. CASE q = p
    BY <2>1, <1>b, <1>c, CountAssumption, NoneAssumption, TypeParts DEF Killed, InjectInv,
       ControlTypes, HostTypes, Device, Children, PC, Kinds, Inside, OnDevice, Closing,
       Calling, Searching, Using, Untouched, Proceeding
  <2>2. CASE q # p
    BY <2>2, <1>a, Outside
  <2> QED
    BY <2>1, <2>2
<1>4. ASSUME NEW q \in Proc PROVE Using(q)'
  <2>1. CASE q = p
    BY <2>1, <1>b, <1>c, CountAssumption, NoneAssumption, TypeParts DEF Killed, InjectInv,
       ControlTypes, HostTypes, Device, Children, PC, Kinds, Inside, OnDevice, Closing,
       Calling, Searching, Using, Untouched, Proceeding
  <2>2. CASE q # p
    BY <2>2, <1>a, Outside
  <2> QED
    BY <2>1, <2>2
<1>5. ASSUME NEW q \in Proc PROVE Patching(q)'
  <2>1. CASE q = p
    BY <2>1, <1>b, <1>c, CountAssumption, NoneAssumption, TypeParts DEF Killed, InjectInv,
       ControlTypes, HostTypes, Device, Children, PC, Kinds, Inside, OnDevice, Closing,
       Calling, Using, Patching
  <2>2. CASE q # p
    BY <2>2, <1>a, <1>b, <1>c, CountAssumption, NoneAssumption, TypeParts DEF Killed,
       InjectInv, ControlTypes, HostTypes, Device, Children, PC, Kinds, Inside, OnDevice,
       Closing, Calling, Using, Patching
  <2> QED
    BY <2>1, <2>2
<1>6. ASSUME NEW q \in Proc PROVE Releasing(q)'
  <2>1. CASE q = p
    BY <2>1, <1>b, <1>c, CountAssumption, NoneAssumption, TypeParts DEF Killed, InjectInv,
       ControlTypes, HostTypes, Device, Children, PC, Kinds, Inside, OnDevice, Closing,
       Calling, Using, Releasing, Held
  <2>2. CASE q # p
    BY <2>2, <1>a, <1>b, <1>c, CountAssumption, NoneAssumption, TypeParts DEF Killed,
       InjectInv, ControlTypes, HostTypes, Device, Children, PC, Kinds, Inside, OnDevice,
       Closing, Calling, Using, Releasing, Held
  <2> QED
    BY <2>1, <2>2
<1>7. (\A j \in saved : j \in patched /\ ~Held(j))'
  BY <1>b, <1>c, CountAssumption, NoneAssumption, TypeParts DEF Killed, InjectInv,
     ControlTypes, HostTypes, Device, Children, PC, Kinds, Inside, OnDevice, Closing,
     Calling, Patching, Releasing, Held
<1>8. (\A j \in Image \ dir : Held(j) => j \in stuck)'
  <2>1. ASSUME NEW j \in Image, Held(j)' PROVE Held(j)
    BY <2>1, <1>b, <1>c, NoneAssumption DEF Killed, InjectInv, TypeOK, Held
  <2>2. ASSUME NEW j \in Image, j # i, j \in stuck PROVE j \in stuck'
    BY <2>2, <1>b, <1>c, NoneAssumption DEF Killed
  <2> QED
    BY <2>1, <2>2, <1>b, <1>c, NoneAssumption, TypeParts DEF Killed, InjectInv, HostTypes
<1> QED
  BY <1>1, <1>2, <1>3, <1>4, <1>5, <1>6, <1>7, <1>8 DEF InjectInv

(* The server whose pidfile is unreadable is killed, or withstands it.       *)
LEMMA UnreadInv == ASSUME InjectInv, NEW p \in Proc, Unread(p) PROVE InjectInv'
<1> USE DEF Unread, Leave, files, locals, Goto
<1>a. \A q \in Proc \ {p} : pc[q] \notin Inside /\ pc'[q] = pc[q]
  BY Alone, TypeParts DEF InjectInv, ControlTypes, Inside, PC
<1>b. PICK i \in Image : i = img[p]
  BY TypeParts DEF InjectInv, ControlTypes, Calling
<1>c. Killed(i)
  BY <1>b, KillsLemma DEF InjectInv, Kills
<1>1. TypeOK'
  <2>1. ControlTypes'
    BY <1>b, <1>c, CountAssumption, NoneAssumption, TypeParts DEF Killed, InjectInv,
       ControlTypes, HostTypes, Device, PC
  <2>2. HostTypes'
    BY <1>b, <1>c, CountAssumption, NoneAssumption, TypeParts DEF Killed, InjectInv,
       Calling, Using, ControlTypes, HostTypes, Children, Kinds, Inside, PC, OnDevice,
       Closing
  <2> QED
    BY <2>1, <2>2, TypePartsNext
<1>2. ASSUME NEW q \in Proc PROVE Calling(q)'
  <2>1. CASE q = p
    BY <2>1, <1>b, <1>c, CountAssumption, NoneAssumption, TypeParts DEF Killed, InjectInv,
       ControlTypes, PC, Device, Inside, Calling
  <2>2. CASE q # p
    BY <2>2, <1>a, <1>b, <1>c, CountAssumption, NoneAssumption, TypeParts DEF Killed,
       InjectInv, ControlTypes, PC, Device, Inside, Calling
  <2> QED
    BY <2>1, <2>2
<1>3. ASSUME NEW q \in Proc PROVE Searching(q)'
  <2>1. CASE q = p
    BY <2>1, <1>b, <1>c, CountAssumption, NoneAssumption, TypeParts DEF Killed, InjectInv,
       ControlTypes, HostTypes, Device, Children, PC, Kinds, Inside, OnDevice, Closing,
       Calling, Searching, Using, Untouched, Proceeding
  <2>2. CASE q # p
    BY <2>2, <1>a, Outside
  <2> QED
    BY <2>1, <2>2
<1>4. ASSUME NEW q \in Proc PROVE Using(q)'
  <2>1. CASE q = p
    BY <2>1, <1>b, <1>c, CountAssumption, NoneAssumption, TypeParts DEF Killed, InjectInv,
       ControlTypes, HostTypes, Device, Children, PC, Kinds, Inside, OnDevice, Closing,
       Calling, Searching, Using, Untouched, Proceeding
  <2>2. CASE q # p
    BY <2>2, <1>a, Outside
  <2> QED
    BY <2>1, <2>2
<1>5. ASSUME NEW q \in Proc PROVE Patching(q)'
  <2>1. CASE q = p
    BY <2>1, <1>b, <1>c, CountAssumption, NoneAssumption, TypeParts DEF Killed, InjectInv,
       ControlTypes, HostTypes, Device, Children, PC, Kinds, Inside, OnDevice, Closing,
       Calling, Using, Patching
  <2>2. CASE q # p
    BY <2>2, <1>a, <1>b, <1>c, CountAssumption, NoneAssumption, TypeParts DEF Killed,
       InjectInv, ControlTypes, HostTypes, Device, Children, PC, Kinds, Inside, OnDevice,
       Closing, Calling, Using, Patching
  <2> QED
    BY <2>1, <2>2
<1>6. ASSUME NEW q \in Proc PROVE Releasing(q)'
  <2>1. CASE q = p
    BY <2>1, <1>b, <1>c, CountAssumption, NoneAssumption, TypeParts DEF Killed, InjectInv,
       ControlTypes, HostTypes, Device, Children, PC, Kinds, Inside, OnDevice, Closing,
       Calling, Using, Releasing, Held
  <2>2. CASE q # p
    BY <2>2, <1>a, <1>b, <1>c, CountAssumption, NoneAssumption, TypeParts DEF Killed,
       InjectInv, ControlTypes, HostTypes, Device, Children, PC, Kinds, Inside, OnDevice,
       Closing, Calling, Using, Releasing, Held
  <2> QED
    BY <2>1, <2>2
<1>7. (\A j \in saved : j \in patched /\ ~Held(j))'
  BY <1>b, <1>c, CountAssumption, NoneAssumption, TypeParts DEF Killed, InjectInv,
     ControlTypes, HostTypes, Device, Children, PC, Kinds, Inside, OnDevice, Closing,
     Calling, Patching, Releasing, Held
<1>8. (\A j \in Image \ dir : Held(j) => j \in stuck)'
  BY <1>b, <1>c, CountAssumption, NoneAssumption, TypeParts DEF Killed, InjectInv,
     ControlTypes, HostTypes, Device, Children, PC, Kinds, Inside, OnDevice, Closing,
     Calling, Releasing, Held
<1> QED
  BY <1>1, <1>2, <1>3, <1>4, <1>5, <1>6, <1>7, <1>8 DEF InjectInv

(* waitForPart.                                                              *)
LEMMA WaitForPartInv == ASSUME InjectInv, NEW p \in Proc, WaitForPart(p) PROVE InjectInv'
<1> USE DEF WaitForPart, Goto, Fail, host, files
<1>a. \A q \in Proc \ {p} : pc[q] \notin Inside /\ pc'[q] = pc[q]
  BY Alone, TypeParts DEF InjectInv, ControlTypes, Inside, PC
<1>1. TypeOK'
  <2>1. ControlTypes'
    BY CountAssumption, NoneAssumption, TypeParts DEF InjectInv, ControlTypes, HostTypes,
       Device, PC
  <2>2. HostTypes'
    BY CountAssumption, NoneAssumption, TypeParts DEF InjectInv, Calling, Using,
       ControlTypes, HostTypes, Children, Kinds, Inside, PC, OnDevice, Closing
  <2> QED
    BY <2>1, <2>2, TypePartsNext
<1>2. ASSUME NEW q \in Proc PROVE Calling(q)'
  <2>1. CASE q = p
    BY <2>1, CountAssumption, NoneAssumption, TypeParts DEF InjectInv, ControlTypes, PC,
       Device, Inside, Calling
  <2>2. CASE q # p
    BY <2>2, <1>a, CountAssumption, NoneAssumption, TypeParts DEF InjectInv, ControlTypes,
       PC, Device, Inside, Calling
  <2> QED
    BY <2>1, <2>2
<1>3. ASSUME NEW q \in Proc PROVE Searching(q)'
  <2>1. CASE q = p
    BY <2>1, CountAssumption, NoneAssumption, TypeParts DEF InjectInv, ControlTypes,
       HostTypes, Device, Children, PC, Kinds, Inside, OnDevice, Closing, Calling,
       Searching, Using, Untouched, Proceeding
  <2>2. CASE q # p
    BY <2>2, <1>a, Outside
  <2> QED
    BY <2>1, <2>2
<1>4. ASSUME NEW q \in Proc PROVE Using(q)'
  <2>1. CASE q = p
    BY <2>1, CountAssumption, NoneAssumption, TypeParts DEF InjectInv, ControlTypes,
       HostTypes, Device, Children, PC, Kinds, Inside, OnDevice, Closing, Calling,
       Searching, Using, Untouched, Proceeding
  <2>2. CASE q # p
    BY <2>2, <1>a, Outside
  <2> QED
    BY <2>1, <2>2
<1>5. ASSUME NEW q \in Proc PROVE Patching(q)'
  <2>1. CASE q = p
    BY <2>1, CountAssumption, NoneAssumption, TypeParts DEF InjectInv, ControlTypes,
       HostTypes, Device, Children, PC, Kinds, Inside, OnDevice, Closing, Calling, Using,
       Patching
  <2>2. CASE q # p
    BY <2>2, <1>a, CountAssumption, NoneAssumption, TypeParts DEF InjectInv, ControlTypes,
       HostTypes, Device, Children, PC, Kinds, Inside, OnDevice, Closing, Calling, Using,
       Patching
  <2> QED
    BY <2>1, <2>2
<1>6. ASSUME NEW q \in Proc PROVE Releasing(q)'
  <2>1. CASE q = p
    BY <2>1, CountAssumption, NoneAssumption, TypeParts DEF InjectInv, ControlTypes,
       HostTypes, Device, Children, PC, Kinds, Inside, OnDevice, Closing, Calling, Using,
       Releasing, Held
  <2>2. CASE q # p
    BY <2>2, <1>a, CountAssumption, NoneAssumption, TypeParts DEF InjectInv, ControlTypes,
       HostTypes, Device, Children, PC, Kinds, Inside, OnDevice, Closing, Calling, Using,
       Releasing, Held
  <2> QED
    BY <2>1, <2>2
<1>7. (\A j \in saved : j \in patched /\ ~Held(j))'
  BY CountAssumption, NoneAssumption, TypeParts DEF InjectInv, ControlTypes, HostTypes,
     Device, Children, PC, Kinds, Inside, OnDevice, Closing, Calling, Patching, Releasing,
     Held
<1>8. (\A j \in Image \ dir : Held(j) => j \in stuck)'
  BY CountAssumption, NoneAssumption, TypeParts DEF InjectInv, ControlTypes, HostTypes,
     Device, Children, PC, Kinds, Inside, OnDevice, Closing, Calling, Releasing, Held
<1> QED
  BY <1>1, <1>2, <1>3, <1>4, <1>5, <1>6, <1>7, <1>8 DEF InjectInv

(* The mount command goes to the device that serves the image.               *)
LEMMA MountInv == ASSUME InjectInv, NEW p \in Proc, Mount(p) PROVE InjectInv'
<1> USE DEF Mount, Goto, Fail, Start, files, Proceeding
<1>a. \A q \in Proc \ {p} : pc[q] \notin Inside /\ pc'[q] = pc[q]
  BY Alone, TypeParts DEF InjectInv, ControlTypes, Inside, PC
<1>1. TypeOK'
  <2>1. ControlTypes'
    BY ZenonT(60), CountAssumption, NoneAssumption, TypeParts DEF InjectInv, ControlTypes, HostTypes,
       Device, PC
  <2>2. HostTypes'
    BY CountAssumption, NoneAssumption, TypeParts DEF InjectInv, Calling, Using,
       ControlTypes, HostTypes, Children, Kinds, Inside, PC, OnDevice, Closing
  <2> QED
    BY <2>1, <2>2, TypePartsNext
<1>2. ASSUME NEW q \in Proc PROVE Calling(q)'
  <2>1. CASE q = p
    BY <2>1, CountAssumption, NoneAssumption, TypeParts DEF InjectInv, ControlTypes, PC,
       Device, Inside, Calling
  <2>2. CASE q # p
    BY <2>2, <1>a, CountAssumption, NoneAssumption, TypeParts DEF InjectInv, ControlTypes,
       PC, Device, Inside, Calling
  <2> QED
    BY <2>1, <2>2
<1>3. ASSUME NEW q \in Proc PROVE Searching(q)'
  <2>1. CASE q = p
    BY <2>1, CountAssumption, NoneAssumption, TypeParts DEF InjectInv, ControlTypes,
       HostTypes, Device, Children, PC, Kinds, Inside, OnDevice, Closing, Calling,
       Searching, Using, Untouched, Proceeding
  <2>2. CASE q # p
    BY <2>2, <1>a, Outside
  <2> QED
    BY <2>1, <2>2
<1>4. ASSUME NEW q \in Proc PROVE Using(q)'
  <2>1. CASE q = p
    BY <2>1, CountAssumption, NoneAssumption, TypeParts DEF InjectInv, ControlTypes,
       HostTypes, Device, Children, PC, Kinds, Inside, OnDevice, Closing, Calling,
       Searching, Using, Untouched, Proceeding
  <2>2. CASE q # p
    BY <2>2, <1>a, Outside
  <2> QED
    BY <2>1, <2>2
<1>5. ASSUME NEW q \in Proc PROVE Patching(q)'
  <2>1. CASE q = p
    BY <2>1, CountAssumption, NoneAssumption, TypeParts DEF InjectInv, ControlTypes,
       HostTypes, Device, Children, PC, Kinds, Inside, OnDevice, Closing, Calling, Using,
       Patching
  <2>2. CASE q # p
    BY <2>2, <1>a, CountAssumption, NoneAssumption, TypeParts DEF InjectInv, ControlTypes,
       HostTypes, Device, Children, PC, Kinds, Inside, OnDevice, Closing, Calling, Using,
       Patching
  <2> QED
    BY <2>1, <2>2
<1>6. ASSUME NEW q \in Proc PROVE Releasing(q)'
  <2>1. CASE q = p
    BY <2>1, CountAssumption, NoneAssumption, TypeParts DEF InjectInv, ControlTypes,
       HostTypes, Device, Children, PC, Kinds, Inside, OnDevice, Closing, Calling, Using,
       Releasing, Held
  <2>2. CASE q # p
    BY <2>2, <1>a, CountAssumption, NoneAssumption, TypeParts DEF InjectInv, ControlTypes,
       HostTypes, Device, Children, PC, Kinds, Inside, OnDevice, Closing, Calling, Using,
       Releasing, Held
  <2> QED
    BY <2>1, <2>2
<1>7. (\A j \in saved : j \in patched /\ ~Held(j))'
  BY CountAssumption, NoneAssumption, TypeParts DEF InjectInv, ControlTypes, HostTypes,
     Device, Children, PC, Kinds, Inside, OnDevice, Closing, Calling, Patching, Releasing,
     Held
<1>8. (\A j \in Image \ dir : Held(j) => j \in stuck)'
  BY CountAssumption, NoneAssumption, TypeParts DEF InjectInv, ControlTypes, HostTypes,
     Device, Children, PC, Kinds, Inside, OnDevice, Closing, Calling, Releasing, Held
<1> QED
  BY <1>1, <1>2, <1>3, <1>4, <1>5, <1>6, <1>7, <1>8 DEF InjectInv

(* mount returns or is killed.                                               *)
LEMMA MountingInv == ASSUME InjectInv, NEW p \in Proc, Mounting(p) PROVE InjectInv'
<1> USE DEF Mounting, Goto, Fail, Proceeding, files
<1>a. \A q \in Proc \ {p} : pc[q] \notin Inside /\ pc'[q] = pc[q]
  BY Alone, TypeParts DEF InjectInv, ControlTypes, Inside, PC
<1>1. TypeOK'
  <2>1. ControlTypes'
    BY CountAssumption, NoneAssumption, TypeParts DEF InjectInv, ControlTypes, HostTypes,
       Device, PC
  <2>2. HostTypes'
    BY CountAssumption, NoneAssumption, TypeParts DEF InjectInv, Calling, Using,
       ControlTypes, HostTypes, Children, Kinds, Inside, PC, OnDevice, Closing
  <2> QED
    BY <2>1, <2>2, TypePartsNext
<1>2. ASSUME NEW q \in Proc PROVE Calling(q)'
  <2>1. CASE q = p
    BY <2>1, CountAssumption, NoneAssumption, TypeParts DEF InjectInv, ControlTypes, PC,
       Device, Inside, Calling
  <2>2. CASE q # p
    BY <2>2, <1>a, CountAssumption, NoneAssumption, TypeParts DEF InjectInv, ControlTypes,
       PC, Device, Inside, Calling
  <2> QED
    BY <2>1, <2>2
<1>3. ASSUME NEW q \in Proc PROVE Searching(q)'
  <2>1. CASE q = p
    BY <2>1, CountAssumption, NoneAssumption, TypeParts DEF InjectInv, ControlTypes,
       HostTypes, Device, Children, PC, Kinds, Inside, OnDevice, Closing, Calling,
       Searching, Using, Untouched, Proceeding
  <2>2. CASE q # p
    BY <2>2, <1>a, Outside
  <2> QED
    BY <2>1, <2>2
<1>4. ASSUME NEW q \in Proc PROVE Using(q)'
  <2>1. CASE q = p
    BY <2>1, CountAssumption, NoneAssumption, TypeParts DEF InjectInv, ControlTypes,
       HostTypes, Device, Children, PC, Kinds, Inside, OnDevice, Closing, Calling,
       Searching, Using, Untouched, Proceeding
  <2>2. CASE q # p
    BY <2>2, <1>a, Outside
  <2> QED
    BY <2>1, <2>2
<1>5. ASSUME NEW q \in Proc PROVE Patching(q)'
  <2>1. CASE q = p
    BY <2>1, CountAssumption, NoneAssumption, TypeParts DEF InjectInv, ControlTypes,
       HostTypes, Device, Children, PC, Kinds, Inside, OnDevice, Closing, Calling, Using,
       Patching
  <2>2. CASE q # p
    BY <2>2, <1>a, CountAssumption, NoneAssumption, TypeParts DEF InjectInv, ControlTypes,
       HostTypes, Device, Children, PC, Kinds, Inside, OnDevice, Closing, Calling, Using,
       Patching
  <2> QED
    BY <2>1, <2>2
<1>6. ASSUME NEW q \in Proc PROVE Releasing(q)'
  <2>1. CASE q = p
    BY <2>1, CountAssumption, NoneAssumption, TypeParts DEF InjectInv, ControlTypes,
       HostTypes, Device, Children, PC, Kinds, Inside, OnDevice, Closing, Calling, Using,
       Releasing, Held
  <2>2. CASE q # p
    BY <2>2, <1>a, CountAssumption, NoneAssumption, TypeParts DEF InjectInv, ControlTypes,
       HostTypes, Device, Children, PC, Kinds, Inside, OnDevice, Closing, Calling, Using,
       Releasing, Held
  <2> QED
    BY <2>1, <2>2
<1>7. (\A j \in saved : j \in patched /\ ~Held(j))'
  BY CountAssumption, NoneAssumption, TypeParts DEF InjectInv, ControlTypes, HostTypes,
     Device, Children, PC, Kinds, Inside, OnDevice, Closing, Calling, Patching, Releasing,
     Held
<1>8. (\A j \in Image \ dir : Held(j) => j \in stuck)'
  BY CountAssumption, NoneAssumption, TypeParts DEF InjectInv, ControlTypes, HostTypes,
     Device, Children, PC, Kinds, Inside, OnDevice, Closing, Calling, Releasing, Held
<1> QED
  BY <1>1, <1>2, <1>3, <1>4, <1>5, <1>6, <1>7, <1>8 DEF InjectInv

(* patchPlist writes to the mount of its own image.                          *)
LEMMA PatchInv == ASSUME InjectInv, NEW p \in Proc, Patch(p) PROVE InjectInv'
<1> USE DEF Patch, Goto, Fail, Fault, files
<1>a. \A q \in Proc \ {p} : pc[q] \notin Inside /\ pc'[q] = pc[q]
  BY Alone, TypeParts DEF InjectInv, ControlTypes, Inside, PC
<1>1. TypeOK'
  <2>1. ControlTypes'
    BY CountAssumption, NoneAssumption, TypeParts DEF InjectInv, ControlTypes, HostTypes,
       Device, PC
  <2>2. HostTypes'
    BY CountAssumption, NoneAssumption, TypeParts DEF InjectInv, Calling, Using,
       ControlTypes, HostTypes, Children, Kinds, Inside, PC, OnDevice, Closing
  <2> QED
    BY <2>1, <2>2, TypePartsNext
<1>2. ASSUME NEW q \in Proc PROVE Calling(q)'
  <2>1. CASE q = p
    BY <2>1, CountAssumption, NoneAssumption, TypeParts DEF InjectInv, ControlTypes, PC,
       Device, Inside, Calling
  <2>2. CASE q # p
    BY <2>2, <1>a, CountAssumption, NoneAssumption, TypeParts DEF InjectInv, ControlTypes,
       PC, Device, Inside, Calling
  <2> QED
    BY <2>1, <2>2
<1>3. ASSUME NEW q \in Proc PROVE Searching(q)'
  <2>1. CASE q = p
    BY <2>1, CountAssumption, NoneAssumption, TypeParts DEF InjectInv, ControlTypes,
       HostTypes, Device, Children, PC, Kinds, Inside, OnDevice, Closing, Calling,
       Searching, Using, Untouched, Proceeding
  <2>2. CASE q # p
    BY <2>2, <1>a, Outside
  <2> QED
    BY <2>1, <2>2
<1>4. ASSUME NEW q \in Proc PROVE Using(q)'
  <2>1. CASE q = p
    BY <2>1, CountAssumption, NoneAssumption, TypeParts DEF InjectInv, ControlTypes,
       HostTypes, Device, Children, PC, Kinds, Inside, OnDevice, Closing, Calling,
       Searching, Using, Untouched, Proceeding
  <2>2. CASE q # p
    BY <2>2, <1>a, Outside
  <2> QED
    BY <2>1, <2>2
<1>5. ASSUME NEW q \in Proc PROVE Patching(q)'
  <2>1. CASE q = p
    BY <2>1, CountAssumption, NoneAssumption, TypeParts DEF InjectInv, ControlTypes,
       HostTypes, Device, Children, PC, Kinds, Inside, OnDevice, Closing, Calling, Using,
       Patching
  <2>2. CASE q # p
    BY <2>2, <1>a, CountAssumption, NoneAssumption, TypeParts DEF InjectInv, ControlTypes,
       HostTypes, Device, Children, PC, Kinds, Inside, OnDevice, Closing, Calling, Using,
       Patching
  <2> QED
    BY <2>1, <2>2
<1>6. ASSUME NEW q \in Proc PROVE Releasing(q)'
  <2>1. CASE q = p
    BY <2>1, CountAssumption, NoneAssumption, TypeParts DEF InjectInv, ControlTypes,
       HostTypes, Device, Children, PC, Kinds, Inside, OnDevice, Closing, Calling, Using,
       Releasing, Held
  <2>2. CASE q # p
    BY <2>2, <1>a, CountAssumption, NoneAssumption, TypeParts DEF InjectInv, ControlTypes,
       HostTypes, Device, Children, PC, Kinds, Inside, OnDevice, Closing, Calling, Using,
       Releasing, Held
  <2> QED
    BY <2>1, <2>2
<1>7. (\A j \in saved : j \in patched /\ ~Held(j))'
  BY CountAssumption, NoneAssumption, TypeParts DEF InjectInv, ControlTypes, HostTypes,
     Device, Children, PC, Kinds, Inside, OnDevice, Closing, Calling, Patching, Releasing,
     Held
<1>8. (\A j \in Image \ dir : Held(j) => j \in stuck)'
  BY CountAssumption, NoneAssumption, TypeParts DEF InjectInv, ControlTypes, HostTypes,
     Device, Children, PC, Kinds, Inside, OnDevice, Closing, Calling, Releasing, Held
<1> QED
  BY <1>1, <1>2, <1>3, <1>4, <1>5, <1>6, <1>7, <1>8 DEF InjectInv

(* cleanupNBDMount flushes to the image that is served.                      *)
LEMMA UmountInv == ASSUME InjectInv, NEW p \in Proc, Umount(p) PROVE InjectInv'
<1> USE DEF Umount, Goto, Fail, Fault
<1>a. \A q \in Proc \ {p} : pc[q] \notin Inside /\ pc'[q] = pc[q]
  BY Alone, TypeParts DEF InjectInv, ControlTypes, Inside, PC
<1>1. TypeOK'
  <2>1. ControlTypes'
    BY CountAssumption, NoneAssumption, TypeParts DEF InjectInv, ControlTypes, HostTypes,
       Device, PC
  <2>2. HostTypes'
    BY CountAssumption, NoneAssumption, TypeParts DEF InjectInv, Calling, Using,
       ControlTypes, HostTypes, Children, Kinds, Inside, PC, OnDevice, Closing
  <2> QED
    BY <2>1, <2>2, TypePartsNext
<1>2. ASSUME NEW q \in Proc PROVE Calling(q)'
  <2>1. CASE q = p
    BY <2>1, CountAssumption, NoneAssumption, TypeParts DEF InjectInv, ControlTypes, PC,
       Device, Inside, Calling
  <2>2. CASE q # p
    BY <2>2, <1>a, CountAssumption, NoneAssumption, TypeParts DEF InjectInv, ControlTypes,
       PC, Device, Inside, Calling
  <2> QED
    BY <2>1, <2>2
<1>3. ASSUME NEW q \in Proc PROVE Searching(q)'
  <2>1. CASE q = p
    BY <2>1, CountAssumption, NoneAssumption, TypeParts DEF InjectInv, ControlTypes,
       HostTypes, Device, Children, PC, Kinds, Inside, OnDevice, Closing, Calling,
       Searching, Using, Untouched, Proceeding
  <2>2. CASE q # p
    BY <2>2, <1>a, Outside
  <2> QED
    BY <2>1, <2>2
<1>4. ASSUME NEW q \in Proc PROVE Using(q)'
  <2>1. CASE q = p
    BY <2>1, CountAssumption, NoneAssumption, TypeParts DEF InjectInv, ControlTypes,
       HostTypes, Device, Children, PC, Kinds, Inside, OnDevice, Closing, Calling,
       Searching, Using, Untouched, Proceeding
  <2>2. CASE q # p
    BY <2>2, <1>a, Outside
  <2> QED
    BY <2>1, <2>2
<1>5. ASSUME NEW q \in Proc PROVE Patching(q)'
  <2>1. CASE q = p
    BY <2>1, CountAssumption, NoneAssumption, TypeParts DEF InjectInv, ControlTypes,
       HostTypes, Device, Children, PC, Kinds, Inside, OnDevice, Closing, Calling, Using,
       Patching
  <2>2. CASE q # p
    BY <2>2, <1>a, CountAssumption, NoneAssumption, TypeParts DEF InjectInv, ControlTypes,
       HostTypes, Device, Children, PC, Kinds, Inside, OnDevice, Closing, Calling, Using,
       Patching
  <2> QED
    BY <2>1, <2>2
<1>6. ASSUME NEW q \in Proc PROVE Releasing(q)'
  <2>1. CASE q = p
    BY <2>1, CountAssumption, NoneAssumption, TypeParts DEF InjectInv, ControlTypes,
       HostTypes, Device, Children, PC, Kinds, Inside, OnDevice, Closing, Calling, Using,
       Releasing, Held
  <2>2. CASE q # p
    BY <2>2, <1>a, CountAssumption, NoneAssumption, TypeParts DEF InjectInv, ControlTypes,
       HostTypes, Device, Children, PC, Kinds, Inside, OnDevice, Closing, Calling, Using,
       Releasing, Held
  <2> QED
    BY <2>1, <2>2
<1>7. (\A j \in saved : j \in patched /\ ~Held(j))'
  BY CountAssumption, NoneAssumption, TypeParts DEF InjectInv, ControlTypes, HostTypes,
     Device, Children, PC, Kinds, Inside, OnDevice, Closing, Calling, Patching, Releasing,
     Held
<1>8. (\A j \in Image \ dir : Held(j) => j \in stuck)'
  BY CountAssumption, NoneAssumption, TypeParts DEF InjectInv, ControlTypes, HostTypes,
     Device, Children, PC, Kinds, Inside, OnDevice, Closing, Calling, Releasing, Held
<1> QED
  BY <1>1, <1>2, <1>3, <1>4, <1>5, <1>6, <1>7, <1>8 DEF InjectInv

(* qemu-nbd --disconnect is started.                                         *)
LEMMA DisconnectInv == ASSUME InjectInv, NEW p \in Proc, Disconnect(p) PROVE InjectInv'
<1> USE DEF Disconnect, Goto, Start, files, locals, Proceeding
<1>a. \A q \in Proc \ {p} : pc[q] \notin Inside /\ pc'[q] = pc[q]
  BY Alone, TypeParts DEF InjectInv, ControlTypes, Inside, PC
<1>1. TypeOK'
  <2>1. ControlTypes'
    BY CountAssumption, NoneAssumption, TypeParts DEF InjectInv, ControlTypes, HostTypes,
       Device, PC
  <2>2. HostTypes'
    BY CountAssumption, NoneAssumption, TypeParts DEF InjectInv, Calling, Using,
       ControlTypes, HostTypes, Children, Kinds, Inside, PC, OnDevice, Closing
  <2> QED
    BY <2>1, <2>2, TypePartsNext
<1>2. ASSUME NEW q \in Proc PROVE Calling(q)'
  <2>1. CASE q = p
    BY <2>1, CountAssumption, NoneAssumption, TypeParts DEF InjectInv, ControlTypes, PC,
       Device, Inside, Calling
  <2>2. CASE q # p
    BY <2>2, <1>a, CountAssumption, NoneAssumption, TypeParts DEF InjectInv, ControlTypes,
       PC, Device, Inside, Calling
  <2> QED
    BY <2>1, <2>2
<1>3. ASSUME NEW q \in Proc PROVE Searching(q)'
  <2>1. CASE q = p
    BY <2>1, CountAssumption, NoneAssumption, TypeParts DEF InjectInv, ControlTypes,
       HostTypes, Device, Children, PC, Kinds, Inside, OnDevice, Closing, Calling,
       Searching, Using, Untouched, Proceeding
  <2>2. CASE q # p
    BY <2>2, <1>a, Outside
  <2> QED
    BY <2>1, <2>2
<1>4. ASSUME NEW q \in Proc PROVE Using(q)'
  <2>1. CASE q = p
    BY <2>1, CountAssumption, NoneAssumption, TypeParts DEF InjectInv, ControlTypes,
       HostTypes, Device, Children, PC, Kinds, Inside, OnDevice, Closing, Calling,
       Searching, Using, Untouched, Proceeding
  <2>2. CASE q # p
    BY <2>2, <1>a, Outside
  <2> QED
    BY <2>1, <2>2
<1>5. ASSUME NEW q \in Proc PROVE Patching(q)'
  <2>1. CASE q = p
    BY <2>1, CountAssumption, NoneAssumption, TypeParts DEF InjectInv, ControlTypes,
       HostTypes, Device, Children, PC, Kinds, Inside, OnDevice, Closing, Calling, Using,
       Patching
  <2>2. CASE q # p
    BY <2>2, <1>a, CountAssumption, NoneAssumption, TypeParts DEF InjectInv, ControlTypes,
       HostTypes, Device, Children, PC, Kinds, Inside, OnDevice, Closing, Calling, Using,
       Patching
  <2> QED
    BY <2>1, <2>2
<1>6. ASSUME NEW q \in Proc PROVE Releasing(q)'
  <2>1. CASE q = p
    BY <2>1, CountAssumption, NoneAssumption, TypeParts DEF InjectInv, ControlTypes,
       HostTypes, Device, Children, PC, Kinds, Inside, OnDevice, Closing, Calling, Using,
       Releasing, Held
  <2>2. CASE q # p
    BY <2>2, <1>a, CountAssumption, NoneAssumption, TypeParts DEF InjectInv, ControlTypes,
       HostTypes, Device, Children, PC, Kinds, Inside, OnDevice, Closing, Calling, Using,
       Releasing, Held
  <2> QED
    BY <2>1, <2>2
<1>7. (\A j \in saved : j \in patched /\ ~Held(j))'
  BY CountAssumption, NoneAssumption, TypeParts DEF InjectInv, ControlTypes, HostTypes,
     Device, Children, PC, Kinds, Inside, OnDevice, Closing, Calling, Patching, Releasing,
     Held
<1>8. (\A j \in Image \ dir : Held(j) => j \in stuck)'
  BY CountAssumption, NoneAssumption, TypeParts DEF InjectInv, ControlTypes, HostTypes,
     Device, Children, PC, Kinds, Inside, OnDevice, Closing, Calling, Releasing, Held
<1> QED
  BY <1>1, <1>2, <1>3, <1>4, <1>5, <1>6, <1>7, <1>8 DEF InjectInv

(* It returns, or is killed at its timeout.                                  *)
LEMMA DisconnectingInv == ASSUME InjectInv, NEW p \in Proc, Disconnecting(p) PROVE InjectInv'
<1> USE DEF Disconnecting, Goto, Proceeding, files
<1>a. \A q \in Proc \ {p} : pc[q] \notin Inside /\ pc'[q] = pc[q]
  BY Alone, TypeParts DEF InjectInv, ControlTypes, Inside, PC
<1>1. TypeOK'
  <2>1. ControlTypes'
    BY CountAssumption, NoneAssumption, TypeParts DEF InjectInv, ControlTypes, HostTypes,
       Device, PC
  <2>2. HostTypes'
    BY CountAssumption, NoneAssumption, TypeParts DEF InjectInv, Calling, Using,
       ControlTypes, HostTypes, Children, Kinds, Inside, PC, OnDevice, Closing
  <2> QED
    BY <2>1, <2>2, TypePartsNext
<1>2. ASSUME NEW q \in Proc PROVE Calling(q)'
  <2>1. CASE q = p
    BY <2>1, CountAssumption, NoneAssumption, TypeParts DEF InjectInv, ControlTypes, PC,
       Device, Inside, Calling
  <2>2. CASE q # p
    BY <2>2, <1>a, CountAssumption, NoneAssumption, TypeParts DEF InjectInv, ControlTypes,
       PC, Device, Inside, Calling
  <2> QED
    BY <2>1, <2>2
<1>3. ASSUME NEW q \in Proc PROVE Searching(q)'
  <2>1. CASE q = p
    BY <2>1, CountAssumption, NoneAssumption, TypeParts DEF InjectInv, ControlTypes,
       HostTypes, Device, Children, PC, Kinds, Inside, OnDevice, Closing, Calling,
       Searching, Using, Untouched, Proceeding
  <2>2. CASE q # p
    BY <2>2, <1>a, Outside
  <2> QED
    BY <2>1, <2>2
<1>4. ASSUME NEW q \in Proc PROVE Using(q)'
  <2>1. CASE q = p
    BY <2>1, CountAssumption, NoneAssumption, TypeParts DEF InjectInv, ControlTypes,
       HostTypes, Device, Children, PC, Kinds, Inside, OnDevice, Closing, Calling,
       Searching, Using, Untouched, Proceeding
  <2>2. CASE q # p
    BY <2>2, <1>a, Outside
  <2> QED
    BY <2>1, <2>2
<1>5. ASSUME NEW q \in Proc PROVE Patching(q)'
  <2>1. CASE q = p
    BY <2>1, CountAssumption, NoneAssumption, TypeParts DEF InjectInv, ControlTypes,
       HostTypes, Device, Children, PC, Kinds, Inside, OnDevice, Closing, Calling, Using,
       Patching
  <2>2. CASE q # p
    BY <2>2, <1>a, CountAssumption, NoneAssumption, TypeParts DEF InjectInv, ControlTypes,
       HostTypes, Device, Children, PC, Kinds, Inside, OnDevice, Closing, Calling, Using,
       Patching
  <2> QED
    BY <2>1, <2>2
<1>6. ASSUME NEW q \in Proc PROVE Releasing(q)'
  <2>1. CASE q = p
    BY <2>1, CountAssumption, NoneAssumption, TypeParts DEF InjectInv, ControlTypes,
       HostTypes, Device, Children, PC, Kinds, Inside, OnDevice, Closing, Calling, Using,
       Releasing, Held
  <2>2. CASE q # p
    BY <2>2, <1>a, CountAssumption, NoneAssumption, TypeParts DEF InjectInv, ControlTypes,
       HostTypes, Device, Children, PC, Kinds, Inside, OnDevice, Closing, Calling, Using,
       Releasing, Held
  <2> QED
    BY <2>1, <2>2
<1>7. (\A j \in saved : j \in patched /\ ~Held(j))'
  BY CountAssumption, NoneAssumption, TypeParts DEF InjectInv, ControlTypes, HostTypes,
     Device, Children, PC, Kinds, Inside, OnDevice, Closing, Calling, Patching, Releasing,
     Held
<1>8. (\A j \in Image \ dir : Held(j) => j \in stuck)'
  BY CountAssumption, NoneAssumption, TypeParts DEF InjectInv, ControlTypes, HostTypes,
     Device, Children, PC, Kinds, Inside, OnDevice, Closing, Calling, Releasing, Held
<1> QED
  BY <1>1, <1>2, <1>3, <1>4, <1>5, <1>6, <1>7, <1>8 DEF InjectInv

(* An image that is not let go is an error of the command.                   *)
LEMMA WaitFreeInv == ASSUME InjectInv, NEW p \in Proc, WaitFree(p) PROVE InjectInv'
<1> USE DEF WaitFree, Goto, host, files
<1>a. \A q \in Proc \ {p} : pc[q] \notin Inside /\ pc'[q] = pc[q]
  BY Alone, TypeParts DEF InjectInv, ControlTypes, Inside, PC
<1>1. TypeOK'
  <2>1. ControlTypes'
    BY CountAssumption, NoneAssumption, TypeParts DEF InjectInv, ControlTypes, HostTypes,
       Device, PC
  <2>2. HostTypes'
    BY CountAssumption, NoneAssumption, TypeParts DEF InjectInv, Calling, Using,
       ControlTypes, HostTypes, Children, Kinds, Inside, PC, OnDevice, Closing
  <2> QED
    BY <2>1, <2>2, TypePartsNext
<1>2. ASSUME NEW q \in Proc PROVE Calling(q)'
  <2>1. CASE q = p
    BY <2>1, CountAssumption, NoneAssumption, TypeParts DEF InjectInv, ControlTypes, PC,
       Device, Inside, Calling
  <2>2. CASE q # p
    BY <2>2, <1>a, CountAssumption, NoneAssumption, TypeParts DEF InjectInv, ControlTypes,
       PC, Device, Inside, Calling
  <2> QED
    BY <2>1, <2>2
<1>3. ASSUME NEW q \in Proc PROVE Searching(q)'
  <2>1. CASE q = p
    BY <2>1, CountAssumption, NoneAssumption, TypeParts DEF InjectInv, ControlTypes,
       HostTypes, Device, Children, PC, Kinds, Inside, OnDevice, Closing, Calling,
       Searching, Using, Untouched, Proceeding
  <2>2. CASE q # p
    BY <2>2, <1>a, Outside
  <2> QED
    BY <2>1, <2>2
<1>4. ASSUME NEW q \in Proc PROVE Using(q)'
  <2>1. CASE q = p
    BY <2>1, CountAssumption, NoneAssumption, TypeParts DEF InjectInv, ControlTypes,
       HostTypes, Device, Children, PC, Kinds, Inside, OnDevice, Closing, Calling,
       Searching, Using, Untouched, Proceeding
  <2>2. CASE q # p
    BY <2>2, <1>a, Outside
  <2> QED
    BY <2>1, <2>2
<1>5. ASSUME NEW q \in Proc PROVE Patching(q)'
  <2>1. CASE q = p
    BY <2>1, CountAssumption, NoneAssumption, TypeParts DEF InjectInv, ControlTypes,
       HostTypes, Device, Children, PC, Kinds, Inside, OnDevice, Closing, Calling, Using,
       Patching
  <2>2. CASE q # p
    BY <2>2, <1>a, CountAssumption, NoneAssumption, TypeParts DEF InjectInv, ControlTypes,
       HostTypes, Device, Children, PC, Kinds, Inside, OnDevice, Closing, Calling, Using,
       Patching
  <2> QED
    BY <2>1, <2>2
<1>6. ASSUME NEW q \in Proc PROVE Releasing(q)'
  <2>1. CASE q = p
    BY <2>1, CountAssumption, NoneAssumption, TypeParts DEF InjectInv, ControlTypes,
       HostTypes, Device, Children, PC, Kinds, Inside, OnDevice, Closing, Calling, Using,
       Releasing, Held
  <2>2. CASE q # p
    BY <2>2, <1>a, CountAssumption, NoneAssumption, TypeParts DEF InjectInv, ControlTypes,
       HostTypes, Device, Children, PC, Kinds, Inside, OnDevice, Closing, Calling, Using,
       Releasing, Held
  <2> QED
    BY <2>1, <2>2
<1>7. (\A j \in saved : j \in patched /\ ~Held(j))'
  BY CountAssumption, NoneAssumption, TypeParts DEF InjectInv, ControlTypes, HostTypes,
     Device, Children, PC, Kinds, Inside, OnDevice, Closing, Calling, Patching, Releasing,
     Held
<1>8. (\A j \in Image \ dir : Held(j) => j \in stuck)'
  BY CountAssumption, NoneAssumption, TypeParts DEF InjectInv, ControlTypes, HostTypes,
     Device, Children, PC, Kinds, Inside, OnDevice, Closing, Calling, Releasing, Held
<1> QED
  BY <1>1, <1>2, <1>3, <1>4, <1>5, <1>6, <1>7, <1>8 DEF InjectInv

(* What TerminateByCmdline leaves withstood its kill.                        *)
LEMMA KillServerInv == ASSUME InjectInv, NEW p \in Proc, KillServer(p) PROVE InjectInv'
<1> USE DEF KillServer, Goto, files, locals
<1>a. \A q \in Proc \ {p} : pc[q] \notin Inside /\ pc'[q] = pc[q]
  BY Alone, TypeParts DEF InjectInv, ControlTypes, Inside, PC
<1>b. PICK i \in Image : i = img[p]
  BY TypeParts DEF InjectInv, ControlTypes, Calling
<1>c. Killed(i)
  BY <1>b, KillsLemma DEF InjectInv, Kills
<1>1. TypeOK'
  <2>1. ControlTypes'
    BY <1>b, <1>c, CountAssumption, NoneAssumption, TypeParts DEF Killed, InjectInv,
       ControlTypes, HostTypes, Device, PC
  <2>2. HostTypes'
    BY <1>b, <1>c, CountAssumption, NoneAssumption, TypeParts DEF Killed, InjectInv,
       Calling, Using, ControlTypes, HostTypes, Children, Kinds, Inside, PC, OnDevice,
       Closing
  <2> QED
    BY <2>1, <2>2, TypePartsNext
<1>2. ASSUME NEW q \in Proc PROVE Calling(q)'
  <2>1. CASE q = p
    BY <2>1, <1>b, <1>c, CountAssumption, NoneAssumption, TypeParts DEF Killed, InjectInv,
       ControlTypes, PC, Device, Inside, Calling
  <2>2. CASE q # p
    BY <2>2, <1>a, <1>b, <1>c, CountAssumption, NoneAssumption, TypeParts DEF Killed,
       InjectInv, ControlTypes, PC, Device, Inside, Calling
  <2> QED
    BY <2>1, <2>2
<1>3. ASSUME NEW q \in Proc PROVE Searching(q)'
  <2>1. CASE q = p
    BY <2>1, <1>b, <1>c, CountAssumption, NoneAssumption, TypeParts DEF Killed, InjectInv,
       ControlTypes, HostTypes, Device, Children, PC, Kinds, Inside, OnDevice, Closing,
       Calling, Searching, Using, Untouched, Proceeding
  <2>2. CASE q # p
    BY <2>2, <1>a, Outside
  <2> QED
    BY <2>1, <2>2
<1>4. ASSUME NEW q \in Proc PROVE Using(q)'
  <2>1. CASE q = p
    BY <2>1, <1>b, <1>c, CountAssumption, NoneAssumption, TypeParts DEF Killed, InjectInv,
       ControlTypes, HostTypes, Device, Children, PC, Kinds, Inside, OnDevice, Closing,
       Calling, Searching, Using, Untouched, Proceeding
  <2>2. CASE q # p
    BY <2>2, <1>a, Outside
  <2> QED
    BY <2>1, <2>2
<1>5. ASSUME NEW q \in Proc PROVE Patching(q)'
  <2>1. CASE q = p
    BY <2>1, <1>b, <1>c, CountAssumption, NoneAssumption, TypeParts DEF Killed, InjectInv,
       ControlTypes, HostTypes, Device, Children, PC, Kinds, Inside, OnDevice, Closing,
       Calling, Using, Patching
  <2>2. CASE q # p
    BY <2>2, <1>a, <1>b, <1>c, CountAssumption, NoneAssumption, TypeParts DEF Killed,
       InjectInv, ControlTypes, HostTypes, Device, Children, PC, Kinds, Inside, OnDevice,
       Closing, Calling, Using, Patching
  <2> QED
    BY <2>1, <2>2
<1>6. ASSUME NEW q \in Proc PROVE Releasing(q)'
  <2>1. CASE q = p
    <3>1. pc'[p] = "final" /\ img'[p] = i /\ cmdErr' = cmdErr
      BY <1>b, TypeParts DEF InjectInv, ControlTypes
    <3>2. Held(i)' => Held(i)
      BY <1>c, NoneAssumption, TypeParts DEF Killed, InjectInv, HostTypes, Held
    <3> QED
      BY <2>1, <3>1, <3>2, <1>b, <1>c DEF Killed, Releasing, InjectInv
  <2>2. CASE q # p
    BY <2>2, <1>a, <1>b, <1>c, NoneAssumption, TypeParts
    DEF Killed, InjectInv, ControlTypes, HostTypes, PC, Inside, Calling, Releasing, Held
  <2> QED
    BY <2>1, <2>2
<1>7. (\A j \in saved : j \in patched /\ ~Held(j))'
  BY <1>b, <1>c, CountAssumption, NoneAssumption, TypeParts DEF Killed, InjectInv,
     ControlTypes, HostTypes, Device, Children, PC, Kinds, Inside, OnDevice, Closing,
     Calling, Patching, Releasing, Held
<1>8. (\A j \in Image \ dir : Held(j) => j \in stuck)'
  BY <1>b, <1>c, CountAssumption, NoneAssumption, TypeParts DEF Killed, InjectInv,
     ControlTypes, HostTypes, Device, Children, PC, Kinds, Inside, OnDevice, Closing,
     Calling, Releasing, Held
<1> QED
  BY <1>1, <1>2, <1>3, <1>4, <1>5, <1>6, <1>7, <1>8 DEF InjectInv

(* A call that ends without an error leaves the image patched and free.      *)
LEMMA FinalInv == ASSUME InjectInv, NEW p \in Proc, Final(p) PROVE InjectInv'
<1> USE DEF Final, Leave, host, files, locals, Goto
<1>a. \A q \in Proc \ {p} : pc[q] \notin Inside /\ pc'[q] = pc[q]
  BY Alone, TypeParts DEF InjectInv, ControlTypes, Inside, PC
<1>1. TypeOK'
  <2>1. ControlTypes'
    BY CountAssumption, NoneAssumption, TypeParts DEF InjectInv, ControlTypes, HostTypes,
       Device, PC
  <2>2. HostTypes'
    BY CountAssumption, NoneAssumption, TypeParts DEF InjectInv, Calling, Using,
       ControlTypes, HostTypes, Children, Kinds, Inside, PC, OnDevice, Closing
  <2> QED
    BY <2>1, <2>2, TypePartsNext
<1>2. ASSUME NEW q \in Proc PROVE Calling(q)'
  <2>1. CASE q = p
    BY <2>1, CountAssumption, NoneAssumption, TypeParts DEF InjectInv, ControlTypes, PC,
       Device, Inside, Calling
  <2>2. CASE q # p
    BY <2>2, <1>a, CountAssumption, NoneAssumption, TypeParts DEF InjectInv, ControlTypes,
       PC, Device, Inside, Calling
  <2> QED
    BY <2>1, <2>2
<1>3. ASSUME NEW q \in Proc PROVE Searching(q)'
  <2>1. CASE q = p
    BY <2>1, CountAssumption, NoneAssumption, TypeParts DEF InjectInv, ControlTypes,
       HostTypes, Device, Children, PC, Kinds, Inside, OnDevice, Closing, Calling,
       Searching, Using, Untouched, Proceeding
  <2>2. CASE q # p
    BY <2>2, <1>a, Outside
  <2> QED
    BY <2>1, <2>2
<1>4. ASSUME NEW q \in Proc PROVE Using(q)'
  <2>1. CASE q = p
    BY <2>1, CountAssumption, NoneAssumption, TypeParts DEF InjectInv, ControlTypes,
       HostTypes, Device, Children, PC, Kinds, Inside, OnDevice, Closing, Calling,
       Searching, Using, Untouched, Proceeding
  <2>2. CASE q # p
    BY <2>2, <1>a, Outside
  <2> QED
    BY <2>1, <2>2
<1>5. ASSUME NEW q \in Proc PROVE Patching(q)'
  <2>1. CASE q = p
    BY <2>1, CountAssumption, NoneAssumption, TypeParts DEF InjectInv, ControlTypes,
       HostTypes, Device, Children, PC, Kinds, Inside, OnDevice, Closing, Calling, Using,
       Patching
  <2>2. CASE q # p
    BY <2>2, <1>a, CountAssumption, NoneAssumption, TypeParts DEF InjectInv, ControlTypes,
       HostTypes, Device, Children, PC, Kinds, Inside, OnDevice, Closing, Calling, Using,
       Patching
  <2> QED
    BY <2>1, <2>2
<1>6. ASSUME NEW q \in Proc PROVE Releasing(q)'
  <2>1. CASE q = p
    BY <2>1, CountAssumption, NoneAssumption, TypeParts DEF InjectInv, ControlTypes,
       HostTypes, Device, Children, PC, Kinds, Inside, OnDevice, Closing, Calling, Using,
       Releasing, Held
  <2>2. CASE q # p
    BY <2>2, <1>a, CountAssumption, NoneAssumption, TypeParts DEF InjectInv, ControlTypes,
       HostTypes, Device, Children, PC, Kinds, Inside, OnDevice, Closing, Calling, Using,
       Releasing, Held
  <2> QED
    BY <2>1, <2>2
<1>7. (\A j \in saved : j \in patched /\ ~Held(j))'
  BY CountAssumption, NoneAssumption, TypeParts DEF InjectInv, ControlTypes, HostTypes,
     Device, Children, PC, Kinds, Inside, OnDevice, Closing, Calling, Patching, Releasing,
     Held
<1>8. (\A j \in Image \ dir : Held(j) => j \in stuck)'
  BY CountAssumption, NoneAssumption, TypeParts DEF InjectInv, ControlTypes, HostTypes,
     Device, Children, PC, Kinds, Inside, OnDevice, Closing, Calling, Releasing, Held
<1> QED
  BY <1>1, <1>2, <1>3, <1>4, <1>5, <1>6, <1>7, <1>8 DEF InjectInv

(* A server comes up on a device that was on its way to it.                  *)
LEMMA ConnectEndsInv == ASSUME InjectInv, NEW c \in child, ConnectEnds(c) PROVE InjectInv'
<1> USE DEF ConnectEnds, files, locals
<1>a. c \in Children /\ Held(c.img)
  BY TypeParts DEF InjectInv, HostTypes, Held
<1>b. \A i \in Image : Held(i)' => Held(i)
  BY <1>a, TypeParts DEF InjectInv, HostTypes, Children, Held
<1>1. TypeOK'
  <2>1. ControlTypes'
    BY CountAssumption, NoneAssumption, TypeParts DEF InjectInv, ControlTypes, HostTypes,
       Device, PC
  <2>2. HostTypes'
    BY CountAssumption, NoneAssumption, TypeParts DEF InjectInv, Calling, Using,
       ControlTypes, HostTypes, Children, Kinds, Inside, PC, OnDevice, Closing
  <2> QED
    BY <2>1, <2>2, TypePartsNext
<1>2. ASSUME NEW q \in Proc PROVE Calling(q)'
  BY CountAssumption, NoneAssumption, TypeParts DEF InjectInv, ControlTypes, PC, Device,
     Inside, Calling
<1>3. ASSUME NEW q \in Proc PROVE Searching(q)'
  <2>1. \A d \in Device : Untouched(d) => Untouched(d)'
    <3>1. child' \subseteq child /\ \A d \in Device : d # c.dev => server'[d] = server[d]
      BY TypeParts DEF InjectInv, HostTypes
    <3> QED
      BY <3>1 DEF Untouched
  <2> HIDE DEF ConnectEnds
  <2>2. UNCHANGED <<mount, pc, locals>>
    BY DEF ConnectEnds
  <2> QED
    BY <2>1, <2>2 DEF InjectInv, Searching
<1>4. ASSUME NEW q \in Proc PROVE Using(q)'
  <2>1. pc[q] \in OnDevice => c.dev # at[q] /\ at[q] \in Device
    BY TypeParts DEF InjectInv, ControlTypes, Using, Proceeding, Calling, OnDevice, Inside, PC
  <2>2. child' \subseteq child /\ \A d \in Device : d # c.dev => server'[d] = server[d]
    BY TypeParts DEF InjectInv, HostTypes
  <2> HIDE DEF ConnectEnds
  <2> QED
    BY <2>1, <2>2 DEF InjectInv, Using, Proceeding, ConnectEnds
<1>5. ASSUME NEW q \in Proc PROVE Patching(q)'
  BY CountAssumption, NoneAssumption, TypeParts DEF InjectInv, ControlTypes, HostTypes,
     Device, Children, PC, Kinds, Inside, OnDevice, Closing, Calling, Using, Patching
<1>6. ASSUME NEW q \in Proc PROVE Releasing(q)'
  <2>1. Held(img[q])' => Held(img[q])
    BY <1>a, TypeParts DEF InjectInv, HostTypes, ControlTypes, Children, Held
  <2> QED
    BY <2>1, TypeParts DEF InjectInv, Releasing
<1>7. (\A j \in saved : j \in patched /\ ~Held(j))'
  BY <1>b, TypeParts DEF InjectInv, HostTypes
<1>8. (\A j \in Image \ dir : Held(j) => j \in stuck)'
  BY <1>b, TypeParts DEF InjectInv, HostTypes
<1> QED
  BY <1>1, <1>2, <1>3, <1>4, <1>5, <1>6, <1>7, <1>8 DEF InjectInv

(* A device is let go only by the command of the call that used it.          *)
LEMMA DisconnectEndsInv == ASSUME InjectInv, NEW c \in child, DisconnectEnds(c) PROVE InjectInv'
<1> USE DEF DisconnectEnds, files, locals
<1>1. TypeOK'
  <2>1. ControlTypes'
    BY CountAssumption, NoneAssumption, TypeParts DEF InjectInv, ControlTypes, HostTypes,
       Device, PC
  <2>2. HostTypes'
    BY CountAssumption, NoneAssumption, TypeParts DEF InjectInv, Calling, Using,
       ControlTypes, HostTypes, Children, Kinds, Inside, PC, OnDevice, Closing
  <2> QED
    BY <2>1, <2>2, TypePartsNext
<1>2. ASSUME NEW q \in Proc PROVE Calling(q)'
  BY CountAssumption, NoneAssumption, TypeParts DEF InjectInv, ControlTypes, PC, Device,
     Inside, Calling
<1>3. ASSUME NEW q \in Proc PROVE Searching(q)'
  BY CountAssumption, NoneAssumption, TypeParts DEF InjectInv, ControlTypes, HostTypes,
     Device, Children, PC, Kinds, Inside, OnDevice, Closing, Calling, Searching, Using,
     Untouched, Proceeding
<1>4. ASSUME NEW q \in Proc PROVE Using(q)'
  <2>1. pc[q] \in OnDevice \cup {"connecting"} => c.dev # at[q] /\ at[q] \in Device
    BY TypeParts DEF InjectInv, ControlTypes, Using, Proceeding, Calling, OnDevice, Inside, PC
  <2>2. /\ \A d \in child' : d \in child \/ d.dev = c.dev
        /\ \A d \in Device : d # c.dev => server'[d] = server[d]
    BY TypeParts DEF InjectInv, HostTypes
  <2> HIDE DEF DisconnectEnds
  <2>3. pc' = pc /\ img' = img /\ at' = at
    BY DEF DisconnectEnds
  <2> QED
    BY <2>1, <2>2, <2>3 DEF InjectInv, Using, Proceeding
<1>5. ASSUME NEW q \in Proc PROVE Patching(q)'
  BY CountAssumption, NoneAssumption, TypeParts DEF InjectInv, ControlTypes, HostTypes,
     Device, Children, PC, Kinds, Inside, OnDevice, Closing, Calling, Using, Patching
<1>6. ASSUME NEW q \in Proc PROVE Releasing(q)'
  BY CountAssumption, NoneAssumption, TypeParts DEF InjectInv, ControlTypes, HostTypes,
     Device, Children, PC, Kinds, Inside, OnDevice, Closing, Calling, Using, Releasing, Held
<1>7. (\A j \in saved : j \in patched /\ ~Held(j))'
  BY CountAssumption, NoneAssumption, TypeParts DEF InjectInv, ControlTypes, HostTypes,
     Device, Children, PC, Kinds, Inside, OnDevice, Closing, Calling, Patching, Releasing,
     Held
<1>8. (\A j \in Image \ dir : Held(j) => j \in stuck)'
  BY CountAssumption, NoneAssumption, TypeParts DEF InjectInv, ControlTypes, HostTypes,
     Device, Children, PC, Kinds, Inside, OnDevice, Closing, Calling, Releasing, Held
<1> QED
  BY <1>1, <1>2, <1>3, <1>4, <1>5, <1>6, <1>7, <1>8 DEF InjectInv

(* A mount appears.                                                          *)
LEMMA MountEndsInv == ASSUME InjectInv, NEW c \in child, MountEnds(c) PROVE InjectInv'
<1> USE DEF MountEnds, files, locals
<1>1. TypeOK'
  <2>1. ControlTypes'
    BY CountAssumption, NoneAssumption, TypeParts DEF InjectInv, ControlTypes, HostTypes,
       Device, PC
  <2>2. HostTypes'
    BY CountAssumption, NoneAssumption, TypeParts DEF InjectInv, Calling, Using,
       ControlTypes, HostTypes, Children, Kinds, Inside, PC, OnDevice, Closing
  <2> QED
    BY <2>1, <2>2, TypePartsNext
<1>2. ASSUME NEW q \in Proc PROVE Calling(q)'
  BY CountAssumption, NoneAssumption, TypeParts DEF InjectInv, ControlTypes, PC, Device,
     Inside, Calling
<1>3. ASSUME NEW q \in Proc PROVE Searching(q)'
  <2>1. \A d \in Device : Untouched(d) => Untouched(d)' /\ mount'[d] = mount[d]
    BY TypeParts DEF InjectInv, HostTypes, Untouched
  <2>2. pc[q] = "connect" => Untouched(at[q]) /\ at[q] \in Device
    BY TypeParts DEF InjectInv, ControlTypes, Searching, Calling, Inside, PC, Device
  <2>3. pc' = pc /\ at' = at /\ seen' = seen
    OBVIOUS
  <2> HIDE DEF MountEnds
  <2> QED
    BY <2>1, <2>2, <2>3 DEF InjectInv, Searching
<1>4. ASSUME NEW q \in Proc PROVE Using(q)'
  BY CountAssumption, NoneAssumption, TypeParts DEF InjectInv, ControlTypes, HostTypes,
     Device, Children, PC, Kinds, Inside, OnDevice, Closing, Calling, Searching, Using,
     Untouched, Proceeding
<1>5. ASSUME NEW q \in Proc PROVE Patching(q)'
  BY CountAssumption, NoneAssumption, TypeParts DEF InjectInv, ControlTypes, HostTypes,
     Device, Children, PC, Kinds, Inside, OnDevice, Closing, Calling, Using, Patching
<1>6. ASSUME NEW q \in Proc PROVE Releasing(q)'
  BY CountAssumption, NoneAssumption, TypeParts DEF InjectInv, ControlTypes, HostTypes,
     Device, Children, PC, Kinds, Inside, OnDevice, Closing, Calling, Using, Releasing, Held
<1>7. (\A j \in saved : j \in patched /\ ~Held(j))'
  BY CountAssumption, NoneAssumption, TypeParts DEF InjectInv, ControlTypes, HostTypes,
     Device, Children, PC, Kinds, Inside, OnDevice, Closing, Calling, Patching, Releasing,
     Held
<1>8. (\A j \in Image \ dir : Held(j) => j \in stuck)'
  BY CountAssumption, NoneAssumption, TypeParts DEF InjectInv, ControlTypes, HostTypes,
     Device, Children, PC, Kinds, Inside, OnDevice, Closing, Calling, Releasing, Held
<1> QED
  BY <1>1, <1>2, <1>3, <1>4, <1>5, <1>6, <1>7, <1>8 DEF InjectInv

(* A server that was disconnected exits.                                     *)
LEMMA ExitEndsInv == ASSUME InjectInv, NEW c \in child, ExitEnds(c) PROVE InjectInv'
<1> USE DEF ExitEnds, files, locals
<1>1. TypeOK'
  <2>1. ControlTypes'
    BY CountAssumption, NoneAssumption, TypeParts DEF InjectInv, ControlTypes, HostTypes,
       Device, PC
  <2>2. HostTypes'
    BY CountAssumption, NoneAssumption, TypeParts DEF InjectInv, Calling, Using,
       ControlTypes, HostTypes, Children, Kinds, Inside, PC, OnDevice, Closing
  <2> QED
    BY <2>1, <2>2, TypePartsNext
<1>2. ASSUME NEW q \in Proc PROVE Calling(q)'
  BY CountAssumption, NoneAssumption, TypeParts DEF InjectInv, ControlTypes, PC, Device,
     Inside, Calling
<1>3. ASSUME NEW q \in Proc PROVE Searching(q)'
  BY CountAssumption, NoneAssumption, TypeParts DEF InjectInv, ControlTypes, HostTypes,
     Device, Children, PC, Kinds, Inside, OnDevice, Closing, Calling, Searching, Using,
     Untouched, Proceeding
<1>4. ASSUME NEW q \in Proc PROVE Using(q)'
  BY CountAssumption, NoneAssumption, TypeParts DEF InjectInv, ControlTypes, HostTypes,
     Device, Children, PC, Kinds, Inside, OnDevice, Closing, Calling, Searching, Using,
     Untouched, Proceeding
<1>5. ASSUME NEW q \in Proc PROVE Patching(q)'
  BY CountAssumption, NoneAssumption, TypeParts DEF InjectInv, ControlTypes, HostTypes,
     Device, Children, PC, Kinds, Inside, OnDevice, Closing, Calling, Using, Patching
<1>6. ASSUME NEW q \in Proc PROVE Releasing(q)'
  BY CountAssumption, NoneAssumption, TypeParts DEF InjectInv, ControlTypes, HostTypes,
     Device, Children, PC, Kinds, Inside, OnDevice, Closing, Calling, Using, Releasing, Held
<1>7. (\A j \in saved : j \in patched /\ ~Held(j))'
  BY CountAssumption, NoneAssumption, TypeParts DEF InjectInv, ControlTypes, HostTypes,
     Device, Children, PC, Kinds, Inside, OnDevice, Closing, Calling, Patching, Releasing,
     Held
<1>8. (\A j \in Image \ dir : Held(j) => j \in stuck)'
  BY CountAssumption, NoneAssumption, TypeParts DEF InjectInv, ControlTypes, HostTypes,
     Device, Children, PC, Kinds, Inside, OnDevice, Closing, Calling, Releasing, Held
<1> QED
  BY <1>1, <1>2, <1>3, <1>4, <1>5, <1>6, <1>7, <1>8 DEF InjectInv

(* Ctrl-C.                                                                   *)
LEMMA InterruptInv == ASSUME InjectInv, NEW p \in Proc, Interrupt(p) PROVE InjectInv'
<1> USE DEF Interrupt, Fault, host, files
<1>1. TypeOK'
  <2>1. ControlTypes'
    BY CountAssumption, NoneAssumption, TypeParts DEF InjectInv, ControlTypes, HostTypes,
       Device, PC
  <2>2. HostTypes'
    BY CountAssumption, NoneAssumption, TypeParts DEF InjectInv, Calling, Using,
       ControlTypes, HostTypes, Children, Kinds, Inside, PC, OnDevice, Closing
  <2> QED
    BY <2>1, <2>2, TypePartsNext
<1>2. ASSUME NEW q \in Proc PROVE Calling(q)'
  BY CountAssumption, NoneAssumption, TypeParts DEF InjectInv, ControlTypes, PC, Device,
     Inside, Calling
<1>3. ASSUME NEW q \in Proc PROVE Searching(q)'
  BY CountAssumption, NoneAssumption, TypeParts DEF InjectInv, ControlTypes, HostTypes,
     Device, Children, PC, Kinds, Inside, OnDevice, Closing, Calling, Searching, Using,
     Untouched, Proceeding
<1>4. ASSUME NEW q \in Proc PROVE Using(q)'
  BY CountAssumption, NoneAssumption, TypeParts DEF InjectInv, ControlTypes, HostTypes,
     Device, Children, PC, Kinds, Inside, OnDevice, Closing, Calling, Searching, Using,
     Untouched, Proceeding
<1>5. ASSUME NEW q \in Proc PROVE Patching(q)'
  BY CountAssumption, NoneAssumption, TypeParts DEF InjectInv, ControlTypes, HostTypes,
     Device, Children, PC, Kinds, Inside, OnDevice, Closing, Calling, Using, Patching
<1>6. ASSUME NEW q \in Proc PROVE Releasing(q)'
  BY CountAssumption, NoneAssumption, TypeParts DEF InjectInv, ControlTypes, HostTypes,
     Device, Children, PC, Kinds, Inside, OnDevice, Closing, Calling, Using, Releasing, Held
<1>7. (\A j \in saved : j \in patched /\ ~Held(j))'
  BY CountAssumption, NoneAssumption, TypeParts DEF InjectInv, ControlTypes, HostTypes,
     Device, Children, PC, Kinds, Inside, OnDevice, Closing, Calling, Patching, Releasing,
     Held
<1>8. (\A j \in Image \ dir : Held(j) => j \in stuck)'
  BY CountAssumption, NoneAssumption, TypeParts DEF InjectInv, ControlTypes, HostTypes,
     Device, Children, PC, Kinds, Inside, OnDevice, Closing, Calling, Releasing, Held
<1> QED
  BY <1>1, <1>2, <1>3, <1>4, <1>5, <1>6, <1>7, <1>8 DEF InjectInv

(* A killed CLI gives up the lease, and what it reserved.                    *)
LEMMA CrashInv == ASSUME InjectInv, NEW p \in Proc, Crash(p) PROVE InjectInv'
<1> USE DEF Crash, Idle, Fault, host, files, Goto
<1>1. TypeOK'
  <2>1. ControlTypes'
    BY CountAssumption, NoneAssumption, TypeParts DEF InjectInv, ControlTypes, HostTypes,
       Device, PC
  <2>2. HostTypes'
    BY CountAssumption, NoneAssumption, TypeParts DEF InjectInv, Calling, Using,
       ControlTypes, HostTypes, Children, Kinds, Inside, PC, OnDevice, Closing
  <2> QED
    BY <2>1, <2>2, TypePartsNext
<1>2. ASSUME NEW q \in Proc PROVE Calling(q)'
  BY CountAssumption, NoneAssumption, TypeParts DEF InjectInv, ControlTypes, PC, Device,
     Inside, Calling
<1>3. ASSUME NEW q \in Proc PROVE Searching(q)'
  BY CountAssumption, NoneAssumption, TypeParts DEF InjectInv, ControlTypes, HostTypes,
     Device, Children, PC, Kinds, Inside, OnDevice, Closing, Calling, Searching, Using,
     Untouched, Proceeding
<1>4. ASSUME NEW q \in Proc PROVE Using(q)'
  BY CountAssumption, NoneAssumption, TypeParts DEF InjectInv, ControlTypes, HostTypes,
     Device, Children, PC, Kinds, Inside, OnDevice, Closing, Calling, Searching, Using,
     Untouched, Proceeding
<1>5. ASSUME NEW q \in Proc PROVE Patching(q)'
  BY CountAssumption, NoneAssumption, TypeParts DEF InjectInv, ControlTypes, HostTypes,
     Device, Children, PC, Kinds, Inside, OnDevice, Closing, Calling, Using, Patching
<1>6. ASSUME NEW q \in Proc PROVE Releasing(q)'
  BY CountAssumption, NoneAssumption, TypeParts DEF InjectInv, ControlTypes, HostTypes,
     Device, Children, PC, Kinds, Inside, OnDevice, Closing, Calling, Using, Releasing, Held
<1>7. (\A j \in saved : j \in patched /\ ~Held(j))'
  BY CountAssumption, NoneAssumption, TypeParts DEF InjectInv, ControlTypes, HostTypes,
     Device, Children, PC, Kinds, Inside, OnDevice, Closing, Calling, Patching, Releasing,
     Held
<1>8. (\A j \in Image \ dir : Held(j) => j \in stuck)'
  BY CountAssumption, NoneAssumption, TypeParts DEF InjectInv, ControlTypes, HostTypes,
     Device, Children, PC, Kinds, Inside, OnDevice, Closing, Calling, Releasing, Held
<1> QED
  BY <1>1, <1>2, <1>3, <1>4, <1>5, <1>6, <1>7, <1>8 DEF InjectInv

-----------------------------------------------------------------------------
(* At first no image is attached and no call is under way.                   *)
LEMMA InitInv == ASSUME Init PROVE InjectInv
<1> USE DEF Init
<1>1. TypeOK
  BY CountAssumption DEF TypeOK, Device, PC
<1>2. ASSUME NEW p \in Proc
      PROVE  Calling(p) /\ Searching(p) /\ Using(p) /\ Patching(p) /\ Releasing(p)
  BY NoneAssumption DEF Calling, Searching, Using, Patching, Releasing, Inside, OnDevice,
     Closing
<1>3. \A i \in Image : ~Held(i)
  BY NoneAssumption DEF Held
<1> QED
  BY <1>1, <1>2, <1>3 DEF InjectInv

(* InjectInv speaks of the variables only.                                   *)
LEMMA StutterInv == ASSUME InjectInv, UNCHANGED vars PROVE InjectInv'
<1> USE DEF vars, host, files, locals
<1>1. TypeOK'
  BY DEF InjectInv, TypeOK
<1>2. ASSUME NEW p \in Proc
      PROVE  (Calling(p) /\ Searching(p) /\ Using(p) /\ Patching(p) /\ Releasing(p))'
  BY DEF InjectInv, Calling, Searching, Using, Patching, Releasing, Untouched, Held, Proceeding
<1>3. /\ (\A i \in saved : i \in patched /\ ~Held(i))'
      /\ (\A i \in Image \ dir : Held(i) => i \in stuck)'
  BY DEF InjectInv, Held
<1> QED
  BY <1>1, <1>2, <1>3 DEF InjectInv

(* No step of a call, no crash and no host step breaks it.                   *)
LEMMA NextInv == ASSUME InjectInv, [Next]_vars PROVE InjectInv'
<1>1. ASSUME NEW p \in Proc, Step(p) PROVE InjectInv'
  BY <1>1, CommitInv, CleanupInv, LockInv, ScanInv, ProbeInv, ConnectInv, ConnectingInv,
     RetryInv, UnreadInv, WaitForPartInv, MountInv, MountingInv, PatchInv, UmountInv,
     DisconnectInv, DisconnectingInv, WaitFreeInv, KillServerInv, FinalInv DEF Step
<1>2. ASSUME NEW p \in Proc, Interrupt(p) \/ Crash(p) \/ \E i \in Image : Create(p, i)
      PROVE  InjectInv'
  BY <1>2, InterruptInv, CrashInv, CreateInv
<1>3. ASSUME NEW i \in Image, Collect(i) \/ RM(i) PROVE InjectInv'
  BY <1>3, CollectInv, RMInv
<1>4. ASSUME NEW c \in child, ChildEnds(c) PROVE InjectInv'
  BY <1>4, ConnectEndsInv, DisconnectEndsInv, MountEndsInv, ExitEndsInv DEF ChildEnds
<1>5. CASE UNCHANGED vars
  BY <1>5, StutterInv
<1> QED
  BY <1>1, <1>2, <1>3, <1>4, <1>5 DEF Next

(* The invariant holds in every state of every behaviour, under any faults   *)
(* (InjectConfig and what calls it).                                         *)
THEOREM InjectCorrect == Spec => []InjectInv
<1>1. Init => InjectInv
  BY InitInv
<1>2. InjectInv /\ [Next]_vars => InjectInv'
  BY NextInv
<1> QED
  BY <1>1, <1>2, PTL DEF Spec

(* Every variable keeps its type, and no record outlives its VM dir.         *)
THEOREM InjectTypes == Spec => []TypeOK
<1>1. InjectInv => TypeOK
  BY DEF InjectInv
<1> QED
  BY <1>1, InjectCorrect, PTL

(* A VM gets its record only with its identity in the OpenCore image and     *)
(* with no qemu-nbd holding that image (InjectConfig, disconnect).           *)
THEOREM IdentitySaved == Spec => []SavedMeansInjected
<1>1. InjectInv => SavedMeansInjected
  BY DEF InjectInv, SavedMeansInjected, Patching, Releasing
<1> QED
  BY <1>1, InjectCorrect, PTL

(* Once a call has returned, or its VM dir is gone, no server of the image   *)
(* is left that could be killed (disconnect, TerminateByCmdline,             *)
(* resetIncompleteVMDir).                                                    *)
THEOREM ServersEnd == Spec => []NoServerLeft
<1>1. InjectInv => NoServerLeft
  BY DEF InjectInv, NoServerLeft, Returned, Releasing
<1> QED
  BY <1>1, InjectCorrect, PTL

(* qemu-nbd --connect is started in one step only, and the invariant says    *)
(* that the device it goes to is untouched and, from the step that chose it, *)
(* unmounted (connectFreeNBD, processReferencesBlockDevice).                 *)
THEOREM FreeDevices == Spec => ConnectsFreeDevice
<1>1. ASSUME InjectInv, [Next]_vars
      PROVE  [\A c \in child' \ child : c.kind = "connect" => ~InUse(c.dev)]_vars
  <2> SUFFICES ASSUME NEW c \in child' \ child, c.kind = "connect" PROVE ~InUse(c.dev)
    OBVIOUS
  <2>1. ASSUME NEW p \in Proc, Connect(p) PROVE ~InUse(c.dev)
    <3>1. pc[p] = "connect" /\ c = Proceeding(p, "connect")
      BY <2>1 DEF Connect, Start
    <3>2. at[p] \in Device \ seen[p] /\ at[p] >= at[p] /\ mount[at[p]] = None
      BY <3>1, <1>1, TypeParts DEF InjectInv, Calling, Searching, Inside, PC, Device
    <3>3. Untouched(at[p]) /\ c.dev = at[p]
      BY <1>1, <3>1, <3>2 DEF InjectInv, Searching, Proceeding
    <3> QED
      BY <3>2, <3>3 DEF Untouched, InUse, SysfsPid
  <2>2. ASSUME NEW p \in Proc, ~Connect(p), Step(p) PROVE FALSE
    <3> USE <2>2 DEF Terminated, Unkillable, Start, Proceeding, host
    <3>1. CASE Cleanup(p) \/ Retry(p) \/ Unread(p) \/ KillServer(p)
      BY <3>1 DEF Cleanup, Retry, Unread, KillServer
    <3>2. CASE \/ Commit(p) \/ Lock(p) \/ Scan(p) \/ Probe(p)
               \/ WaitForPart(p) \/ Patch(p) \/ Umount(p)
      BY <3>2 DEF Commit, Lock, Scan, Probe, WaitForPart, Patch, Umount
    <3>3. CASE Mount(p) \/ Mounting(p) \/ Disconnect(p) \/ Disconnecting(p) \/ Connecting(p)
      BY <3>3 DEF Mount, Mounting, Disconnect, Disconnecting, Connecting
    <3>4. CASE WaitFree(p) \/ Final(p)
      BY <3>4 DEF WaitFree, Final
    <3> QED
      BY <3>1, <3>2, <3>3, <3>4 DEF Step
  <2>3. ASSUME NEW p \in Proc, Interrupt(p) \/ Crash(p) \/ \E i \in Image : Create(p, i) PROVE FALSE
    BY <2>3 DEF Interrupt, Crash, Create, Terminated, host
  <2>4. ASSUME NEW i \in Image, Collect(i) \/ RM(i) PROVE FALSE
    BY <2>4 DEF Collect, RM, Terminated, Unkillable, host
  <2>5. ASSUME NEW d \in child, ChildEnds(d) PROVE FALSE
    BY <2>5 DEF ChildEnds, ConnectEnds, DisconnectEnds, MountEnds, ExitEnds
  <2>6. CASE UNCHANGED vars
    BY <2>6 DEF vars, host
  <2> QED
    BY <1>1, <2>1, <2>2, <2>3, <2>4, <2>5, <2>6 DEF Next
<1> QED
  BY <1>1, InjectCorrect, PTL DEF Spec, ConnectsFreeDevice

(* A CLI that holds the lease is inside InjectConfig, and nobody else is     *)
(* (withNBDLease and every return of InjectConfig): the safety half of       *)
(* LeaseHolderAdvances.                                                      *)
THEOREM LeaseInside ==
    Spec => [](\A p \in Proc : lease = p <=> pc[p] \notin {"idle", "lock", "commit", "cleanup"})
<1>1. InjectInv => \A p \in Proc : lease = p <=> pc[p] \notin {"idle", "lock", "commit", "cleanup"}
  BY DEF InjectInv, TypeOK, Calling, Inside
<1> QED
  BY <1>1, InjectCorrect, PTL

(* No step but its own, or its death, moves a CLI.                           *)
LEMMA OthersStay ==
    ASSUME InjectInv, [Next]_vars, NEW p \in Proc, lease = p, ~Step(p), lease' # None
    PROVE  UNCHANGED <<lease, pc[p], at[p]>>
<1> USE DEF Goto, Idle, locals
<1>0. /\ pc[p] \notin {"idle", "lock", "commit", "cleanup"} /\ lease # None
      /\ pc \in [Proc -> PC] /\ at \in [Proc -> 0 .. NbdCount]
  BY NoneAssumption DEF InjectInv, TypeOK, Calling, Inside
<1>1. ASSUME NEW q \in Proc, Step(q) PROVE UNCHANGED <<lease, pc[p], at[p]>>
  <2> q # p  BY <1>1
  <2>1. CASE Commit(q) \/ Cleanup(q)  BY <1>0, <2>1 DEF Commit, Cleanup
  <2>2. CASE Lock(q) \/ Scan(q)  BY <1>0, <2>2 DEF Lock, Scan, Leave
  <2>3. CASE Probe(q) \/ Connect(q)  BY <1>0, <2>3 DEF Probe, Connect, Leave
  <2>4. CASE Connecting(q)  BY <1>0, <2>4 DEF Connecting
  <2>5. CASE Retry(q) \/ Unread(q)  BY <1>0, <2>5 DEF Retry, Unread, Leave
  <2>6. CASE WaitForPart(q) \/ Mount(q)  BY <1>0, <2>6 DEF WaitForPart, Mount, Fail
  <2>7. CASE Mounting(q) \/ Patch(q) \/ Umount(q)
    BY <1>0, <2>7 DEF Mounting, Patch, Umount, Fail
  <2>8. CASE Disconnect(q) \/ Disconnecting(q)  BY <1>0, <2>8 DEF Disconnect, Disconnecting
  <2>9. CASE WaitFree(q) \/ KillServer(q) \/ Final(q)
    BY <1>0, <2>9 DEF WaitFree, KillServer, Final, Leave
  <2> QED
    BY <1>1, <2>1, <2>2, <2>3, <2>4, <2>5, <2>6, <2>7, <2>8, <2>9 DEF Step
<1>2. ASSUME NEW q \in Proc, Interrupt(q) \/ Crash(q) \/ \E i \in Image : Create(q, i)
      PROVE  UNCHANGED <<lease, pc[p], at[p]>>
  BY <1>0, <1>2 DEF Interrupt, Crash, Create
<1>3. CASE \E i \in Image : Collect(i) \/ RM(i)  BY <1>3 DEF Collect, RM
<1>4. CASE \E c \in child : ChildEnds(c)
  BY <1>4 DEF ChildEnds, ConnectEnds, DisconnectEnds, MountEnds, ExitEnds
<1>5. CASE UNCHANGED vars  BY <1>5 DEF vars
<1> QED
  BY <1>1, <1>2, <1>3, <1>4, <1>5 DEF Next

(* Each step of a transaction ends it or brings it nearer to its end.        *)
LEMMA StepNearer ==
    ASSUME InjectInv, NEW p \in Proc, lease = p, Step(p)
    PROVE  lease' = None \/ (lease' = p /\ Nearer(p))
<1> USE DEF InjectInv, TypeOK, Calling, Inside, Nearer, Goto, locals
<1>0. pc[p] \in Inside /\ pc[p] \in PC /\ at[p] \in Nat /\ pc \in [Proc -> PC]
      /\ at \in [Proc -> 0 .. NbdCount] /\ NbdCount \in Nat
  BY CountAssumption DEF PC
<1>1. CASE Scan(p)  BY <1>0, <1>1 DEF Scan, Leave, Left
<1>2. CASE Probe(p)  BY <1>0, <1>2 DEF Probe, Leave, Left
<1>3. CASE Connect(p)  BY <1>0, <1>3 DEF Connect, Start, Left
<1>4. CASE Connecting(p)  BY <1>0, <1>4 DEF Connecting, Left
<1>5. CASE Retry(p)  BY <1>0, <1>5 DEF Retry, Leave, Left
<1>6. CASE Unread(p)  BY <1>0, <1>6 DEF Unread, Leave, Left
<1>7. CASE WaitForPart(p)  BY <1>0, <1>7 DEF WaitForPart, Fail, Left
<1>8. CASE Mount(p)  BY <1>0, <1>8 DEF Mount, Start, Fail, Left
<1>9. CASE Mounting(p)  BY <1>0, <1>9 DEF Mounting, Fail, Left
<1>10. CASE Patch(p)  BY <1>0, <1>10 DEF Patch, Fail, Left
<1>11. CASE Umount(p)  BY <1>0, <1>11 DEF Umount, Fail, Left
<1>12. CASE Disconnect(p)  BY <1>0, <1>12 DEF Disconnect, Start, Left
<1>13. CASE Disconnecting(p)  BY <1>0, <1>13 DEF Disconnecting, Left
<1>14. CASE WaitFree(p)  BY <1>0, <1>14 DEF WaitFree, Left
<1>15. CASE KillServer(p)  BY <1>0, <1>15 DEF KillServer, Left
<1>16. CASE Final(p)  BY <1>0, <1>16 DEF Final, Leave, Left
<1>17. ~Commit(p) /\ ~Cleanup(p) /\ ~Lock(p)
  BY <1>0 DEF Commit, Cleanup, Lock
<1> QED
  BY <1>1, <1>2, <1>3, <1>4, <1>5, <1>6, <1>7, <1>8, <1>9, <1>10, <1>11, <1>12, <1>13, <1>14,
     <1>15, <1>16, <1>17 DEF Step

(* withNBDLease's holder comes to the end of its transaction in a bounded    *)
(* number of its own steps, whatever it and the others meet on the way.      *)
THEOREM LeaseIsGivenUp == Spec => LeaseHolderAdvances
<1> DEFINE A == \A p \in Proc : lease = p =>
        /\ pc[p] \in DOMAIN Left
        /\ \/ lease' = None
           \/ lease' = p /\ Nearer(p)
           \/ ~Step(p) /\ UNCHANGED <<lease, pc[p], at[p]>>
<1>1. InjectInv /\ [Next]_vars => [A]_vars
  <2> SUFFICES ASSUME InjectInv, [Next]_vars, NEW p \in Proc, lease = p
               PROVE  /\ pc[p] \in DOMAIN Left
                      /\ \/ lease' = None
                         \/ lease' = p /\ Nearer(p)
                         \/ ~Step(p) /\ UNCHANGED <<lease, pc[p], at[p]>>
    OBVIOUS
  <2>1. pc[p] \in DOMAIN Left
    <3>1. DOMAIN Left =
            {"scan", "probe", "connect", "connecting", "retry", "unread", "part", "mount", "mounting",
             "patch", "umount", "disconnect", "disconnecting", "wait", "kill", "final"}
      BY Zenon DEF Left
    <3>2. pc[p] \in Inside  BY DEF InjectInv, TypeOK, Calling
    <3>3. QED  BY <3>1, <3>2 DEF Inside, PC
  <2> QED
    BY <2>1, OthersStay, StepNearer
<1> QED
  BY <1>1, InjectCorrect, PTL DEF Spec, LeaseHolderAdvances
=============================================================================
