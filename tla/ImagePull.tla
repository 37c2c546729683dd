------------------------------ MODULE ImagePull ------------------------------
(***************************************************************************)
(* image pull of a registry reference: the qcow2 layer is downloaded into  *)
(* a temp file, flushed, checked against its digest and adopted by the     *)
(* content-addressed store (cmd/image/handler.go, cmd/image/oci.go), while *)
(* the reference moves in the registry, other CLIs pull the same one, gc   *)
(* deletes temp files that look stale (cmd/vm/gc.go) and hosts go down.    *)
(***************************************************************************)
EXTENDS Naturals

CONSTANTS
    Proc,             \* CLIs that pull the one reference
    Content,          \* layers the reference has had
    maxPullAttempts,
    Faults,           \* "crash", "reboot", "cancel"
    None

ASSUME AttemptAssumption == maxPullAttempts \in Nat \ {0}
ASSUME FaultAssumption == Faults \subseteq {"crash", "reboot", "cancel"}

Empty == "empty"
Torn == "torn"    \* anything that is not a whole layer
ASSUME ContentAssumption == Content \cap {Empty, Torn, None} = {}

VARIABLES
    remote,   \* the layer the registry's manifest names
    image,    \* the stored image of the reference, or None
    file,     \* the temp file of each CLI, or None
    pc, attempt,
    want,     \* the layer it resolved
    got,      \* what the digest it computed stands for
    served    \* history: the layers the registry has named during the call

locals == <<attempt, want, got, served>>
vars == <<remote, image, file, pc, locals>>

Blank == [data |-> Empty, synced |-> FALSE, linked |-> TRUE]

Fault(f) == f \in Faults
Goto(p, l) == pc' = [pc EXCEPT ![p] = l]
Set(p, f) == file' = [file EXCEPT ![p] = f]
Over(p) == pc[p] \in {"idle", "killed"}    \* no CLI runs
Return(p, l) ==
    /\ Goto(p, l)
    /\ attempt' = [attempt EXCEPT ![p] = 0]
    /\ want' = [want EXCEPT ![p] = None] /\ got' = [got EXCEPT ![p] = None]
    /\ served' = [served EXCEPT ![p] = {}]

Init ==
    /\ remote \in Content
    /\ image \in {None} \cup [data : Content, durable : {TRUE}]
    /\ file = [p \in Proc |-> None]
    /\ pc = [p \in Proc |-> "idle"] /\ attempt = [p \in Proc |-> 0]
    /\ want = [p \in Proc |-> None] /\ got = [p \in Proc |-> None]
    /\ served = [p \in Proc |-> {}]

-----------------------------------------------------------------------------
(* Pull; without --force only when the image is missing.  The slot of a CLI  *)
(* that was killed and left its temp file is free once gc has taken the file *)
(* (a bound: the next call would make another name).                         *)
Pull(p) ==
    /\ pc[p] = "idle"
    /\ \E force \in BOOLEAN : force \/ image = None
    /\ Set(p, Blank)
    /\ attempt' = [attempt EXCEPT ![p] = 1]
    /\ served' = [served EXCEPT ![p] = {remote}]
    /\ Goto(p, "open")
    /\ UNCHANGED <<remote, image, want, got>>

(* pullOCIBlob resolves the reference anew in every attempt, and os.Create   *)
(* empties what the last one left, or makes the file anew when gc took it.   *)
Created_appends(f) == IF f.linked THEN f ELSE Blank
Created(f) == Blank
Open(p) ==
    /\ pc[p] = "open"
    /\ \/ /\ want' = [want EXCEPT ![p] = remote]
          /\ Set(p, Created(file[p]))
          /\ Goto(p, "download")
       \/ Goto(p, "failed") /\ UNCHANGED <<want, file>>
    /\ UNCHANGED <<remote, image, attempt, got, served>>

(* DownloadBlob writes the layer and digests what it received: all of it,    *)
(* something else, or not the whole.                                         *)
Download(p) ==
    /\ pc[p] = "download"
    /\ LET Wrote(d) == Set(p, [file[p] EXCEPT !.data = d, !.synced = FALSE]) IN
       \/ /\ Wrote(IF file[p].data = Empty THEN want[p] ELSE Torn)
          /\ got' = [got EXCEPT ![p] = want[p]] /\ Goto(p, "verify")
       \/ /\ Wrote(Torn)
          /\ got' = [got EXCEPT ![p] = Torn] /\ Goto(p, "verify")
       \/ /\ Wrote(Torn)
          /\ Goto(p, "failed") /\ UNCHANGED got
    /\ UNCHANGED <<remote, image, attempt, want, served>>

(* f.Sync, which may fail, then the digest check.                            *)
Synced_not(f) == f
Synced(f) == [f EXCEPT !.synced = TRUE]
Matches_always(p) == TRUE
Matches(p) == got[p] = want[p]
Verify(p) ==
    /\ pc[p] = "verify"
    /\ \/ /\ Set(p, Synced(file[p]))
          /\ Goto(p, IF Matches(p) THEN "import" ELSE "failed")
       \/ Goto(p, "failed") /\ UNCHANGED file
    /\ want' = [want EXCEPT ![p] = None] /\ got' = [got EXCEPT ![p] = None]
    /\ UNCHANGED <<remote, image, attempt, served>>

(* The store adopts the file by its path: if gc has taken it, or the store   *)
(* refuses, the whole pull fails without another attempt.                    *)
Import(p) ==
    /\ pc[p] = "import"
    /\ \/ /\ file[p].linked
          /\ image' = [data |-> file[p].data, durable |-> file[p].synced]
          /\ Set(p, [file[p] EXCEPT !.linked = FALSE])
       \/ UNCHANGED <<image, file>>
    /\ Goto(p, "leave")
    /\ UNCHANGED <<remote, locals>>

(* A failed attempt: give up with the context or after the last, else wait   *)
(* and try again.  Ctrl-C is an attempt that fails, as any may, and no wait. *)
Retry_forever(p) ==
    /\ pc[p] = "failed"
    /\ \/ Fault("cancel") /\ Goto(p, "leave") /\ UNCHANGED attempt
       \/ Goto(p, "open") /\ UNCHANGED attempt
    /\ want' = [want EXCEPT ![p] = None] /\ got' = [got EXCEPT ![p] = None]
    /\ UNCHANGED <<remote, image, file, served>>
Retry(p) ==
    /\ pc[p] = "failed"
    /\ \/ /\ Fault("cancel") \/ attempt[p] = maxPullAttempts
          /\ Goto(p, "leave") /\ UNCHANGED attempt
       \/ /\ attempt[p] < maxPullAttempts
          /\ Goto(p, "open") /\ attempt' = [attempt EXCEPT ![p] = @ + 1]
    /\ want' = [want EXCEPT ![p] = None] /\ got' = [got EXCEPT ![p] = None]
    /\ UNCHANGED <<remote, image, file, served>>

(* The deferred Remove of the temp file.                                     *)
Leave_keepsFile(p) ==
    /\ pc[p] = "leave"
    /\ Return(p, "idle")
    /\ UNCHANGED <<remote, image, file>>
Leave(p) ==
    /\ pc[p] = "leave"
    /\ Set(p, None)
    /\ Return(p, "idle")
    /\ UNCHANGED <<remote, image>>

-----------------------------------------------------------------------------
(* Meanwhile                                                                 *)

(* gc deletes pull temps by age, without a lock a pull would hold: any of    *)
(* them may have seen no write for StaleTempAge.                             *)
Sweep(p) ==
    /\ file[p] # None /\ file[p].linked
    /\ IF pc[p] = "killed" THEN Set(p, None) /\ Goto(p, "idle")
       ELSE Set(p, [file[p] EXCEPT !.linked = FALSE]) /\ UNCHANGED pc
    /\ UNCHANGED <<remote, image, locals>>

(* The reference is pushed again.                                            *)
Push(c) ==
    /\ c # remote
    /\ remote' = c
    /\ served' = [p \in Proc |-> IF Over(p) THEN {} ELSE served[p] \cup {c}]
    /\ UNCHANGED <<image, file, pc, attempt, want, got>>

RM ==
    /\ image # None /\ image' = None
    /\ UNCHANGED <<remote, file, pc, locals>>

(* A CLI that ends without its defer leaves the file gc has not taken.       *)
Orphan(f) == IF f # None /\ f.linked THEN f ELSE None
Off(p) == IF Orphan(file[p]) = None THEN "idle" ELSE "killed"

Crash(p) ==
    /\ Fault("crash") /\ ~ Over(p)
    /\ Set(p, Orphan(file[p]))
    /\ Return(p, Off(p))
    /\ UNCHANGED <<remote, image>>

(* What was not flushed is lost.                                             *)
Reboot ==
    /\ Fault("reboot")
    /\ image' = IF image = None \/ image.durable THEN image ELSE [data |-> Torn, durable |-> TRUE]
    /\ file' = [p \in Proc |-> Orphan(file[p])]
    /\ pc' = [p \in Proc |-> Off(p)] /\ attempt' = [p \in Proc |-> 0]
    /\ want' = [p \in Proc |-> None] /\ got' = [p \in Proc |-> None]
    /\ served' = [p \in Proc |-> {}]
    /\ UNCHANGED remote

Step(p) ==
    \/ Open(p) \/ Download(p) \/ Verify(p) \/ Import(p) \/ Retry(p) \/ Leave(p)

Next ==
    \/ \E p \in Proc : Step(p) \/ Pull(p) \/ Crash(p) \/ Sweep(p)
    \/ \E c \in Content : Push(c)
    \/ RM \/ Reboot

Spec == Init /\ [][Next]_vars

(* A CLI that pulls goes on.  For Open and Download this assumes that every  *)
(* request ends, well or not: the client of oci.go has no timeout, and a     *)
(* registry that keeps a connection open and silent would hold the call.     *)
FairSpec == Spec /\ \A p \in Proc : WF_vars(Step(p))

-----------------------------------------------------------------------------
(* Properties                                                                *)

(* The store holds a whole layer or nothing, whatever the network, gc, a     *)
(* killed CLI or a power failure did to the download (pullOCIBlob's Sync     *)
(* before its digest check, "so a crash can't leave an unverified blob").    *)
StoreWhole == image # None => image.data \in Content

(* A pull that puts an image in the store puts the layer the registry named  *)
(* at some time of that very call, although each attempt resolves anew into  *)
(* the same file (Pull's loop, os.Create).                                   *)
PulledIsServed ==
    [][\A p \in Proc : pc[p] = "import" /\ image' # image /\ pc'[p] = "leave"
                         => image'.data \in served[p]]_vars

(* Every pull ends, however many attempts fail and whatever gc, a push or    *)
(* another CLI does meanwhile.  It ends without its temp file (Pull's defer),*)
(* unless it was killed with the file still in the directory.                *)
EveryPullEnds ==
    \A p \in Proc :
        ~ Over(p) ~> (pc[p] = "idle" /\ file[p] = None) \/ pc[p] = "killed"
=============================================================================
