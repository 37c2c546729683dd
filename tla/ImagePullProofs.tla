--------------------------- MODULE ImagePullProofs ---------------------------
(***************************************************************************)
(* Proofs about ImagePull: what the store holds is whole, flushed and was  *)
(* served by the registry, and a pull ends within a bounded number of      *)
(* steps, for any number of CLIs, layers and attempts.                     *)
(***************************************************************************)
EXTENDS ImagePull, TLAPS

InCallAt == {"open", "download", "verify", "import", "failed", "leave"}
Positions == InCallAt \cup {"idle", "killed"}
Temp == [data : Content \cup {Empty, Torn}, synced : BOOLEAN, linked : BOOLEAN]
Stored == [data : Content, durable : {TRUE}]

TypeInv ==
    /\ remote \in Content
    /\ image \in Stored \cup {None}
    /\ file \in [Proc -> Temp \cup {None}]
    /\ pc \in [Proc -> Positions]
    /\ want \in [Proc -> Content \cup {None}]
    /\ got \in [Proc -> Content \cup {Torn, None}]
    /\ served \in [Proc -> SUBSET Content]

(* The layer an attempt works on is one the registry named during the call,  *)
(* a download starts from an empty file, and what passed its digest is that  *)
(* layer, and flushed once it may be imported.  A call that ended left no    *)
(* temp file.                                                                *)
Sound(p) ==
    /\ pc[p] = "idle" => file[p] = None
    /\ ~ Over(p) => remote \in served[p] /\ file[p] \in Temp
    /\ pc[p] \in {"download", "verify"} => want[p] \in served[p]
    /\ pc[p] = "download" => file[p].data = Empty
    /\ pc[p] = "verify" /\ got[p] = want[p] => file[p].data = want[p]
    /\ pc[p] = "import" => file[p].data \in served[p] /\ file[p].synced = TRUE

PullInv == TypeInv /\ \A p \in Proc : Sound(p)

-----------------------------------------------------------------------------
USE DEF Over

(* No pull runs at first, and what is stored is whole.                       *)
LEMMA InitPull == Init => PullInv
<1> SUFFICES ASSUME Init PROVE PullInv
  OBVIOUS
<1>1. TypeInv
  BY DEF Init, TypeInv, Positions, InCallAt, Stored
<1>2. ASSUME NEW p \in Proc PROVE Sound(p)
  BY DEF Init, Sound
<1> QED
  BY <1>1, <1>2 DEF PullInv

-----------------------------------------------------------------------------
(* Temp files.                                                               *)

Bytes == Content \cup {Empty, Torn}

(* os.Create leaves an empty file.                                           *)
LEMMA BlankTemp == Blank \in Temp /\ Blank.data = Empty
BY DEF Blank, Temp

(* What DownloadBlob wrote is in the file, not yet flushed.                  *)
LEMMA TempWrote ==
    ASSUME NEW f \in Temp, NEW d \in Bytes
    PROVE  /\ [f EXCEPT !.data = d, !.synced = FALSE] \in Temp
           /\ [f EXCEPT !.data = d, !.synced = FALSE].data = d
BY DEF Temp, Bytes

(* f.Sync changes no byte.                                                   *)
LEMMA TempSynced ==
    ASSUME NEW f \in Temp
    PROVE  /\ Synced(f) \in Temp /\ Synced(f).data = f.data
           /\ Synced(f).synced = TRUE
BY DEF Temp, Synced

(* A file that gc took, or the store adopted, keeps its bytes.               *)
LEMMA TempUnlinked ==
    ASSUME NEW f \in Temp
    PROVE  [f EXCEPT !.linked = FALSE] \in Temp
BY DEF Temp

(* A whole, flushed layer becomes a whole, durable image.                    *)
LEMMA TempStored ==
    ASSUME NEW f \in Temp, f.data \in Content, f.synced = TRUE
    PROVE  [data |-> f.data, durable |-> f.synced] \in Stored
BY DEF Stored

-----------------------------------------------------------------------------
(* The steps of one pull                                                     *)

(* A step that stays inside the call only has to keep the promise of the     *)
(* position it leads to.                                                     *)
LEMMA LocalStep ==
    ASSUME PullInv, NEW p \in Proc, ~ Over(p),
           NEW l \in InCallAt, NEW g \in Temp,
           NEW w \in Content \cup {None}, NEW k \in Content \cup {Torn, None},
           pc' = [pc EXCEPT ![p] = l], file' = [file EXCEPT ![p] = g],
           want' = [want EXCEPT ![p] = w], got' = [got EXCEPT ![p] = k],
           UNCHANGED <<remote, served>>, image' \in Stored \cup {None},
           l \in {"download", "verify"} => w \in served[p],
           l = "download" => g.data = Empty,
           l = "verify" /\ k = w => g.data = w,
           l = "import" => g.data \in served[p] /\ g.synced = TRUE
    PROVE  PullInv'
<1>1. TypeInv'
  BY DEF PullInv, TypeInv, Positions
<1>2. ASSUME NEW q \in Proc PROVE Sound(q)'
  <2>1. CASE q = p
    BY <2>1 DEF PullInv, TypeInv, Sound, InCallAt
  <2>2. CASE q # p
    BY <2>2 DEF PullInv, TypeInv, Sound
  <2> QED
    BY <2>1, <2>2
<1> QED
  BY <1>1, <1>2 DEF PullInv

(* What PullInv says of a CLI in a call.                                     *)
LEMMA InCall ==
    ASSUME PullInv, NEW p \in Proc, ~ Over(p)
    PROVE  /\ file[p] \in Temp /\ file[p].data \in Bytes
           /\ file = [file EXCEPT ![p] = file[p]]
           /\ want[p] \in Content \cup {None} /\ want = [want EXCEPT ![p] = want[p]]
           /\ got[p] \in Content \cup {Torn, None} /\ got = [got EXCEPT ![p] = got[p]]
           /\ remote \in Content /\ remote \in served[p] /\ served[p] \subseteq Content
           /\ image \in Stored \cup {None}
<1>1. file[p] \in Temp
  BY DEF PullInv, Sound
<1>2. file[p].data \in Bytes
  BY <1>1 DEF Temp, Bytes
<1> QED
  BY <1>1, <1>2 DEF PullInv, TypeInv, Sound

(* A pull begins: it has an empty file, and the layer named now counts.      *)
LEMMA PullPull == ASSUME PullInv, NEW p \in Proc, Pull(p) PROVE PullInv'
<1> USE DEF Pull, Set, Goto, Blank
<1>1. TypeInv'
  BY DEF PullInv, TypeInv, Sound, Positions, InCallAt, Temp, Stored
<1>2. ASSUME NEW q \in Proc PROVE Sound(q)'
  <2>1. CASE q = p
    BY <2>1 DEF PullInv, TypeInv, Sound, Positions, InCallAt, Temp
  <2>2. CASE q # p
    BY <2>2 DEF PullInv, TypeInv, Sound, Positions, InCallAt
  <2> QED
    BY <2>1, <2>2
<1> QED
  BY <1>1, <1>2 DEF PullInv

(* An attempt begins: the reference resolves to what is named now.           *)
LEMMA OpenPull == ASSUME PullInv, NEW p \in Proc, Open(p) PROVE PullInv'
<1>1. ~ Over(p)
  BY DEF Open
<1>2. CASE /\ want' = [want EXCEPT ![p] = remote]
           /\ Set(p, Created(file[p]))
           /\ Goto(p, "download")
  <2>3. /\ file' = [file EXCEPT ![p] = Blank]
        /\ got' = [got EXCEPT ![p] = got[p]]
        /\ pc' = [pc EXCEPT ![p] = "download"] /\ "download" \in InCallAt
        /\ image' \in Stored \cup {None} /\ UNCHANGED <<remote, served>>
    BY <1>1, <1>2, InCall DEF Open, Set, Goto, Created, InCallAt
  <2> QED
    BY <1>1, <1>2, <2>3, InCall, BlankTemp, LocalStep
<1>3. CASE Goto(p, "failed") /\ UNCHANGED <<want, file>>
  <2>3. /\ file' = [file EXCEPT ![p] = file[p]]
        /\ want' = [want EXCEPT ![p] = want[p]]
        /\ got' = [got EXCEPT ![p] = got[p]]
        /\ pc' = [pc EXCEPT ![p] = "failed"] /\ "failed" \in InCallAt
        /\ image' \in Stored \cup {None} /\ UNCHANGED <<remote, served>>
    BY <1>1, <1>3, InCall DEF Open, Goto, Positions, InCallAt
  <2> QED
    BY <1>1, <2>3, InCall, LocalStep
<1> QED
  BY <1>2, <1>3 DEF Open

(* A download: only bytes whose digest is wanted are the layer.              *)
LEMMA DownloadPull == ASSUME PullInv, NEW p \in Proc, Download(p) PROVE PullInv'
<1> DEFINE Wrote(d) == [file[p] EXCEPT !.data = d, !.synced = FALSE]
<1>1. ~ Over(p) /\ file[p].data = Empty /\ want[p] \in served[p] /\ want[p] \in Content
  BY DEF Download, PullInv, TypeInv, Sound
<1>2. want[p] \in Bytes /\ Torn \in Bytes
  BY <1>1 DEF Bytes
<1>3. /\ Wrote(want[p]) \in Temp /\ Wrote(want[p]).data = want[p]
      /\ Wrote(Torn) \in Temp /\ Wrote(Torn).data = Torn
  BY <1>1, <1>2, InCall, TempWrote
<1>4. Torn \notin Content
  BY ContentAssumption
<1> HIDE DEF Wrote
<1>5. CASE /\ file' = [file EXCEPT ![p] = Wrote(want[p])]
           /\ got' = [got EXCEPT ![p] = want[p]] /\ Goto(p, "verify")
  <2>3. /\ want' = [want EXCEPT ![p] = want[p]]
        /\ pc' = [pc EXCEPT ![p] = "verify"] /\ "verify" \in InCallAt
        /\ image' \in Stored \cup {None} /\ UNCHANGED <<remote, served>>
    BY <1>1, <1>5, InCall DEF Download, Goto, Positions, InCallAt
  <2> QED
    BY <1>1, <1>3, <1>5, <2>3, InCall, LocalStep
<1>6. CASE /\ file' = [file EXCEPT ![p] = Wrote(Torn)]
           /\ got' = [got EXCEPT ![p] = Torn] /\ Goto(p, "verify")
  <2>3. /\ want' = [want EXCEPT ![p] = want[p]]
        /\ pc' = [pc EXCEPT ![p] = "verify"] /\ "verify" \in InCallAt
        /\ image' \in Stored \cup {None} /\ UNCHANGED <<remote, served>>
    BY <1>1, <1>6, InCall DEF Download, Goto, Positions, InCallAt
  <2> QED
    BY <1>1, <1>3, <1>4, <1>6, <2>3, InCall, LocalStep
<1>7. CASE /\ file' = [file EXCEPT ![p] = Wrote(Torn)]
           /\ Goto(p, "failed") /\ UNCHANGED got
  <2>3. /\ want' = [want EXCEPT ![p] = want[p]]
        /\ got' = [got EXCEPT ![p] = got[p]]
        /\ pc' = [pc EXCEPT ![p] = "failed"] /\ "failed" \in InCallAt
        /\ image' \in Stored \cup {None} /\ UNCHANGED <<remote, served>>
    BY <1>1, <1>7, InCall DEF Download, Goto, Positions, InCallAt
  <2> QED
    BY <1>1, <1>3, <1>7, <2>3, InCall, LocalStep
<1> QED
  BY <1>1, <1>5, <1>6, <1>7 DEF Download, Set, Wrote

(* Only what matched its digest, after the flush, may be imported.           *)
LEMMA VerifyPull == ASSUME PullInv, NEW p \in Proc, Verify(p) PROVE PullInv'
<1>1. ~ Over(p) /\ want[p] \in served[p] /\ (got[p] = want[p] => file[p].data = want[p])
  BY DEF Verify, PullInv, Sound
<1>2. /\ Synced(file[p]) \in Temp /\ Synced(file[p]).data = file[p].data
      /\ Synced(file[p]).synced = TRUE
  BY <1>1, InCall, TempSynced
<1>3. CASE Set(p, Synced(file[p])) /\ Goto(p, "import") /\ got[p] = want[p]
  BY ZenonT(60), <1>1, <1>2, <1>3, InCall, LocalStep DEF Verify, Set, Goto, Positions, InCallAt
<1>4. CASE Set(p, Synced(file[p])) /\ Goto(p, "failed")
  BY ZenonT(60), <1>1, <1>2, <1>4, InCall, LocalStep DEF Verify, Set, Goto, Positions, InCallAt
<1>5. CASE Goto(p, "failed") /\ UNCHANGED file
  BY <1>1, <1>5, InCall, LocalStep DEF Verify, Goto, Positions, InCallAt
<1> QED
  BY <1>3, <1>4, <1>5 DEF Verify, Matches

(* The store adopts what may be imported, or nothing.                        *)
LEMMA ImportPull == ASSUME PullInv, NEW p \in Proc, Import(p) PROVE PullInv'
<1>1. /\ ~ Over(p) /\ file[p].data \in Content /\ file[p].synced = TRUE
  BY DEF Import, PullInv, TypeInv, Sound
<1>2. CASE /\ image' = [data |-> file[p].data, durable |-> file[p].synced]
           /\ Set(p, [file[p] EXCEPT !.linked = FALSE])
  <2>1. image' \in Stored
    BY <1>1, <1>2, InCall, TempStored
  <2>2. [file[p] EXCEPT !.linked = FALSE] \in Temp
    BY <1>1, InCall, TempUnlinked
  <2>3. /\ want' = [want EXCEPT ![p] = want[p]]
        /\ got' = [got EXCEPT ![p] = got[p]]
        /\ pc' = [pc EXCEPT ![p] = "leave"] /\ "leave" \in InCallAt
        /\ image' \in Stored \cup {None} /\ UNCHANGED <<remote, served>>
    BY <1>1, <1>2, <2>1, InCall DEF Import, Goto, locals, Positions, InCallAt
  <2> QED
    BY <1>1, <1>2, <2>2, <2>3, InCall, LocalStep DEF Set
<1>3. CASE UNCHANGED <<image, file>>
  <2>3. /\ file' = [file EXCEPT ![p] = file[p]]
        /\ want' = [want EXCEPT ![p] = want[p]]
        /\ got' = [got EXCEPT ![p] = got[p]]
        /\ pc' = [pc EXCEPT ![p] = "leave"] /\ "leave" \in InCallAt
        /\ image' \in Stored \cup {None} /\ UNCHANGED <<remote, served>>
    BY <1>1, <1>3, InCall DEF Import, Goto, locals, Positions, InCallAt
  <2> QED
    BY <1>1, <2>3, InCall, LocalStep
<1> QED
  BY <1>2, <1>3 DEF Import

(* A failed attempt promises nothing to the next.                            *)
LEMMA RetryPull == ASSUME PullInv, NEW p \in Proc, Retry(p) PROVE PullInv'
<1> USE DEF Retry, Goto, Fault
<1>1. TypeInv'
  BY DEF PullInv, TypeInv, Sound, Positions, InCallAt, Temp, Stored
<1>2. ASSUME NEW q \in Proc PROVE Sound(q)'
  <2>1. CASE q = p
    BY <2>1 DEF PullInv, TypeInv, Sound, Positions, InCallAt, Temp
  <2>2. CASE q # p
    BY <2>2 DEF PullInv, TypeInv, Sound, Positions, InCallAt
  <2> QED
    BY <2>1, <2>2
<1> QED
  BY <1>1, <1>2 DEF PullInv

(* A pull ends with its temp file.                                           *)
LEMMA LeavePull == ASSUME PullInv, NEW p \in Proc, Leave(p) PROVE PullInv'
<1> USE DEF Leave, Set, Return, Goto
<1>1. TypeInv'
  BY DEF PullInv, TypeInv, Sound, Positions, InCallAt, Temp, Stored
<1>2. ASSUME NEW q \in Proc PROVE Sound(q)'
  <2>1. CASE q = p
    BY <2>1 DEF PullInv, TypeInv, Sound, Positions, InCallAt, Temp
  <2>2. CASE q # p
    BY <2>2 DEF PullInv, TypeInv, Sound, Positions, InCallAt
  <2> QED
    BY <2>1, <2>2
<1> QED
  BY <1>1, <1>2 DEF PullInv

(* A killed CLI leaves its file, which no later pull reads.                  *)
LEMMA CrashPull == ASSUME PullInv, NEW p \in Proc, Crash(p) PROVE PullInv'
<1> USE DEF Crash, Set, Return, Goto, Orphan, Off, Fault
<1>1. TypeInv'
  BY DEF PullInv, TypeInv, Sound, Positions, InCallAt, Temp, Stored
<1>2. ASSUME NEW q \in Proc PROVE Sound(q)'
  <2>1. CASE q = p
    BY <2>1 DEF PullInv, TypeInv, Sound, Positions, InCallAt, Temp
  <2>2. CASE q # p
    BY <2>2 DEF PullInv, TypeInv, Sound, Positions, InCallAt
  <2> QED
    BY <2>1, <2>2
<1> QED
  BY <1>1, <1>2 DEF PullInv

(* gc removes a name; the open file is what it was.                          *)
LEMMA SweepPull == ASSUME PullInv, NEW p \in Proc, Sweep(p) PROVE PullInv'
<1> USE DEF Sweep, Set, Goto, locals
<1>1. CASE pc[p] = "killed" /\ Set(p, None) /\ Goto(p, "idle")
  <2>1. TypeInv'
    BY <1>1 DEF PullInv, TypeInv, Positions
  <2>2. ASSUME NEW q \in Proc PROVE Sound(q)'
    BY <1>1 DEF PullInv, TypeInv, Sound
  <2> QED
    BY <2>1, <2>2 DEF PullInv
<1>2. CASE pc[p] # "killed" /\ Set(p, [file[p] EXCEPT !.linked = FALSE]) /\ UNCHANGED pc
  <2>1. file[p] \in Temp
    BY <1>2 DEF PullInv, TypeInv
  <2>2. [file[p] EXCEPT !.linked = FALSE] \in Temp
    BY <2>1, TempUnlinked
  <2>3. TypeInv'
    BY <1>2, <2>2 DEF PullInv, TypeInv
  <2>4. [file[p] EXCEPT !.linked = FALSE].data = file[p].data
        /\ [file[p] EXCEPT !.linked = FALSE].synced = file[p].synced
    BY <2>1 DEF Temp
  <2>5. pc[p] # "idle"
    BY DEF PullInv, Sound
  <2>6. ASSUME NEW q \in Proc PROVE Sound(q)'
    <3>1. CASE q = p
      BY <1>2, <2>2, <2>4, <2>5, <3>1 DEF PullInv, TypeInv, Sound
    <3>2. CASE q # p
      BY <1>2, <3>2 DEF PullInv, TypeInv, Sound
    <3> QED
      BY <3>1, <3>2
  <2> QED
    BY <2>3, <2>6 DEF PullInv
<1> QED
  BY <1>1, <1>2

(* A push adds to what the registry named during every call.                 *)
LEMMA PushPull == ASSUME PullInv, NEW c \in Content, Push(c) PROVE PullInv'
<1> USE DEF Push
<1>1. TypeInv'
  BY DEF PullInv, TypeInv, Positions, InCallAt, Temp, Stored
<1>2. ASSUME NEW q \in Proc PROVE Sound(q)'
  BY DEF PullInv, TypeInv, Sound, Positions, InCallAt
<1> QED
  BY <1>1, <1>2 DEF PullInv

(* image rm empties the store.                                               *)
LEMMA RMPull == ASSUME PullInv, RM PROVE PullInv'
<1> USE DEF RM, locals
<1>1. TypeInv'
  BY DEF PullInv, TypeInv, Positions, InCallAt, Temp, Stored
<1>2. ASSUME NEW q \in Proc PROVE Sound(q)'
  BY DEF PullInv, TypeInv, Sound, Positions, InCallAt
<1> QED
  BY <1>1, <1>2 DEF PullInv

(* A power failure takes nothing from an image that was flushed.             *)
LEMMA RebootPull == ASSUME PullInv, Reboot PROVE PullInv'
<1> USE DEF Reboot, Orphan, Off, Fault
<1>1. TypeInv'
  BY DEF PullInv, TypeInv, Positions, InCallAt, Temp, Stored
<1>2. ASSUME NEW q \in Proc PROVE Sound(q)'
  BY DEF PullInv, TypeInv, Sound, Positions, InCallAt
<1> QED
  BY <1>1, <1>2 DEF PullInv

-----------------------------------------------------------------------------
(* No step of any CLI, gc, the registry or the host breaks the invariant.    *)
LEMMA PullNext == PullInv /\ [Next]_vars => PullInv'
<1> SUFFICES ASSUME PullInv, [Next]_vars PROVE PullInv'
  OBVIOUS
<1>1. CASE \E p \in Proc : Step(p)
  BY <1>1, OpenPull, DownloadPull, VerifyPull, ImportPull, RetryPull, LeavePull DEF Step
<1>2. CASE \E p \in Proc : Pull(p) \/ Crash(p) \/ Sweep(p)
  BY <1>2, PullPull, CrashPull, SweepPull
<1>3. CASE (\E c \in Content : Push(c)) \/ RM \/ Reboot
  BY <1>3, PushPull, RMPull, RebootPull
<1>4. CASE UNCHANGED vars
  BY <1>4 DEF vars, locals, PullInv, TypeInv, Sound
<1> QED
  BY <1>1, <1>2, <1>3, <1>4 DEF Next

(* Import is the only step that stores an image for a CLI which then leaves. *)
LEMMA StoresServed ==
    ASSUME PullInv, [Next]_vars, NEW p \in Proc,
           pc[p] = "import", image' # image, pc'[p] = "leave"
    PROVE  image'.data \in served[p]
<1>1. Import(p) => image'.data \in served[p]
  BY DEF Import, PullInv, Sound
<1>2. ASSUME NEW q \in Proc, Import(q) PROVE q = p
  BY <1>2 DEF Import, Goto, PullInv, TypeInv
<1>3. Next
  BY DEF vars
<1>4. ~ Reboot /\ ~ RM
  BY DEF Reboot, RM, Off
<1>5. \A q \in Proc : ~ (Open(q) \/ Download(q) \/ Verify(q) \/ Retry(q) \/ Leave(q))
  BY DEF Open, Download, Verify, Retry, Leave
<1>6. \A q \in Proc : ~ (Pull(q) \/ Crash(q) \/ Sweep(q))
  BY DEF Pull, Crash, Sweep
<1>7. \A c \in Content : ~ Push(c)
  BY DEF Push
<1> QED
  BY <1>1, <1>2, <1>3, <1>4, <1>5, <1>6, <1>7 DEF Next, Step

-----------------------------------------------------------------------------
(* PullInv holds in every reachable state: what a pull is about to import is *)
(* a whole flushed layer that the registry named during the call, however    *)
(* downloads tear, attempts repeat, gc sweeps and hosts fail.                *)
THEOREM PullCorrect == Spec => []PullInv
  BY InitPull, PullNext, PTL DEF Spec

(* pullOCIBlob flushes, then checks the digest, and only then imports: the   *)
(* store holds a whole layer or nothing.                                     *)
THEOREM StoreWholeHolds == Spec => []StoreWhole
<1>1. PullInv => StoreWhole
  BY DEF PullInv, TypeInv, Stored, StoreWhole
<1> QED
  BY <1>1, PullCorrect, PTL

(* Each attempt of Pull resolves the reference anew and empties its file:    *)
(* what a call stores is a layer the registry named during that call.        *)
THEOREM ServedHolds == Spec => PulledIsServed
<1>1. PullInv /\ [Next]_vars =>
        [\A p \in Proc : pc[p] = "import" /\ image' # image /\ pc'[p] = "leave"
                           => image'.data \in served[p]]_vars
  BY StoresServed
<1> QED
  BY <1>1, PullCorrect, PTL DEF Spec, PulledIsServed

-----------------------------------------------------------------------------
(* Ending                                                                    *)

(* Attempts are counted from one while a call runs.                          *)
CountInv ==
    /\ pc \in [Proc -> Positions]
    /\ attempt \in [Proc -> 0..maxPullAttempts]
    /\ \A p \in Proc : ~ Over(p) => attempt[p] >= 1

(* What a call has left: five steps in an attempt still to come, and the     *)
(* rest of the one it is in.                                                 *)
Within == [leave |-> 1, failed |-> 2, import |-> 2, verify |-> 3, download |-> 4,
           open |-> 5]
StepsLeft(p) ==
    IF Over(p) THEN 0 ELSE 5 * (maxPullAttempts - attempt[p]) + Within[pc[p]]

(* Init and every step keep the count.                                       *)
LEMMA Counted == (Init => CountInv) /\ (CountInv /\ [Next]_vars => CountInv')
<1> USE AttemptAssumption DEF CountInv
<1>1. Init => CountInv
  BY DEF Init, Positions, InCallAt
<1>2. ASSUME CountInv, [Next]_vars PROVE CountInv'
  <2> USE DEF Positions, InCallAt, Goto, Return, locals
  <2>1. ASSUME NEW p \in Proc, Open(p) \/ Download(p) \/ Verify(p) \/ Import(p) PROVE CountInv'
    BY <1>2, <2>1 DEF Open, Download, Verify, Import
  <2>2. ASSUME NEW p \in Proc, Retry(p) PROVE CountInv'
    BY <1>2, <2>2 DEF Retry
  <2>3. ASSUME NEW p \in Proc, Pull(p) \/ Leave(p) \/ Crash(p) PROVE CountInv'
    BY <1>2, <2>3 DEF Pull, Leave, Crash, Off
  <2>4. CASE Reboot
    BY <1>2, <2>4 DEF Reboot, Off
  <2>5. CASE UNCHANGED <<pc, attempt>>
    BY <1>2, <2>5
  <2>6. QED
    BY <1>2, <2>1, <2>2, <2>3, <2>4, <2>5 DEF Next, Step, Sweep, Push, RM, vars
<1>3. QED
  BY <1>1, <1>2

(* The steps left of a CLI elsewhere in the call.                            *)
LEMMA LeftAt ==
    ASSUME CountInv, NEW p \in Proc
    PROVE  /\ StepsLeft(p) \in 0..5 * maxPullAttempts
           /\ StepsLeft(p) = 0 <=> Over(p)
<1>1. /\ pc[p] \in Positions /\ attempt[p] \in 0..maxPullAttempts
      /\ ~ Over(p) => attempt[p] >= 1
  BY DEF CountInv
<1>2. ~ Over(p) => Within[pc[p]] \in 1..5
  BY <1>1 DEF Positions, InCallAt, Within
<1>3. QED
  BY <1>1, <1>2, AttemptAssumption DEF StepsLeft

(* An own step of a CLI inside a call uses up a step.                        *)
LEMMA StepUses ==
    ASSUME CountInv, NEW p \in Proc, Step(p)
    PROVE  StepsLeft(p)' < StepsLeft(p)
<1>0. /\ pc \in [Proc -> Positions] /\ attempt \in [Proc -> 0..maxPullAttempts]
      /\ attempt[p] \in Nat /\ maxPullAttempts \in Nat
  BY AttemptAssumption DEF CountInv
<1>1. ASSUME NEW l \in InCallAt, NEW m \in InCallAt,
             pc[p] = l, pc'[p] = m, attempt'[p] = attempt[p],
             Within[m] < Within[l], Within[m] \in Nat, Within[l] \in Nat
      PROVE  StepsLeft(p)' < StepsLeft(p)
  BY <1>0, <1>1 DEF StepsLeft, InCallAt
<1>2. CASE Open(p)
  <2>1. pc[p] = "open" /\ pc'[p] \in {"download", "failed"} /\ attempt'[p] = attempt[p]
    BY <1>0, <1>2 DEF Open, Goto
  <2>2. QED  BY <1>1, <2>1 DEF Positions, InCallAt, Within
<1>3. CASE Download(p)
  <2>1. pc[p] = "download" /\ pc'[p] \in {"verify", "failed"} /\ attempt'[p] = attempt[p]
    BY <1>0, <1>3 DEF Download, Goto
  <2>2. QED  BY <1>1, <2>1 DEF Positions, InCallAt, Within
<1>4. CASE Verify(p)
  <2>1. pc[p] = "verify" /\ pc'[p] \in {"import", "failed"} /\ attempt'[p] = attempt[p]
    BY <1>0, <1>4 DEF Verify, Goto
  <2>2. QED  BY <1>1, <2>1 DEF Positions, InCallAt, Within
<1>5. CASE Import(p)
  <2>1. pc[p] = "import" /\ pc'[p] = "leave" /\ attempt'[p] = attempt[p]
    BY <1>0, <1>5 DEF Import, Goto, locals
  <2>2. QED  BY <1>1, <2>1 DEF Positions, InCallAt, Within
<1>6. CASE Retry(p)
  <2>1. CASE pc'[p] = "leave" /\ attempt'[p] = attempt[p]
    BY <1>1, <1>6, <2>1 DEF Retry, Positions, InCallAt, Within
  <2>2. CASE pc'[p] = "open" /\ attempt'[p] = attempt[p] + 1
    <3>1. /\ StepsLeft(p) = 5 * (maxPullAttempts - attempt[p]) + 2
          /\ StepsLeft(p)' = 5 * (maxPullAttempts - (attempt[p] + 1)) + 5
      BY <1>6, <2>2 DEF Retry, StepsLeft, Within
    <3>2. QED  BY <1>0, <3>1
  <2>3. QED  BY <1>0, <1>6, <2>1, <2>2 DEF Retry, Goto
<1>7. CASE Leave(p)
  <2>1. ~ Over(p) /\ pc'[p] = "idle"
    BY <1>0, <1>7 DEF Leave, Return, Goto
  <2>2. StepsLeft(p)' = 0  BY <2>1 DEF StepsLeft
  <2>3. StepsLeft(p) \in Nat /\ StepsLeft(p) # 0  BY <2>1, LeftAt, AttemptAssumption
  <2>4. QED  BY <2>2, <2>3
<1>8. QED
  BY <1>2, <1>3, <1>4, <1>5, <1>6, <1>7 DEF Step

(* Whoever steps, a call gets no more steps to do.                           *)
LEMMA NoMoreSteps ==
    ASSUME CountInv, [Next]_vars, NEW p \in Proc, ~ Over(p)
    PROVE  StepsLeft(p)' <= StepsLeft(p)
<1>0. StepsLeft(p) \in Nat /\ pc \in [Proc -> Positions] /\ DOMAIN attempt = Proc
  BY LeftAt, AttemptAssumption DEF CountInv
<1>1. CASE Step(p)
  <2>1. attempt'[p] \in 0..maxPullAttempts /\ pc'[p] \in Positions
    BY Counted DEF CountInv
  <2>2. ~ Over(p)' => Within[pc'[p]] \in 1..5  BY <2>1 DEF Positions, InCallAt, Within
  <2>3. StepsLeft(p)' \in Nat  BY <2>1, <2>2, AttemptAssumption DEF StepsLeft
  <2>4. QED  BY <1>0, <1>1, <2>3, StepUses
<1>2. CASE UNCHANGED <<pc[p], attempt[p]>>
  BY <1>0, <1>2 DEF StepsLeft
<1>3. CASE Over(p)'
  BY <1>0, <1>3 DEF StepsLeft
<1>4. ASSUME NEW q \in Proc, q # p, Step(q) \/ Pull(q) \/ Crash(q)
      PROVE  UNCHANGED <<pc[p], attempt[p]>>
  BY <1>0, <1>4 DEF Step, Open, Download, Verify, Import, Retry, Leave, Pull, Crash, Return, Goto,
                    locals
<1>5. ASSUME NEW q \in Proc, Sweep(q)
      PROVE  UNCHANGED <<pc[p], attempt[p]>>
  BY <1>0, <1>5 DEF Sweep, Goto, locals
<1>6. CASE Reboot \/ Pull(p) \/ Crash(p)
  BY <1>0, <1>3, <1>6 DEF Reboot, Pull, Crash, Return, Goto, Off
<1>7. CASE UNCHANGED <<pc, attempt>>
  BY <1>2, <1>7
<1>8. QED
  BY <1>1, <1>2, <1>4, <1>5, <1>6, <1>7 DEF Next, Push, RM, vars, locals

(* The safety half of EveryPullEnds: a pull makes at most five steps in each *)
(* of its attempts, each step of its own uses one up, and no other CLI, gc,  *)
(* push or failure gives it more to do (Pull's loop over maxPullAttempts); a *)
(* call that ended without being killed left no temp file (Pull's defer).    *)
THEOREM PullsAreBounded ==
    Spec => /\ [](\A p \in Proc : /\ StepsLeft(p) \in 0..5 * maxPullAttempts
                                  /\ StepsLeft(p) = 0 <=> Over(p)
                                  /\ pc[p] = "idle" => file[p] = None)
            /\ [][\A p \in Proc : ~ Over(p) =>
                    /\ StepsLeft(p)' <= StepsLeft(p)
                    /\ Step(p) => StepsLeft(p)' < StepsLeft(p)]_vars
<1>1. CountInv /\ PullInv =>
        \A p \in Proc : /\ StepsLeft(p) \in 0..5 * maxPullAttempts
                        /\ StepsLeft(p) = 0 <=> Over(p)
                        /\ pc[p] = "idle" => file[p] = None
  BY LeftAt DEF PullInv, Sound
<1>2. CountInv /\ [Next]_vars =>
        [\A p \in Proc : ~ Over(p) =>
            /\ StepsLeft(p)' <= StepsLeft(p)
            /\ Step(p) => StepsLeft(p)' < StepsLeft(p)]_vars
  BY NoMoreSteps, StepUses
<1>3. QED
  BY <1>1, <1>2, Counted, PullCorrect, PTL DEF Spec
=============================================================================
