------------------------------ MODULE VMPromise ------------------------------
(***************************************************************************)
(* What `cocoon-macos vm` promises of one VM to somebody who sees only its *)
(* record, its guest and its display: a VM is created stopped, runs one    *)
(* guest at a time, keeps its network mode for life, and disappears only   *)
(* when it does not run.  VMLifecycle implements this in many small steps. *)
(***************************************************************************)
CONSTANTS Modes, Gated(_), NoMode

VARIABLES
    status,   \* "absent", "stopped" or "running"
    mode,     \* the network mode of its record, NoMode without one
    screen    \* the display of the guest, "off" without one

vars == <<status, mode, screen>>

Screens == {"off", "open", "locked", "set"}

Init == status = "absent" /\ mode = NoMode /\ screen = "off"

(* create, and run up to its record.                                         *)
Create ==
    /\ status = "absent" /\ status' = "stopped"
    /\ mode' \in Modes
    /\ UNCHANGED screen

(* run, start and restore --force: the guest comes up with its display, and  *)
(* one that is reachable off the host asks for a password from the start.    *)
Boot ==
    /\ status = "stopped" /\ status' = "running"
    /\ screen' \in IF Gated(mode) THEN {"off", "locked"} ELSE {"off", "open", "locked"}
    /\ UNCHANGED mode

(* set_password on a display that waits for one.                             *)
Unlock ==
    /\ status = "running" /\ screen = "locked" /\ screen' = "set"
    /\ UNCHANGED <<status, mode>>

(* stop, a power-off, a crash of the guest or of the host.                   *)
Halt ==
    /\ status = "running" /\ status' = "stopped"
    /\ screen' = "off"
    /\ UNCHANGED mode

(* rm, and the cleanup of a run that failed.                                 *)
Remove ==
    /\ status = "stopped" /\ status' = "absent"
    /\ mode' = NoMode
    /\ UNCHANGED screen

Next == Create \/ Boot \/ Unlock \/ Halt \/ Remove

Spec == Init /\ [][Next]_vars
=============================================================================
