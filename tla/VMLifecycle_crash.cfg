SPECIFICATION Spec
CONSTANTS
    Proc = {p1, p2}
    Pid = {q1, q2, q3}
    Mode = {"user", "bridge", "cni"}
    Faults = {"crash", "reboot", "corrupt"}
    None = None
SYMMETRY Symmetry
INVARIANTS
    GuestHasRecord
    RestoreKeepsGate
PROPERTIES
    NetServesGuest
    KeepsPromise
