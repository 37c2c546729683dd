SPECIFICATION Spec
CONSTANTS
    Proc = {p1, p2}
    Pid = {q1, q2, q3}
    Mode = {"user", "bridge", "cni"}
    Faults = {"crash", "reboot", "kill", "net", "corrupt"}
    None = None
SYMMETRY Symmetry
INVARIANTS
    TypeOK
    OneGuest
    OfflineImages
    ScaffoldsFresh
    DisplayRecorded
    GatedDisplay
PROPERTIES
    StopMeansStopped
    LaunchServesDisplay
