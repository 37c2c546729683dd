SPECIFICATION Spec
CONSTANTS
    Proc = {p1, p2}
    Pid = {q1, q2, q3}
    Mode = {"user", "bridge", "cni"}
    Faults = {"crash", "front"}
    None = None
SYMMETRY Symmetry
PROPERTIES
    StopMeansStopped
