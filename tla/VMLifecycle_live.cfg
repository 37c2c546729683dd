SPECIFICATION FairSpec
CONSTANTS
    Proc = {p1, p2}
    Pid = {q1, q2, q3}
    Mode = {"user", "cni"}
    Faults = {"reboot", "net", "front"}
    None = None
PROPERTIES
    VncGoneAfterStop
    Returns
