SPECIFICATION Spec
CONSTANTS
    Name = {1, 2}
    Proc = {p1, p2, p3}
    Id = {i1, i2}
    Ops = {"create", "run", "clone", "start", "rm", "gc"}
    Faults = {"crash", "reboot"}
    None = None
SYMMETRY Symmetry
INVARIANTS
    TypeOK
    InFlightDirsStay
    LeakStaysReclaimable
    NoCircularWait
PROPERTIES
    InUseDevicesStay
    GcReclaims
