SPECIFICATION Spec
CONSTANTS
    Proc = {p1, p2}
    Image = {o1, o2}
    NbdCount = 2
    Faults = {"crash", "cancel", "kill", "io"}
    None = None
SYMMETRY Symmetry
INVARIANTS
    TypeOK
    SavedMeansInjected
    NoServerLeft
PROPERTIES
    ConnectsFreeDevice
    LeaseHolderAdvances
