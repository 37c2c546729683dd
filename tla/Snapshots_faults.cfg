SPECIFICATION Spec
CONSTANTS
    VM = {v1}
    Disks = 3
    Tag = {t1, t2}
    Faults = {"crash", "interrupt", "undo", "save"}
    MaxWrites = 2
    MaxPoints = 2
    None = None
SYMMETRY Symmetry
INVARIANTS
    TypeOK
    RecordedEverywhere
PROPERTIES
    SnapshotsAtomic
