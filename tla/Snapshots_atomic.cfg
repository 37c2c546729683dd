SPECIFICATION Spec
CONSTANTS
    VM = {v1, v2}
    Disks = 3
    Tag = {t1, t2}
    Faults = {}
    MaxWrites = 1
    MaxPoints = 2
    None = None
SYMMETRY Symmetry
PROPERTIES
    SnapshotsAtomic
