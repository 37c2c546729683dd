SPECIFICATION FairSpec
CONSTANTS
    Proc = {p1, p2}
    Content = {c1, c2}
    maxPullAttempts = 2
    Faults = {"crash", "reboot", "cancel"}
    None = None
INVARIANTS
    StoreWhole
PROPERTIES
    PulledIsServed
    EveryPullEnds
