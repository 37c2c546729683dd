SPECIFICATION FairSpec
CONSTANTS
    Name = {1, 2}
    Proc = {p1, p2}
    Id = {i1}
    Ops = {"create", "clone", "rm", "gc"}
    Faults = {}
    None = None
PROPERTIES
    EveryCallEnds
