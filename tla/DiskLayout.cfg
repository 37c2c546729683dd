SPECIFICATION Spec
CONSTANTS
    VM = {m1, m2}
    b1 = b1
    b2 = b2
    f = f
    Blob = {b1, b2}
    File = f
    SizeOf <- MCSizeOf
    Storage = {0, 2}
    SpecLists <- MCSpecLists
    Ident = {s1, s2}
    None = None
SYMMETRY Symmetry
INVARIANTS
    TypeOK
    ClonesShareTheBase
    StorageKept
    ChainsStayOwn
    IdentitiesDiffer
    DisksNamedAsAsked
    CopiesKeepData
