CONSTANTS
    r1 = r1
    r2 = r2
    r3 = r3
    a = a
    b = b
    c = c
    t1 = t1
    t2 = t2
    None = None
    Failed = Failed
    Readers <- ThreeReaders
    Files <- ThreeFiles
    Takes <- TwoTakes
    MaxEntries = 2
SPECIFICATION Spec
SYMMETRY Interchangeable
INVARIANTS
    TypeOK
    WithinLimit
    NoForeignReading
    OrderIsRecency
PROPERTIES
    ForgetsOnlyTheLeastUsed
    ImplementsEngine
