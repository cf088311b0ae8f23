CONSTANTS
    r1 = r1
    r2 = r2
    r3 = r3
    a = a
    b = b
    c = c
    t1 = t1
    t2 = t2
    None = None
    Failed = Failed
    Readers <- TwoReaders
    Files <- ThreeFiles
    Takes <- OneTake
    MaxEntries = 3
SPECIFICATION Spec
INVARIANT
    NeverReadTwice
