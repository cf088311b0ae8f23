CONSTANTS
    r1 = r1
    r2 = r2
    letter = letter
    scan = scan
    broken = broken
    None = None
    Failed = Failed
    Readers <- TwoReaders
    Files <- ThreeFiles
    PagesOf <- SomePages
    Outputs <- SomeOutputs
    TIMEOUT_SECONDS = 1
SPECIFICATION FairSpec
INVARIANTS
    TypeOK
    LinesKeepTheWords
    DirectoryOnlyWhileReading
    ReadIsBounded
PROPERTIES
    WholeDocument
    EveryReadEnds
    ImplementsEngine
