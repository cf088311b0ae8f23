CONSTANTS
    CENT = 2
    PIECE = 1
    PERCENT = 1
    MaxCents = 100000
    None = None
    Pages <- AllPages
    Amounts <- SomeAmounts
SPECIFICATION Spec
CHECK_DEADLOCK FALSE
INVARIANTS
    TypeOK
    ACentPassesMoreIsCaught
    FourCentsAtMost
    ReportAsksForOneValue
    SevenRoundsAtMost
    RenderingsAgree
    PassesWhenReadBack
