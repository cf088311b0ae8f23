CONSTANTS
    j1 = j1
    j2 = j2
    scan = scan
    p1 = p1
    p2 = p2
    one = one
    other = other
    Ours = Ours
    Theirs = Theirs
    None = None
    DefaultLimit = 2
    ATTEMPTS = 2
    Jobs <- TwoJobs
    Sources <- OneSource
    Lengths <- AroundTheLimit
    Prompts <- TwoPrompts
    Answers <- SomeAnswers
    Fields <- Terms
    Contents <- TwoContents
    RawLimits <- SomeRawLimits
SPECIFICATION FairSpec
INVARIANTS
    TypeOK
    PaysOnlyForRefusals
    RetryQuotesTheRefusal
    OutcomeIsTheLastAnswer
PROPERTIES
    EveryJobEnds
