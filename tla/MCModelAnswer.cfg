CONSTANTS
    inf = inf
    nan = nan
    Texts <- TheTexts
    Statuses <- SomeStatuses
    RawTimeouts <- SomeRawTimeouts
    Forever = inf
    Nonsense = nan
    DEFAULT_TIMEOUT_SECONDS = 2
    MaxOperations = 4
    Page <- ThePage
    Optional <- TheOptional
    TermAt <- TheTerms
SPECIFICATION ModelSpec
INVARIANTS
    TypeOK
    CallIsBounded
    ReadAsMeant
    ProblemsNameTheTerm
PROPERTIES
    EveryCallEnds
