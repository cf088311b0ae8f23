CONSTANTS
    CENT = 2
    PIECE = 1
    PERCENT = 1
    MaxCents = 100000
    None = None
    Pages <- UnusedRatePage
    Amounts <- OneAmount
SPECIFICATION Spec
CHECK_DEADLOCK FALSE
INVARIANTS
    TaxableIsTheLinesAtThatRate
