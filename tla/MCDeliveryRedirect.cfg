CONSTANTS
    s1 = s1
    s2 = s2
    o1 = o1
    paid = paid
    unpaid = unpaid
    wrong = wrong
    immense = immense
    stem = stem
    other_stem = other_stem
    None = None
    Torn = Torn
    Sends <- TwoSends
    Objects <- OneObject
    Documents <- FourDocuments
    Valid <- TwoValid
    Unroundable <- OneUnroundable
    Stems <- TwoStems
    StemOf <- Collide
    Statuses <- WithRedirect
SPECIFICATION Spec
INVARIANTS
    ToldItArrived
