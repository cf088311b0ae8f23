CONSTANTS
    r1 = r1
    r2 = r2
    invoice_a = invoice_a
    invoice_b = invoice_b
    at_limit = at_limit
    over_limit = over_limit
    no_pdf = no_pdf
    big_no_pdf = big_no_pdf
    empty = empty
    t1 = t1
    p1 = p1
    total = total
    sound = sound
    unsound = unsound
    immense = immense
    Ours = Ours
    Theirs = Theirs
    None = None
    Failed = Failed
    Requests <- OneRequest
    Files <- OneInvoice
    SizeOf <- Sizes
    IsPdf <- Pdfs
    MAX_UPLOAD_BYTES = 4
    READ_CHUNK_BYTES = 2
    Takes <- OneTake
    MaxEntries = 1
    TextChars = 1
    Prompts <- OnePrompt
    Fields <- OneField
    Contents <- ThreeContents
    Answers <- AllAnswers
    RawLimits <- OnlyDefault
    DefaultLimit = 2
    ATTEMPTS = 2
    Broken <- SomeBroken
    Unroundable <- SomeUnroundable
SPECIFICATION Spec
INVARIANTS
    InvoiceComesBackWhole
