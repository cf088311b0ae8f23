------------------------------ MODULE Service ------------------------------
(***************************************************************************)
(* The HTTP service (src/src/api.py): startup, the bounded upload, and     *)
(* POST /extract, which reads the file through the OCR cache, has the      *)
(* model extract an invoice, checks it and answers.  The cache and the     *)
(* extractor are the modules OcrCache and Extractor; their readers and     *)
(* jobs are the requests.  Requests interleave at every await.             *)
(*                                                                         *)
(* extract() runs on without suspending from a reading to the first call   *)
(* of the model; here that is two steps, which only adds interleavings.    *)
(***************************************************************************)
EXTENDS Naturals, Sequences

CONSTANTS
    Requests, Files, SizeOf, IsPdf,     \* what may be uploaded: SizeOf[f], IsPdf[f]
    MAX_UPLOAD_BYTES, READ_CHUNK_BYTES,
    Takes, MaxEntries,                  \* see OcrCache
    TextChars, Prompts, Fields, Contents, Answers, RawLimits, DefaultLimit, ATTEMPTS,
    Ours, Theirs,                       \* see Extractor; every text has TextChars characters
    Broken, Unroundable,                \* Broken[i]: the rules invoice i breaks; invoices
                                        \* with an amount check() cannot round
    None, Failed

VARIABLES
    up,         \* the lifespan has begun
    config,     \* the environment it began with
    extractor,  \* app.state.extractor is there
    phase,      \* phase[r]: how far extract() has come
    body,       \* body[r]: the uploaded file
    taken,      \* taken[r]: the bytes of it in memory
    response,   \* response[r]
    file, got, entries, produced, since,                        \* OcrCache
    text, messages, attempt, problems, outcome, prompt, remembered, limit, sent, heard

ocrVars == <<file, got, entries, produced, since>>
llmVars == <<text, messages, attempt, problems, outcome, prompt, remembered, limit, sent, heard>>
ownVars == <<up, config, extractor, phase, body, taken, response>>
vars == <<ownVars, ocrVars, llmVars>>

Ocr == INSTANCE OcrCache WITH Readers <- Requests
Llm == INSTANCE Extractor WITH Jobs <- Requests, Sources <- Ocr!Readings, Lengths <- {TextChars}

\* OCR_ENGINE and OPENAI_API_KEY, as far as the startup tells them apart.
Configs == [engine : {"unset", "tesseract", "spaces", "paddle", "nonsense"}, key : BOOLEAN]

\* create_engine(): an unset or empty name means tesseract, whose name may be padded and in
\* any case; a name of nothing but spaces is set, and is no engine's.
EngineNames == {"unset", "tesseract"}

\* The errors a request may end with; each class carries its status.
StatusOf == [not_a_pdf |-> 415, file_too_large |-> 413, ocr_failed |-> 422,
             llm_not_configured |-> 500, llm_request_failed |-> 502,
             extraction_failed |-> 422, invoice_not_valid |-> 422]

Failure(status, code) == [status |-> status, code |-> code, reading |-> None,
                          invoice |-> None, violations |-> {}, valid |-> FALSE]

Responses ==
    [status : {200} \cup {StatusOf[code] : code \in DOMAIN StatusOf},
     code : {None} \cup DOMAIN StatusOf,
     reading : {None} \cup Ocr!Readings,
     invoice : {None} \cup Llm!AnswerType,
     violations : SUBSET UNION {Broken[i] : i \in DOMAIN Broken},
     valid : BOOLEAN]

ASSUME ServiceAssumption ==
    /\ \A f \in Files : SizeOf[f] \in Nat /\ IsPdf[f] \in BOOLEAN
    /\ MAX_UPLOAD_BYTES \in Nat
    /\ READ_CHUNK_BYTES \in Nat \ {0}
    /\ \A a \in Answers : Llm!Fits(a) => Llm!InvoiceOf(a) \in DOMAIN Broken
    /\ None \notin DOMAIN StatusOf /\ None \notin Responses
    /\ Ocr!CacheAssumption
    /\ Llm!ExtractorAssumption

\* handle_invoice_error and _error_response
Error(code) == Failure(StatusOf[code], code)

\* An exception that is no InvoiceError becomes a 500 without the error body.
InternalServerError == Failure(500, None)

\* Mutant: an invoice that fails the checks is refused.
ExtractedOnlyIfValid(reading, invoice) ==
    IF Broken[invoice] # {} THEN Error("invoice_not_valid")
    ELSE [status |-> 200, code |-> None, reading |-> reading, invoice |-> invoice,
          violations |-> {}, valid |-> TRUE]

\* Extracted: the invoice whether it passed the checks or not.
Extracted(reading, invoice) ==
    [status |-> 200, code |-> None, reading |-> reading, invoice |-> invoice,
     violations |-> Broken[invoice], valid |-> Broken[invoice] = {}]

Init ==
    /\ up = FALSE
    /\ config = None
    /\ extractor = FALSE
    /\ phase = [r \in Requests |-> "none"]
    /\ body = [r \in Requests |-> None]
    /\ taken = [r \in Requests |-> 0]
    /\ response = [r \in Requests |-> None]
    /\ Ocr!Init
    /\ Llm!Init

\* lifespan(): a wrong OCR_ENGINE stops the service, a missing key does not.
\* ERP_ADAPTER is not looked at.
Boot(c) ==
    /\ ~up
    /\ config' = c
    /\ up' = (c.engine \in EngineNames)
    /\ extractor' = (c.engine \in EngineNames /\ c.key)
    /\ UNCHANGED <<phase, body, taken, response, ocrVars, llmVars>>

\* The process dies: requests, cache and conversations are gone.
Die ==
    /\ up
    /\ up' = FALSE
    /\ extractor' = FALSE
    /\ phase' = [r \in Requests |-> "none"]
    /\ body' = [r \in Requests |-> None]
    /\ taken' = [r \in Requests |-> 0]
    /\ response' = [r \in Requests |-> None]
    /\ Ocr!Restart
    /\ Llm!Restart
    /\ UNCHANGED config

Respond(r, answer) ==
    /\ phase' = [phase EXCEPT ![r] = "answered"]
    /\ response' = [response EXCEPT ![r] = answer]

Upload(r, f) ==
    /\ up
    /\ phase[r] = "none"
    /\ phase' = [phase EXCEPT ![r] = "uploading"]
    /\ body' = [body EXCEPT ![r] = f]
    /\ UNCHANGED <<up, config, extractor, taken, response, ocrVars, llmVars>>

\* Mutants: a file of exactly the limit is refused; the limit is not checked.
ReadChunkAtLimit(r) ==
    LET left == SizeOf[body[r]] - taken[r]
        chunk == IF left < READ_CHUNK_BYTES THEN left ELSE READ_CHUNK_BYTES
    IN  /\ phase[r] = "uploading"
        /\ chunk > 0
        /\ taken' = [taken EXCEPT ![r] = @ + chunk]
        /\ IF taken'[r] >= MAX_UPLOAD_BYTES
           THEN Respond(r, Error("file_too_large"))
           ELSE UNCHANGED <<phase, response>>
        /\ UNCHANGED <<up, config, extractor, body, ocrVars, llmVars>>
ReadChunkUnlimited(r) ==
    LET left == SizeOf[body[r]] - taken[r]
        chunk == IF left < READ_CHUNK_BYTES THEN left ELSE READ_CHUNK_BYTES
    IN  /\ phase[r] = "uploading"
        /\ chunk > 0
        /\ taken' = [taken EXCEPT ![r] = @ + chunk]
        /\ UNCHANGED <<up, config, extractor, body, phase, response, ocrVars, llmVars>>

\* _read_within_limit: one chunk; the limit is checked after every chunk.
ReadChunk(r) ==
    LET left == SizeOf[body[r]] - taken[r]
        chunk == IF left < READ_CHUNK_BYTES THEN left ELSE READ_CHUNK_BYTES
    IN  /\ phase[r] = "uploading"
        /\ chunk > 0
        /\ taken' = [taken EXCEPT ![r] = @ + chunk]
        /\ IF taken'[r] > MAX_UPLOAD_BYTES
           THEN Respond(r, Error("file_too_large"))
           ELSE UNCHANGED <<phase, response>>
        /\ UNCHANGED <<up, config, extractor, body, ocrVars, llmVars>>

\* The upload is read to its end and has no PDF signature.
RejectNotAPdf(r) ==
    /\ phase[r] = "uploading"
    /\ taken[r] = SizeOf[body[r]]
    /\ ~IsPdf[body[r]]
    /\ Respond(r, Error("not_a_pdf"))
    /\ UNCHANGED <<up, config, extractor, body, taken, ocrVars, llmVars>>

\* The upload is accepted: read() of the cache answers, or suspends on the tools.
ReadPdf(r) ==
    /\ phase[r] = "uploading"
    /\ taken[r] = SizeOf[body[r]]
    /\ IsPdf[body[r]]
    /\ Ocr!Hit(r, body[r]) \/ Ocr!Miss(r, body[r])
    /\ phase' = [phase EXCEPT ![r] = "reading"]
    /\ UNCHANGED <<up, config, extractor, body, taken, response, llmVars>>

OcrReturns(r) ==
    /\ \E t \in Takes : Ocr!Store(r, t)
    /\ UNCHANGED <<ownVars, llmVars>>

\* Mutant: the failure is swallowed.
OcrFailsSilently(r) ==
    /\ Ocr!InnerFails(r)
    /\ UNCHANGED <<ownVars, llmVars>>

\* Only OcrFailedError is an InvoiceError: a tool that is not installed, a full disk or
\* rows that do not parse raise exceptions of other classes, and end in a plain 500.
OcrFails(r) ==
    /\ Ocr!InnerFails(r)
    /\ Respond(r, Error("ocr_failed")) \/ Respond(r, InternalServerError)
    /\ UNCHANGED <<up, config, extractor, body, taken, llmVars>>

\* Mutant: the extractor is looked up before the reading is awaited.
NoExtractorAtOnce(r) ==
    /\ phase[r] = "reading"
    /\ ~extractor
    /\ Respond(r, Error("llm_not_configured"))
    /\ UNCHANGED <<up, config, extractor, body, taken, ocrVars, llmVars>>

\* _extractor_of: only now does it show that no model is configured.
NoExtractor(r) ==
    /\ phase[r] = "reading" /\ got[r] \in Ocr!Readings
    /\ ~extractor
    /\ Respond(r, Error("llm_not_configured"))
    /\ UNCHANGED <<up, config, extractor, body, taken, ocrVars, llmVars>>

\* Mutant: the reading is passed on in shared state, where another request's may be.
BeginExtractOfAnother(r) ==
    /\ phase[r] = "reading" /\ got[r] \in Ocr!Readings
    /\ extractor
    /\ \E q \in {p \in Requests : got[p] \in Ocr!Readings} :
          Llm!Start(r, [of |-> got[q], chars |-> TextChars])
    /\ phase' = [phase EXCEPT ![r] = "extracting"]
    /\ UNCHANGED <<up, config, extractor, body, taken, response, ocrVars>>

\* extract() up to its first call of the model, or up to the missing prompt file.
BeginExtract(r) ==
    LET reading == [of |-> got[r], chars |-> TextChars]
    IN  /\ phase[r] = "reading" /\ got[r] \in Ocr!Readings
        /\ extractor
        /\ \/ /\ Llm!Start(r, reading)
              /\ phase' = [phase EXCEPT ![r] = "extracting"]
              /\ UNCHANGED response
           \/ /\ Llm!StartCrashes(r, reading)
              /\ Respond(r, InternalServerError)
        /\ UNCHANGED <<up, config, extractor, body, taken, ocrVars>>

\* The model's answer fits: the invoice is checked and handed on either way.
Answered(r, a) ==
    LET invoice == Llm!InvoiceOf(a)
    IN  /\ phase[r] = "extracting"
        /\ Llm!Accept(r, a)
        /\ IF invoice \in Unroundable
           THEN Respond(r, InternalServerError)
           ELSE Respond(r, Extracted(got[r], invoice))
        /\ UNCHANGED <<up, config, extractor, body, taken, ocrVars>>

\* The model's answer is refused: ask again, or give up.
Refused(r, a) ==
    /\ phase[r] = "extracting"
    /\ Llm!Refuse(r, a)
    /\ IF outcome'[r] = None
       THEN UNCHANGED <<phase, response>>
       ELSE Respond(r, Error("extraction_failed"))
    /\ UNCHANGED <<up, config, extractor, body, taken, ocrVars>>

ModelFails(r) ==
    /\ phase[r] = "extracting"
    /\ Llm!ProviderFails(r)
    /\ Respond(r, Error("llm_request_failed"))
    /\ UNCHANGED <<up, config, extractor, body, taken, ocrVars>>

\* The project directory is mounted into the container: the prompt may be edited.
EditPrompt ==
    /\ \E p \in Prompts \cup {None} : Llm!EditPrompt(p)
    /\ UNCHANGED <<ownVars, ocrVars>>

\* The steps of a request after it was sent.
Proceed(r) ==
    \/ ReadChunk(r) \/ RejectNotAPdf(r) \/ ReadPdf(r)
    \/ OcrReturns(r) \/ OcrFails(r)
    \/ NoExtractor(r) \/ BeginExtract(r)
    \/ ModelFails(r) \/ \E a \in Answers : Answered(r, a) \/ Refused(r, a)

Next ==
    \/ \E c \in Configs : Boot(c)
    \/ Die
    \/ \E r \in Requests, f \in Files : Upload(r, f)
    \/ \E r \in Requests : Proceed(r)
    \/ EditPrompt

Spec == Init /\ [][Next]_vars

\* The event loop runs every request that can run, the upload is spooled before
\* extract() begins, the OCR tools are killed when they take too long, and every call
\* of the model ends.
FairSpec == Spec /\ \A r \in Requests : WF_vars(Proceed(r))

-----------------------------------------------------------------------------
TypeOK ==
    /\ up \in BOOLEAN /\ extractor \in BOOLEAN
    /\ config \in Configs \cup {None}
    /\ phase \in [Requests -> {"none", "uploading", "reading", "extracting", "answered"}]
    /\ body \in [Requests -> Files \cup {None}]
    /\ taken \in [Requests -> 0..(MAX_UPLOAD_BYTES + READ_CHUNK_BYTES)]
    /\ response \in [Requests -> Responses \cup {None}]

Succeeded(r) == response[r] # None /\ response[r].status = 200
FailedWith(r, code) == response[r] # None /\ response[r].code = code

\* A successful answer is about the file of its own request all the way through: the
\* reading is of the uploaded bytes, the model was only ever asked about that reading,
\* and the invoice is what the model last said about it.  Caching, eviction, retries
\* and other requests running in between do not mix them up.
AnswerIsAboutOwnFile ==
    \A r \in Requests : Succeeded(r) =>
        /\ response[r].reading.of = body[r]
        /\ \A k \in 1..Len(sent[r]) : sent[r][k][2].content.of = response[r].reading
        /\ response[r].invoice = Llm!InvoiceOf(heard[r][Len(heard[r])])

\* The limit is exact, and wins over the signature: 413 for every larger file and no
\* other, 415 for the smaller ones without signature; at most one chunk over the limit
\* is ever in memory; and a rejected upload costs neither OCR nor a model call.
UploadLimitIsExact ==
    \A r \in Requests :
        /\ FailedWith(r, "file_too_large") => SizeOf[body[r]] > MAX_UPLOAD_BYTES
        /\ FailedWith(r, "not_a_pdf") =>
              SizeOf[body[r]] <= MAX_UPLOAD_BYTES /\ ~IsPdf[body[r]]
        /\ FailedWith(r, "file_too_large") \/ FailedWith(r, "not_a_pdf") =>
              file[r] = None /\ sent[r] = <<>>
        /\ file[r] # None => SizeOf[body[r]] <= MAX_UPLOAD_BYTES /\ IsPdf[body[r]]

\* The code of an answer says which component failed, and how far the work had come:
\* without a model the file was read all the same and nothing was paid for; 502 is
\* the model's failure only; 422 extraction_failed only follows ATTEMPTS refusals.
CodeSaysWhatFailed ==
    \A r \in Requests :
        /\ FailedWith(r, "ocr_failed") => got[r] = Failed
        /\ FailedWith(r, "llm_not_configured") =>
              ~config.key /\ got[r] \in Ocr!Readings /\ sent[r] = <<>>
        /\ FailedWith(r, "llm_request_failed") =>
              config.key /\ Len(heard[r]) = Len(sent[r]) - 1
        /\ FailedWith(r, "extraction_failed") =>
              Len(heard[r]) = ATTEMPTS /\ \A k \in 1..ATTEMPTS : ~Llm!Fits(heard[r][k])

\* The invoices the model gave for a request, in whichever attempt, that fit the schema.
HeardInvoices(r) ==
    {Llm!InvoiceOf(heard[r][k]) : k \in {n \in DOMAIN heard[r] : Llm!Fits(heard[r][n])}}

\* The invoice is answered with whole, alongside the rules it breaks.
ComesBack(r, invoice) ==
    /\ Succeeded(r)
    /\ response[r].invoice = invoice
    /\ response[r].violations = Broken[invoice]
    /\ response[r].valid <=> Broken[invoice] = {}

\* The first answer that fits ends the request, and with that invoice, however many
\* rules it breaks: no later answer, failure or other request takes its place.  The one
\* exception are the invoices check() cannot round (src/src/validate/rules.py:101, called
\* from api.py:187): these are lost, in a plain 500 and in no other way.
OnlyOverflowLosesAnInvoice ==
    \A r \in Requests : \A invoice \in HeardInvoices(r) :
        \/ ComesBack(r, invoice)
        \/ invoice \in Unroundable /\ response[r] = InternalServerError

\* Every upload is answered, unless the process dies first.
EveryUploadIsAnswered ==
    \A r \in Requests : phase[r] = "uploading" ~> phase[r] \in {"answered", "none"}

-----------------------------------------------------------------------------
\* src/src/api.py:116: "One shape for every error the API returns."
OneShapeForEveryError ==
    \A r \in Requests : response[r] # None /\ response[r].status # 200 => response[r].code # None

\* src/README.md:47: "Validation is not optional, and it does not throw anything away.
\* [...] The invoice comes back whole alongside the violations".
InvoiceComesBackWhole ==
    \A r \in Requests : \A invoice \in HeardInvoices(r) : ComesBack(r, invoice)
=============================================================================
