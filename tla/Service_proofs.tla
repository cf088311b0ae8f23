--------------------------- MODULE Service_proofs ---------------------------
(***************************************************************************)
(* Proofs about the service, for any number of requests, any files and any *)
(* limits.  The service is shown to use its cache and its extractor as     *)
(* their own specifications allow; the theorems about these two then hold  *)
(* within the service, and what the service answers follows from them.     *)
(***************************************************************************)
EXTENDS Service, TLAPS

\* The theorems about the parts, for the parts as they are used here.
CacheProofs == INSTANCE OcrCache_proofs WITH Readers <- Requests
LlmProofs == INSTANCE Extractor_proofs
                WITH Jobs <- Requests, Sources <- Ocr!Readings, Lengths <- {TextChars}

-----------------------------------------------------------------------------
(* The inductive invariant: how far a request has come, in what the service, *)
(* the cache and the extractor each hold of it.                              *)

\* The extractor has not heard of the request; nor has the cache.
NotAsked(r) == text[r] = None /\ outcome[r] = None /\ sent[r] = <<>>
NotRead(r) == file[r] = None /\ got[r] = None /\ NotAsked(r)

\* The upload was accepted, and the cache was asked for it.
Accepted(r) ==
    /\ body[r] \in Files
    /\ SizeOf[body[r]] <= MAX_UPLOAD_BYTES
    /\ IsPdf[body[r]]
    /\ file[r] = body[r]

\* The extractor was given the reading.
Asked(r) ==
    /\ Accepted(r)
    /\ extractor
    /\ got[r] \in Ocr!Readings
    /\ text[r] = [of |-> got[r], chars |-> TextChars]

\* What a job of the extractor that ended becomes.
AnswerFor(reading, o) ==
    CASE o.kind = "invoice" /\ o.invoice \notin Unroundable -> Extracted(reading, o.invoice)
      [] o.kind = "invoice" /\ o.invoice \in Unroundable -> InternalServerError
      [] o.kind = "crashed" -> InternalServerError
      [] o.kind = "extraction_failed" -> Error("extraction_failed")
      [] o.kind = "llm_request_failed" -> Error("llm_request_failed")

Kinds == {"invoice", "extraction_failed", "llm_request_failed", "crashed"}

\* Why a request has been answered.
RightlyAnswered(r) ==
    \/ /\ response[r] = Error("file_too_large")
       /\ NotRead(r) /\ SizeOf[body[r]] > MAX_UPLOAD_BYTES
    \/ /\ response[r] = Error("not_a_pdf")
       /\ NotRead(r) /\ SizeOf[body[r]] <= MAX_UPLOAD_BYTES /\ ~IsPdf[body[r]]
    \/ /\ response[r] \in {Error("ocr_failed"), InternalServerError}
       /\ Accepted(r) /\ NotAsked(r) /\ got[r] = Failed
    \/ /\ response[r] = Error("llm_not_configured")
       /\ Accepted(r) /\ NotAsked(r) /\ ~extractor /\ got[r] \in Ocr!Readings
    \/ /\ Asked(r)
       /\ outcome[r] # None /\ outcome[r].kind \in Kinds
       /\ response[r] = AnswerFor(got[r], outcome[r])

Stage(r) ==
    \/ /\ phase[r] = "none"
       /\ body[r] = None /\ taken[r] = 0 /\ response[r] = None
       /\ NotRead(r)
    \/ /\ phase[r] = "uploading"
       /\ body[r] \in Files
       /\ taken[r] <= MAX_UPLOAD_BYTES /\ taken[r] <= SizeOf[body[r]]
       /\ response[r] = None
       /\ NotRead(r)
    \/ /\ phase[r] = "reading"
       /\ Accepted(r) /\ NotAsked(r)
       /\ got[r] \in Ocr!Readings \cup {None}
       /\ response[r] = None
    \/ /\ phase[r] = "extracting"
       /\ Asked(r)
       /\ outcome[r] = None
       /\ response[r] = None
    \/ /\ phase[r] = "answered"
       /\ body[r] \in Files
       /\ RightlyAnswered(r)

\* The types of what the service itself holds, but for the responses.
Shape ==
    /\ up \in BOOLEAN /\ extractor \in BOOLEAN
    /\ config \in Configs \cup {None}
    /\ phase \in [Requests -> {"none", "uploading", "reading", "extracting", "answered"}]
    /\ body \in [Requests -> Files \cup {None}]
    /\ taken \in [Requests -> 0..(MAX_UPLOAD_BYTES + READ_CHUNK_BYTES)]
    /\ response = [r \in Requests |-> response[r]]
    /\ DOMAIN file = Requests /\ DOMAIN got = Requests
    /\ DOMAIN text = Requests /\ DOMAIN outcome = Requests /\ DOMAIN sent = Requests

\* Nothing goes on while the service is down.
Running ==
    /\ up => (extractor <=> config.key)
    /\ ~up => ~extractor /\ \A r \in Requests : phase[r] = "none"

IInv ==
    /\ Shape
    /\ Running
    /\ \A r \in Requests : Stage(r)

-----------------------------------------------------------------------------
(* Steps of one request.                                                     *)

\* The step leaves request q alone.
Undisturbed(q) ==
    /\ phase'[q] = phase[q] /\ body'[q] = body[q] /\ taken'[q] = taken[q]
    /\ response'[q] = response[q]
    /\ file'[q] = file[q] /\ got'[q] = got[q]
    /\ text'[q] = text[q] /\ outcome'[q] = outcome[q] /\ sent'[q] = sent[q]

\* A request that a step leaves alone stays where it was.
LEMMA UndisturbedStays ==
    ASSUME NEW q \in Requests, Stage(q), Undisturbed(q), UNCHANGED extractor
    PROVE  Stage(q)'
BY DEF Stage, Undisturbed, NotRead, NotAsked, Accepted, Asked, RightlyAnswered

\* A step that takes one request further, and leaves the others alone, is right.
LEMMA OneRequestMoves ==
    ASSUME IInv, NEW r \in Requests, up, UNCHANGED <<up, config, extractor>>,
           Shape', Stage(r)', \A q \in Requests \ {r} : Undisturbed(q)
    PROVE  IInv'
<1>1. ASSUME NEW q \in Requests PROVE Stage(q)'
  <2>1. CASE q = r
    BY <2>1
  <2>2. CASE q # r
    BY <2>2, UndisturbedStays DEF IInv
  <2> QED
    BY <2>1, <2>2
<1>2. Running'
  BY DEF IInv, Running
<1> QED
  BY <1>1, <1>2 DEF IInv

\* A request that has left the starting line keeps the service running.
LEMMA BusyMeansUp ==
    ASSUME IInv, NEW r \in Requests, phase[r] # "none"
    PROVE  up
BY DEF IInv, Running

\* An element of a sequence is one of the set it is over.
LEMMA InSequence ==
    ASSUME NEW S, NEW s \in Seq(S), NEW i \in 1..Len(s)
    PROVE  s[i] \in S
OBVIOUS

\* What the parts return is never mistaken for nothing.
LEMMA OcrAnswers == None # Failed /\ None \notin Files /\ None \notin Ocr!Readings
BY ServiceAssumption DEF Ocr!CacheAssumption

\* A job that ended has an outcome.
LEMMA EndedIsSomething ==
    ASSUME NEW kind \in Kinds, NEW invoice \in Llm!AnswerType \cup {None},
           NEW found \in SUBSET (Fields \cup {"broken", "not_object", "collapsed"})
    PROVE  Llm!Ended(kind, invoice, found) # None
BY ServiceAssumption DEF Llm!ExtractorAssumption, Llm!Ended, Llm!Outcomes, Kinds

\* An upload arrives at a request that waits for one.
LEMMA UploadKeeps ==
    ASSUME IInv, NEW r \in Requests, NEW f \in Files, Upload(r, f)
    PROVE  IInv'
<1> USE ServiceAssumption DEF ocrVars, llmVars
<1>1. Shape'
  BY DEF IInv, Shape, Upload
<1>2. Stage(r)'
  BY DEF IInv, Shape, Stage, Upload, NotRead, NotAsked
<1>3. \A q \in Requests \ {r} : Undisturbed(q)
  BY DEF IInv, Shape, Upload, Undisturbed
<1> QED
  BY <1>1, <1>2, <1>3, OneRequestMoves DEF Upload

\* A chunk is read: the upload is within the limit, or is answered that it is not.
LEMMA ReadChunkKeeps ==
    ASSUME IInv, NEW r \in Requests, ReadChunk(r)
    PROVE  IInv'
<1> USE ServiceAssumption DEF ocrVars, llmVars
<1> DEFINE left == SizeOf[body[r]] - taken[r]
           chunk == IF left < READ_CHUNK_BYTES THEN left ELSE READ_CHUNK_BYTES
<1>1. up
  BY BusyMeansUp DEF ReadChunk
<1>2. /\ phase[r] = "uploading" /\ body[r] \in Files
      /\ taken[r] <= MAX_UPLOAD_BYTES /\ taken[r] <= SizeOf[body[r]]
      /\ response[r] = None /\ NotRead(r)
  BY DEF IInv, Stage, ReadChunk
<1>3. taken[r] \in Nat /\ SizeOf[body[r]] \in Nat
  BY <1>2 DEF IInv, Shape
<1>4. chunk \in Nat /\ chunk <= READ_CHUNK_BYTES /\ taken[r] + chunk <= SizeOf[body[r]]
  BY <1>2, <1>3
<1>5. taken' = [taken EXCEPT ![r] = @ + chunk]
  BY DEF ReadChunk
<1> HIDE DEF chunk
<1>6. taken'[r] = taken[r] + chunk
  BY <1>5 DEF IInv, Shape
<1>7. \/ /\ taken'[r] > MAX_UPLOAD_BYTES
         /\ Respond(r, Error("file_too_large"))
      \/ /\ taken'[r] <= MAX_UPLOAD_BYTES
         /\ UNCHANGED <<phase, response>>
  BY <1>3, <1>4, <1>6 DEF ReadChunk
<1>8. UNCHANGED <<up, config, extractor, body, file, got, text, outcome, sent>>
  BY DEF ReadChunk
<1>9. Shape'
  <2>1. taken' \in [Requests -> 0..(MAX_UPLOAD_BYTES + READ_CHUNK_BYTES)]
    BY <1>2, <1>3, <1>4, <1>5 DEF IInv, Shape
  <2> QED
    BY <2>1, <1>7, <1>8 DEF IInv, Shape, Respond
<1>10. Stage(r)'
  <2>1. NotRead(r)'
    BY <1>2, <1>8 DEF NotRead, NotAsked
  <2>2. CASE taken'[r] > MAX_UPLOAD_BYTES
    <3>1. phase'[r] = "answered" /\ response'[r] = Error("file_too_large")
      BY <2>2, <1>3, <1>4, <1>6, <1>7 DEF Respond, IInv, Shape
    <3>2. SizeOf[body'[r]] > MAX_UPLOAD_BYTES /\ body'[r] \in Files
      BY <2>2, <1>2, <1>3, <1>4, <1>6, <1>8
    <3> QED
      BY <2>1, <3>1, <3>2 DEF Stage, RightlyAnswered
  <2>3. CASE ~(taken'[r] > MAX_UPLOAD_BYTES)
    <3>1. phase'[r] = "uploading" /\ response'[r] = None /\ body'[r] \in Files
      BY <2>3, <1>2, <1>7, <1>8
    <3>2. taken'[r] <= MAX_UPLOAD_BYTES /\ taken'[r] <= SizeOf[body'[r]]
      BY <2>3, <1>3, <1>4, <1>6, <1>7, <1>8
    <3> QED
      BY <2>1, <3>1, <3>2 DEF Stage
  <2> QED
    BY <2>2, <2>3
<1>11. \A q \in Requests \ {r} : Undisturbed(q)
  BY <1>5, <1>7, <1>8 DEF Undisturbed, Respond, IInv, Shape
<1> QED
  BY <1>1, <1>8, <1>9, <1>10, <1>11, OneRequestMoves

\* What is no PDF is answered at once, and never read.
LEMMA RejectKeeps ==
    ASSUME IInv, NEW r \in Requests, RejectNotAPdf(r)
    PROVE  IInv'
<1> USE ServiceAssumption DEF ocrVars, llmVars
<1>1. up
  BY BusyMeansUp DEF RejectNotAPdf
<1>2. Shape'
  BY DEF IInv, Shape, RejectNotAPdf, Respond
<1>3. Stage(r)'
  BY DEF IInv, Shape, Stage, RejectNotAPdf, Respond, NotRead, NotAsked, RightlyAnswered
<1>4. \A q \in Requests \ {r} : Undisturbed(q)
  BY DEF IInv, Shape, RejectNotAPdf, Respond, Undisturbed
<1> QED
  BY <1>1, <1>2, <1>3, <1>4, OneRequestMoves DEF RejectNotAPdf

\* The answer of a hit is a reading because the dictionary holds readings.
LEMMA ReadPdfKeeps ==
    ASSUME IInv, CacheProofs!TypeOK, NEW r \in Requests, ReadPdf(r)
    PROVE  IInv'
<1> USE ServiceAssumption DEF ocrVars, llmVars
<1>1. up
  BY BusyMeansUp DEF ReadPdf
<1>2. /\ file' = [file EXCEPT ![r] = body[r]]
      /\ got' = got \/ \E reading \in Ocr!Readings : got' = [got EXCEPT ![r] = reading]
  <2>1. CASE Ocr!Miss(r, body[r])
    BY <2>1 DEF Ocr!Miss
  <2>2. CASE Ocr!Hit(r, body[r])
    <3>1. PICK i \in 1..Len(entries) : entries[i].digest = body[r]
      BY <2>2 DEF Ocr!Hit, Ocr!Cached
    <3>2. Ocr!Position(body[r]) \in 1..Len(entries)
      BY <3>1 DEF Ocr!Position
    <3>3. entries \in Seq([digest : Files, result : Ocr!Readings])
      BY Zenon DEF CacheProofs!TypeOK, CacheProofs!Entries, CacheProofs!Readings, Ocr!Readings
    <3>4. entries[Ocr!Position(body[r])] \in [digest : Files, result : Ocr!Readings]
      BY <3>2, <3>3, InSequence
    <3>5. entries[Ocr!Position(body[r])].result \in Ocr!Readings
      BY <3>4
    <3> QED
      BY <2>2, <3>5 DEF Ocr!Hit
  <2> QED
    BY <2>1, <2>2 DEF ReadPdf
<1>3. UNCHANGED <<up, config, extractor, body, taken, response, text, outcome, sent>>
  BY DEF ReadPdf
<1>4. Shape'
  BY <1>2, <1>3 DEF IInv, Shape, ReadPdf
<1>5. Stage(r)'
  <2>1. /\ body[r] \in Files /\ SizeOf[body[r]] <= MAX_UPLOAD_BYTES /\ IsPdf[body[r]]
        /\ response[r] = None /\ NotRead(r)
    BY DEF IInv, Stage, ReadPdf
  <2>2. phase'[r] = "reading" /\ file'[r] = body[r] /\ got'[r] \in Ocr!Readings \cup {None}
    BY <2>1, <1>2 DEF IInv, Shape, ReadPdf, NotRead
  <2>3. Accepted(r)' /\ NotAsked(r)'
    BY <2>1, <2>2, <1>3 DEF Accepted, NotRead, NotAsked
  <2> QED
    BY <2>1, <2>2, <2>3, <1>3 DEF Stage
<1>6. \A q \in Requests \ {r} : Undisturbed(q)
  BY <1>2, <1>3 DEF IInv, Shape, ReadPdf, Undisturbed
<1> QED
  BY <1>1, <1>3, <1>4, <1>5, <1>6, OneRequestMoves

\* What the cache returns is a reading of the file that was asked for.
LEMMA OcrReturnsKeeps ==
    ASSUME IInv, NEW r \in Requests, OcrReturns(r)
    PROVE  IInv'
<1> USE ServiceAssumption DEF llmVars, ownVars
<1>1. PICK t \in Takes : Ocr!Store(r, t)
  BY DEF OcrReturns
<1> DEFINE reading == [of |-> file[r], take |-> t]
<1>2. /\ file[r] # None /\ got[r] = None
      /\ got' = [got EXCEPT ![r] = reading]
      /\ file' = file
  BY <1>1 DEF Ocr!Store, Ocr!Reading
<1> HIDE DEF reading
<1>3. UNCHANGED <<up, config, extractor, phase, body, taken, response, text, outcome, sent>>
  BY DEF OcrReturns
<1>4. /\ phase[r] = "reading" /\ Accepted(r) /\ NotAsked(r) /\ response[r] = None
  BY <1>2, OcrAnswers DEF IInv, Stage, NotRead, Accepted, Asked, RightlyAnswered
<1>5. reading \in Ocr!Readings
  BY <1>4 DEF Accepted, Ocr!Readings, reading
<1>6. up
  BY <1>4, BusyMeansUp
<1>7. Shape'
  BY <1>2, <1>3 DEF IInv, Shape
<1>8. Stage(r)'
  <2>1. got'[r] \in Ocr!Readings
    BY <1>2, <1>5 DEF IInv, Shape
  <2>2. Accepted(r)' /\ NotAsked(r)'
    BY <1>2, <1>3, <1>4 DEF Accepted, NotAsked
  <2> QED
    BY <2>1, <2>2, <1>3, <1>4 DEF Stage
<1>9. \A q \in Requests \ {r} : Undisturbed(q)
  BY <1>2, <1>3 DEF IInv, Shape, Undisturbed
<1> QED
  BY <1>3, <1>6, <1>7, <1>8, <1>9, OneRequestMoves

\* A reading that failed is answered as one.
LEMMA OcrFailsKeeps ==
    ASSUME IInv, NEW r \in Requests, OcrFails(r)
    PROVE  IInv'
<1> USE ServiceAssumption DEF llmVars
<1>1. /\ file[r] # None /\ got[r] = None
      /\ got' = [got EXCEPT ![r] = Failed]
      /\ file' = file
  BY DEF OcrFails, Ocr!InnerFails, Ocr!Reading
<1>2. PICK answer \in {Error("ocr_failed"), InternalServerError} :
         /\ UNCHANGED <<up, config, extractor, body, taken, text, outcome, sent>>
         /\ phase' = [phase EXCEPT ![r] = "answered"]
         /\ response' = [response EXCEPT ![r] = answer]
  BY Zenon DEF OcrFails, Respond, llmVars
<1>3. /\ phase[r] = "reading" /\ Accepted(r) /\ NotAsked(r)
  BY <1>1, OcrAnswers DEF IInv, Stage, NotRead, Accepted, Asked, RightlyAnswered
<1>4. up
  BY <1>3, BusyMeansUp
<1>5. Shape'
  BY <1>1, <1>2 DEF IInv, Shape
<1>6. Stage(r)'
  <2>1. got'[r] = Failed /\ phase'[r] = "answered" /\ response'[r] = answer
    BY <1>1, <1>2 DEF IInv, Shape
  <2>2. Accepted(r)' /\ NotAsked(r)' /\ body'[r] \in Files
    BY <1>1, <1>2, <1>3 DEF Accepted, NotAsked
  <2> QED
    BY <2>1, <2>2 DEF Stage, RightlyAnswered
<1>7. \A q \in Requests \ {r} : Undisturbed(q)
  BY <1>1, <1>2 DEF IInv, Shape, Undisturbed
<1> QED
  BY <1>2, <1>4, <1>5, <1>6, <1>7, OneRequestMoves

\* Without an extractor the request is answered when its file was read.
LEMMA NoExtractorKeeps ==
    ASSUME IInv, NEW r \in Requests, NoExtractor(r)
    PROVE  IInv'
<1> USE ServiceAssumption DEF ocrVars, llmVars
<1>1. up
  BY BusyMeansUp DEF NoExtractor
<1>2. Shape'
  BY DEF IInv, Shape, NoExtractor, Respond
<1>3. Stage(r)'
  BY DEF IInv, Shape, Stage, NoExtractor, Respond, NotAsked, Accepted, RightlyAnswered
<1>4. \A q \in Requests \ {r} : Undisturbed(q)
  BY DEF IInv, Shape, NoExtractor, Respond, Undisturbed
<1> QED
  BY <1>1, <1>2, <1>3, <1>4, OneRequestMoves DEF NoExtractor

\* The extractor is given the text of the request's own reading.
LEMMA BeginExtractKeeps ==
    ASSUME IInv, NEW r \in Requests, BeginExtract(r)
    PROVE  IInv'
<1> USE ServiceAssumption DEF ocrVars
<1> DEFINE reading == [of |-> got[r], chars |-> TextChars]
<1>1. /\ phase[r] = "reading" /\ got[r] \in Ocr!Readings /\ extractor
      /\ UNCHANGED <<up, config, extractor, body, taken, file, got>>
  BY DEF BeginExtract
<1>2. up
  BY <1>1, BusyMeansUp
<1>3. Accepted(r) /\ NotAsked(r) /\ response[r] = None
  BY <1>1 DEF IInv, Stage
<1>4. CASE /\ Llm!Start(r, reading)
           /\ phase' = [phase EXCEPT ![r] = "extracting"]
           /\ UNCHANGED response
  <2>1. /\ text' = [text EXCEPT ![r] = reading]
        /\ outcome' = outcome
        /\ DOMAIN sent' = DOMAIN sent
        /\ \A q \in Requests \ {r} : sent'[q] = sent[q]
    BY <1>4 DEF Llm!Start, IInv, Shape
  <2>2. Shape'
    BY <1>1, <1>4, <2>1 DEF IInv, Shape
  <2>3. Stage(r)'
    <3>1. Asked(r)'
      BY <1>1, <1>3, <2>1 DEF Asked, Accepted, IInv, Shape
    <3>2. phase'[r] = "extracting" /\ outcome'[r] = None /\ response'[r] = None
      BY <1>3, <1>4, <2>1 DEF NotAsked, IInv, Shape
    <3> QED
      BY <3>1, <3>2 DEF Stage
  <2>4. \A q \in Requests \ {r} : Undisturbed(q)
    BY <1>1, <1>4, <2>1 DEF IInv, Shape, Undisturbed
  <2> QED
    BY <1>1, <1>2, <2>2, <2>3, <2>4, OneRequestMoves
<1>5. CASE Llm!StartCrashes(r, reading) /\ Respond(r, InternalServerError)
  <2>1. /\ text' = [text EXCEPT ![r] = reading]
        /\ outcome' = [outcome EXCEPT ![r] = Llm!Ended("crashed", None, {})]
        /\ sent' = sent
        /\ phase' = [phase EXCEPT ![r] = "answered"]
        /\ response' = [response EXCEPT ![r] = InternalServerError]
    BY <1>5 DEF Llm!StartCrashes, Respond
  <2>2. Shape'
    BY <1>1, <2>1 DEF IInv, Shape
  <2>3. Stage(r)'
    <3>1. Asked(r)'
      BY <1>1, <1>3, <2>1 DEF Asked, Accepted, IInv, Shape
    <3>2. /\ phase'[r] = "answered" /\ response'[r] = InternalServerError
          /\ outcome'[r] = Llm!Ended("crashed", None, {})
      BY <2>1 DEF IInv, Shape
    <3>3. outcome'[r] # None
      BY <3>2, EndedIsSomething DEF Kinds
    <3>4. outcome'[r].kind = "crashed" /\ body'[r] \in Files
      BY <3>1, <3>2 DEF Llm!Ended, Asked, Accepted
    <3> QED
      BY <3>1, <3>2, <3>3, <3>4 DEF Stage, RightlyAnswered, AnswerFor, Kinds
  <2>4. \A q \in Requests \ {r} : Undisturbed(q)
    BY <1>1, <2>1 DEF IInv, Shape, Undisturbed
  <2> QED
    BY <1>1, <1>2, <2>2, <2>3, <2>4, OneRequestMoves
<1> QED
  BY <1>4, <1>5 DEF BeginExtract

\* A job that was under way ends, and the request is answered as the job ended.
LEMMA JobEndsRequest ==
    ASSUME IInv, NEW r \in Requests, NEW o, NEW answer,
           phase[r] = "extracting",
           outcome' = [outcome EXCEPT ![r] = o],
           o # None, o.kind \in Kinds, answer = AnswerFor(got[r], o),
           Respond(r, answer),
           UNCHANGED <<up, config, extractor, body, taken, file, got, text, sent>>
    PROVE  IInv'
<1>1. up
  BY BusyMeansUp
<1>2. Shape'
  BY DEF IInv, Shape, Respond
<1>3. Stage(r)'
  <2>1. Asked(r) /\ body[r] \in Files
    BY DEF IInv, Stage, Asked, Accepted
  <2>2. Asked(r)'
    BY <2>1 DEF Asked, Accepted
  <2>3. phase'[r] = "answered" /\ response'[r] = answer /\ outcome'[r] = o
    BY DEF Respond, IInv, Shape
  <2>4. response'[r] = AnswerFor(got'[r], outcome'[r])
    BY <2>3
  <2> QED
    BY <2>1, <2>2, <2>3, <2>4 DEF Stage, RightlyAnswered
<1>4. \A q \in Requests \ {r} : Undisturbed(q)
  BY DEF IInv, Shape, Undisturbed, Respond
<1> QED
  BY <1>1, <1>2, <1>3, <1>4, OneRequestMoves

\* The invoice is the answer under our specification.
LEMMA InvoiceIsAnswer ==
    ASSUME NEW a \in Answers
    PROVE  /\ Llm!InvoiceOf(a) \in Llm!AnswerType
           /\ Llm!InvoiceOf(a) = [a EXCEPT !.spec = Ours]
BY ServiceAssumption DEF Llm!InvoiceOf, Llm!AnswerType, Llm!ExtractorAssumption

\* An answer of the model moves the job of its request alone.
LEMMA AnsweredKeeps ==
    ASSUME IInv, NEW r \in Requests, NEW a \in Answers, Answered(r, a)
    PROVE  IInv'
<1> USE DEF ocrVars
<1> DEFINE invoice == Llm!InvoiceOf(a)
           o == Llm!Ended("invoice", invoice, {})
<1>1. o # None
  BY EndedIsSomething, InvoiceIsAnswer DEF Kinds
<1>2. o.kind = "invoice" /\ o.invoice = invoice
  BY DEF Llm!Ended
<1>3. /\ phase[r] = "extracting"
      /\ outcome' = [outcome EXCEPT ![r] = o]
      /\ Respond(r, IF invoice \in Unroundable THEN InternalServerError
                    ELSE Extracted(got[r], invoice))
      /\ UNCHANGED <<up, config, extractor, body, taken, file, got, text, sent>>
  BY DEF Answered, Llm!Accept
<1> HIDE DEF o, invoice
<1>4. AnswerFor(got[r], o) =
         IF invoice \in Unroundable THEN InternalServerError ELSE Extracted(got[r], invoice)
  BY <1>2 DEF AnswerFor
<1> QED
  BY <1>1, <1>2, <1>3, <1>4, JobEndsRequest DEF Kinds

\* A call that fails ends the job of its request alone.
LEMMA ModelFailsKeeps ==
    ASSUME IInv, NEW r \in Requests, ModelFails(r)
    PROVE  IInv'
<1> USE DEF ocrVars
<1> DEFINE o == Llm!Ended("llm_request_failed", None, {})
<1>1. o # None
  BY EndedIsSomething DEF Kinds
<1>2. o.kind = "llm_request_failed"
  BY DEF Llm!Ended
<1>3. /\ phase[r] = "extracting"
      /\ outcome' = [outcome EXCEPT ![r] = o]
      /\ Respond(r, Error("llm_request_failed"))
      /\ UNCHANGED <<up, config, extractor, body, taken, file, got, text, sent>>
  BY DEF ModelFails, Llm!ProviderFails
<1> HIDE DEF o
<1>4. AnswerFor(got[r], o) = Error("llm_request_failed")
  BY <1>2 DEF AnswerFor
<1> QED
  BY <1>1, <1>2, <1>3, <1>4, JobEndsRequest DEF Kinds

\* A refused answer ends the job, or leaves the request waiting for the next one.
LEMMA RefusedKeeps ==
    ASSUME IInv, LlmProofs!TypeOK, NEW r \in Requests, NEW a \in Answers, Refused(r, a)
    PROVE  IInv'
<1> USE DEF ocrVars
<1> DEFINE o == Llm!Ended("extraction_failed", None, problems'[r])
<1>1. /\ phase[r] = "extracting" /\ outcome[r] = None
      /\ UNCHANGED <<up, config, extractor, body, taken, file, got, text>>
  BY DEF Refused, Llm!Refuse, Llm!Waiting
<1>2. CASE outcome' = outcome
  <2>1. UNCHANGED <<phase, response>>
    BY <1>1, <1>2 DEF Refused
  <2>2. DOMAIN sent' = DOMAIN sent /\ \A q \in Requests \ {r} : sent'[q] = sent[q]
    BY DEF Refused, Llm!Refuse, IInv, Shape
  <2>3. Shape'
    BY <1>1, <1>2, <2>1, <2>2 DEF IInv, Shape
  <2>4. Stage(r)'
    BY <1>1, <1>2, <2>1 DEF IInv, Stage, Asked, Accepted
  <2>5. \A q \in Requests \ {r} : Undisturbed(q)
    BY <1>1, <1>2, <2>1, <2>2 DEF Undisturbed
  <2> QED
    BY <1>1, <2>3, <2>4, <2>5, BusyMeansUp, OneRequestMoves
<1>3. CASE outcome' = [outcome EXCEPT ![r] = o] /\ sent' = sent
  <2>1. o.kind = "extraction_failed"
    BY DEF Llm!Ended
  <2>2. problems'[r] = Llm!ProblemsOf(a)
    BY DEF Refused, Llm!Refuse, LlmProofs!TypeOK
  <2>3. problems'[r] \in SUBSET (Fields \cup {"broken", "not_object", "collapsed"})
    BY <2>2, ServiceAssumption DEF Llm!ProblemsOf, Llm!ExtractorAssumption, Llm!AnswerType
  <2>4. o # None
    BY <2>3, EndedIsSomething DEF Kinds
  <2> HIDE DEF o
  <2>5. AnswerFor(got[r], o) = Error("extraction_failed")
    BY <2>1 DEF AnswerFor
  <2>6. Respond(r, Error("extraction_failed"))
    BY <1>1, <1>3, <2>4 DEF Refused, IInv, Shape
  <2> QED
    BY <1>1, <1>3, <2>1, <2>4, <2>5, <2>6, JobEndsRequest DEF Kinds
<1> QED
  BY <1>2, <1>3 DEF Refused, Llm!Refuse

-----------------------------------------------------------------------------
(* The invariant.                                                            *)

\* At first the service is down and nobody waits.
LEMMA InitHolds == Init => IInv
<1> SUFFICES ASSUME Init
             PROVE  IInv
  OBVIOUS
<1>1. Shape
  <2>1. /\ DOMAIN file = Requests /\ DOMAIN got = Requests
        /\ DOMAIN text = Requests /\ DOMAIN outcome = Requests /\ DOMAIN sent = Requests
    BY DEF Init, Ocr!Init, Llm!Init
  <2>2. taken \in [Requests -> 0..(MAX_UPLOAD_BYTES + READ_CHUNK_BYTES)]
    BY ServiceAssumption DEF Init
  <2> QED
    BY <2>1, <2>2 DEF Init, Shape
<1>2. Running
  BY DEF Init, Running
<1>3. ASSUME NEW r \in Requests PROVE Stage(r)
  <2>1. NotRead(r)
    BY DEF Init, NotRead, NotAsked, Ocr!Init, Llm!Init
  <2> QED
    BY <2>1 DEF Init, Stage
<1> QED
  BY <1>1, <1>2, <1>3 DEF IInv

\* While the service is down every request is at its beginning.
LEMMA DownIsIdle ==
    ASSUME IInv, ~up, NEW r \in Requests
    PROVE  body[r] = None /\ taken[r] = 0 /\ response[r] = None /\ NotRead(r)
BY DEF IInv, Running, Stage

\* A start changes the configuration while no request is there.
LEMMA BootKeeps ==
    ASSUME IInv, NEW c \in Configs, Boot(c)
    PROVE  IInv'
<1> USE DEF ocrVars, llmVars
<1>1. Shape'
  BY DEF IInv, Shape, Boot
<1>2. Running'
  BY DEF IInv, Running, Boot
<1>3. ASSUME NEW r \in Requests PROVE Stage(r)'
  <2>1. phase[r] = "none"
    BY DEF IInv, Running, Boot
  <2> QED
    BY <2>1, DownIsIdle DEF Boot, Stage, NotRead, NotAsked
<1> QED
  BY <1>1, <1>2, <1>3 DEF IInv

\* A service that dies leaves no request behind.
LEMMA DieKeeps ==
    ASSUME IInv, Die
    PROVE  IInv'
<1>1. Shape'
  <2>1. /\ DOMAIN file' = Requests /\ DOMAIN got' = Requests
        /\ DOMAIN text' = Requests /\ DOMAIN outcome' = Requests /\ DOMAIN sent' = Requests
    BY DEF Die, Ocr!Restart, Llm!Restart
  <2>2. taken' \in [Requests -> 0..(MAX_UPLOAD_BYTES + READ_CHUNK_BYTES)]
    BY ServiceAssumption DEF Die
  <2> QED
    BY <2>1, <2>2 DEF IInv, Shape, Die
<1>2. Running'
  BY DEF Running, Die
<1>3. ASSUME NEW r \in Requests PROVE Stage(r)'
  <2>1. NotRead(r)'
    BY DEF Die, NotRead, NotAsked, Ocr!Restart, Llm!Restart
  <2> QED
    BY <2>1 DEF Die, Stage
<1> QED
  BY <1>1, <1>2, <1>3 DEF IInv

\* A step that changes nothing the invariant speaks of.
LEMMA NothingMoves ==
    ASSUME IInv, UNCHANGED <<ownVars, file, got, text, outcome, sent>>
    PROVE  IInv'
<1> USE DEF ownVars
<1>1. Shape' /\ Running'
  BY DEF IInv, Shape, Running
<1>2. ASSUME NEW r \in Requests PROVE Stage(r)'
  <2>1. Undisturbed(r)
    BY DEF Undisturbed
  <2> QED
    BY <2>1, UndisturbedStays DEF IInv
<1> QED
  BY <1>1, <1>2 DEF IInv

\* Each step keeps the invariant, given what the parts keep.
LEMMA StepKeeps ==
    ASSUME IInv, CacheProofs!TypeOK, LlmProofs!TypeOK, [Next]_vars
    PROVE  IInv'
<1>1. CASE \E c \in Configs : Boot(c)
  BY <1>1, BootKeeps
<1>2. CASE Die
  BY <1>2, DieKeeps
<1>3. CASE \E r \in Requests, f \in Files : Upload(r, f)
  BY <1>3, UploadKeeps
<1>4. ASSUME NEW r \in Requests, Proceed(r)
      PROVE  IInv'
  <2>1. CASE ReadChunk(r)
    BY <2>1, ReadChunkKeeps
  <2>2. CASE RejectNotAPdf(r)
    BY <2>2, RejectKeeps
  <2>3. CASE ReadPdf(r)
    BY <2>3, ReadPdfKeeps
  <2>4. CASE OcrReturns(r)
    BY <2>4, OcrReturnsKeeps
  <2>5. CASE OcrFails(r)
    BY <2>5, OcrFailsKeeps
  <2>6. CASE NoExtractor(r)
    BY <2>6, NoExtractorKeeps
  <2>7. CASE BeginExtract(r)
    BY <2>7, BeginExtractKeeps
  <2>8. CASE ModelFails(r)
    BY <2>8, ModelFailsKeeps
  <2>9. CASE \E a \in Answers : Answered(r, a)
    BY <2>9, AnsweredKeeps
  <2>10. CASE \E a \in Answers : Refused(r, a)
    BY <2>10, RefusedKeeps
  <2> QED
    BY <1>4, <2>1, <2>2, <2>3, <2>4, <2>5, <2>6, <2>7, <2>8, <2>9, <2>10 DEF Proceed
<1>5. CASE EditPrompt
  BY <1>5, NothingMoves DEF EditPrompt, Llm!EditPrompt, ocrVars
<1>6. CASE UNCHANGED vars
  BY <1>6, NothingMoves DEF vars, ocrVars, llmVars
<1> QED
  BY <1>1, <1>2, <1>3, <1>4, <1>5, <1>6 DEF Next

-----------------------------------------------------------------------------
(* The service uses its parts as they may be used.                           *)

\* All that takes: the cache is asked for files only.
Posted ==
    /\ DOMAIN phase = Requests /\ DOMAIN body = Requests
    /\ \A r \in Requests : phase[r] = "uploading" => body[r] \in Files

\* A request that is uploading goes on having a file.
LEMMA PostedStep == Posted /\ [Next]_vars => Posted'
<1> SUFFICES ASSUME Posted, [Next]_vars
             PROVE  Posted'
  OBVIOUS
<1>1. CASE UNCHANGED <<phase, body>>
  BY <1>1 DEF Posted
<1>2. ASSUME NEW r \in Requests, NEW f \in Files, Upload(r, f)
      PROVE  Posted'
  BY <1>2 DEF Posted, Upload
<1>3. CASE Die
  BY <1>3 DEF Posted, Die
<1>4. ASSUME NEW r \in Requests, NEW later \in {"reading", "extracting", "answered"},
             phase' = [phase EXCEPT ![r] = later], UNCHANGED body
      PROVE  Posted'
  BY <1>4 DEF Posted
<1>5. ASSUME NEW r \in Requests, Proceed(r)
      PROVE  /\ UNCHANGED body
             /\ \/ UNCHANGED phase
                \/ \E later \in {"reading", "extracting", "answered"} :
                      phase' = [phase EXCEPT ![r] = later]
  BY <1>5 DEF Proceed, ReadChunk, RejectNotAPdf, ReadPdf, OcrReturns, OcrFails, NoExtractor,
              BeginExtract, ModelFails, Answered, Refused, Respond, ownVars
<1>6. (\E c \in Configs : Boot(c)) \/ EditPrompt \/ UNCHANGED vars => UNCHANGED <<phase, body>>
  BY DEF Boot, EditPrompt, vars, ownVars
<1> QED
  BY <1>1, <1>2, <1>3, <1>4, <1>5, <1>6 DEF Next

\* So it is in every state; what the parts keep is not needed for it.
LEMMA AlwaysPosted == Spec => []Posted
<1>1. Init => Posted
  BY DEF Init, Posted
<1> QED
  BY <1>1, PostedStep, PTL DEF Spec

\* Every step of the service is one of the cache or leaves it alone.
LEMMA CacheStep == Posted /\ [Next]_vars => [Ocr!Next]_Ocr!vars
<1> SUFFICES ASSUME Posted, [Next]_vars
             PROVE  Ocr!Next \/ UNCHANGED ocrVars
  BY DEF Ocr!vars, ocrVars
<1>1. ASSUME NEW r \in Requests, Proceed(r)
      PROVE  Ocr!Next \/ UNCHANGED ocrVars
  <2>1. CASE ReadPdf(r)
    BY <2>1 DEF ReadPdf, Ocr!Next, Posted
  <2>2. CASE OcrReturns(r)
    BY <2>2 DEF OcrReturns, Ocr!Next
  <2>3. CASE OcrFails(r)
    BY <2>3 DEF OcrFails, Ocr!Next
  <2>4. CASE ReadChunk(r) \/ RejectNotAPdf(r) \/ NoExtractor(r) \/ BeginExtract(r) \/ ModelFails(r)
    BY <2>4 DEF ReadChunk, RejectNotAPdf, NoExtractor, BeginExtract, ModelFails
  <2>5. CASE \E a \in Answers : Answered(r, a) \/ Refused(r, a)
    BY <2>5 DEF Answered, Refused
  <2> QED
    BY <1>1, <2>1, <2>2, <2>3, <2>4, <2>5 DEF Proceed
<1>2. CASE Die
  BY <1>2 DEF Die, Ocr!Next
<1>3. (\E c \in Configs : Boot(c)) \/ (\E r \in Requests, f \in Files : Upload(r, f))
         \/ EditPrompt \/ UNCHANGED vars => UNCHANGED ocrVars
  BY DEF Boot, Upload, EditPrompt, vars
<1> QED
  BY <1>1, <1>2, <1>3 DEF Next

\* api.py uses the cache as CachingOcrEngine allows: one read per request at a time.
THEOREM RunsTheCache == Spec => Ocr!Spec
<1>1. Init => Ocr!Init
  BY DEF Init
<1> QED
  BY <1>1, CacheStep, AlwaysPosted, PTL DEF Spec, Ocr!Spec

\* Every step of the service is one of the extractor or leaves it alone.
LEMMA LlmStep == [Next]_vars => [Llm!Next]_Llm!vars
<1> SUFFICES ASSUME [Next]_vars
             PROVE  Llm!Next \/ UNCHANGED llmVars
  BY DEF Llm!vars, llmVars
<1>1. ASSUME NEW r \in Requests, Proceed(r)
      PROVE  Llm!Next \/ UNCHANGED llmVars
  <2>1. CASE BeginExtract(r)
    <3>1. got[r] \in Ocr!Readings /\ TextChars \in {TextChars}
      BY <2>1 DEF BeginExtract
    <3>2. LET t == [of |-> got[r], chars |-> TextChars] IN Llm!Start(r, t) \/ Llm!StartCrashes(r, t)
      BY <2>1 DEF BeginExtract
    <3> QED
      BY <3>1, <3>2 DEF Llm!Next
  <2>2. CASE ModelFails(r)
    BY <2>2 DEF ModelFails, Llm!Next, Llm!CallEnds
  <2>3. CASE \E a \in Answers : Answered(r, a) \/ Refused(r, a)
    BY <2>3 DEF Answered, Refused, Llm!Next, Llm!CallEnds
  <2>4. CASE ReadChunk(r) \/ RejectNotAPdf(r) \/ ReadPdf(r) \/ OcrReturns(r) \/ OcrFails(r) \/ NoExtractor(r)
    BY <2>4 DEF ReadChunk, RejectNotAPdf, ReadPdf, OcrReturns, OcrFails, NoExtractor
  <2> QED
    BY <1>1, <2>1, <2>2, <2>3, <2>4 DEF Proceed
<1>2. CASE Die
  BY <1>2 DEF Die, Llm!Next
<1>3. CASE EditPrompt
  BY <1>3 DEF EditPrompt, Llm!Next
<1>4. (\E c \in Configs : Boot(c)) \/ (\E r \in Requests, f \in Files : Upload(r, f))
         \/ UNCHANGED vars => UNCHANGED llmVars
  BY DEF Boot, Upload, vars
<1> QED
  BY <1>1, <1>2, <1>3, <1>4 DEF Next

\* api.py uses the extractor as InvoiceExtractor allows: one extract() per request, on
\* the text of a reading.
THEOREM RunsTheExtractor == Spec => Llm!Spec
<1>1. Init => Llm!Init
  BY DEF Init
<1> QED
  BY <1>1, LlmStep, PTL DEF Spec, Llm!Spec

-----------------------------------------------------------------------------
(* The theorems about the parts, brought here: the instances of OcrCache and *)
(* Extractor in Service and in the modules of their proofs are the same.     *)

\* What is proved of the cache holds within the service.
LEMMA CacheWithin == Spec => [](CacheProofs!TypeOK /\ CacheProofs!NoForeignReading)
<1>1. CacheProofs!CacheAssumption
  <2>1. Ocr!CacheAssumption
    BY ServiceAssumption
  <2> QED
    BY <2>1, Zenon DEF Ocr!CacheAssumption, CacheProofs!CacheAssumption,
                       Ocr!Readings, CacheProofs!Readings
<1>2. Ocr!Init => CacheProofs!Init
  BY Zenon DEF Ocr!Init, CacheProofs!Init
<1>3. ASSUME NEW r \in Requests, NEW f \in Files
      PROVE  /\ Ocr!Hit(r, f) => CacheProofs!Hit(r, f)
             /\ Ocr!Miss(r, f) => CacheProofs!Miss(r, f)
  BY Zenon DEF Ocr!Hit, Ocr!Miss, Ocr!Idle, Ocr!Cached, Ocr!MovedToEnd, Ocr!Without,
       Ocr!Position, Ocr!Touched,
       CacheProofs!Hit, CacheProofs!Miss, CacheProofs!Idle, CacheProofs!Cached,
       CacheProofs!MovedToEnd, CacheProofs!Without, CacheProofs!Position, CacheProofs!Touched
<1>4. ASSUME NEW r \in Requests, NEW t \in Takes
      PROVE  Ocr!Store(r, t) => CacheProofs!Store(r, t)
  BY Zenon DEF Ocr!Store, Ocr!Reading, Ocr!Cached, Ocr!Stored, Ocr!Evicted, Ocr!Position,
       Ocr!Touched,
       CacheProofs!Store, CacheProofs!Reading, CacheProofs!Cached, CacheProofs!Stored,
       CacheProofs!Evicted, CacheProofs!Position, CacheProofs!Touched
<1>5. ASSUME NEW r \in Requests
      PROVE  /\ Ocr!InnerFails(r) => CacheProofs!InnerFails(r)
             /\ Ocr!Leave(r) => CacheProofs!Leave(r)
  BY Zenon DEF Ocr!InnerFails, Ocr!Leave, Ocr!Reading,
       CacheProofs!InnerFails, CacheProofs!Leave, CacheProofs!Reading
<1>6. Ocr!Restart => CacheProofs!Restart
  BY Zenon DEF Ocr!Restart, CacheProofs!Restart
<1>7. Ocr!Next => CacheProofs!Next
  BY <1>3, <1>4, <1>5, <1>6, Zenon DEF Ocr!Next, CacheProofs!Next
<1>8. [Ocr!Next]_Ocr!vars => [CacheProofs!Next]_CacheProofs!vars
  BY <1>7, Zenon DEF Ocr!vars, CacheProofs!vars
<1>9. CacheProofs!Spec => []CacheProofs!TypeOK
  BY <1>1, CacheProofs!TypeCorrect, PTL
<1>10. CacheProofs!Spec => []CacheProofs!NoForeignReading
  BY <1>1, CacheProofs!NobodyGetsAForeignReading, PTL
<1> QED
  BY <1>2, <1>8, <1>9, <1>10, RunsTheCache, PTL DEF Ocr!Spec, CacheProofs!Spec

\* What is proved of the extractor holds within the service.
LEMMA ExtractorWithin ==
    Spec => [](/\ LlmProofs!IInv
               /\ LlmProofs!TypeOK
               /\ LlmProofs!AboutOwnText
               /\ LlmProofs!OutcomeIsTheLastAnswer)
<1>1. LlmProofs!ExtractorAssumption
  <2>1. Llm!ExtractorAssumption
    BY ServiceAssumption
  <2> QED
    BY <2>1, Zenon DEF Llm!ExtractorAssumption, LlmProofs!ExtractorAssumption,
         Llm!AnswerType, LlmProofs!AnswerType, Llm!Texts, LlmProofs!Texts,
         Llm!Outcomes, LlmProofs!Outcomes
<1>2. Llm!Init => LlmProofs!Init
  BY Zenon DEF Llm!Init, LlmProofs!Init, Llm!MaxCharsFromEnv, LlmProofs!MaxCharsFromEnv
<1>3. ASSUME NEW r \in Requests, NEW t
      PROVE  /\ Llm!Start(r, t) => LlmProofs!Start(r, t)
             /\ Llm!StartCrashes(r, t) => LlmProofs!StartCrashes(r, t)
  BY Zenon DEF Llm!Start, Llm!StartCrashes, Llm!System, Llm!User, Llm!Trim, Llm!Ended,
       LlmProofs!Start, LlmProofs!StartCrashes, LlmProofs!System, LlmProofs!User,
       LlmProofs!Trim, LlmProofs!Ended
<1>4. ASSUME NEW r \in Requests, NEW a \in Answers
      PROVE  Llm!Accept(r, a) => LlmProofs!Accept(r, a)
  BY Zenon DEF Llm!Accept, Llm!Waiting, Llm!Fits, Llm!ProblemsOf, Llm!InvoiceOf, Llm!Ended,
       LlmProofs!Accept, LlmProofs!Waiting, LlmProofs!Fits, LlmProofs!ProblemsOf,
       LlmProofs!InvoiceOf, LlmProofs!Ended
<1>5. ASSUME NEW r \in Requests, NEW a \in Answers
      PROVE  Llm!Refuse(r, a) => LlmProofs!Refuse(r, a)
  BY Zenon DEF Llm!Refuse, Llm!Waiting, Llm!Fits, Llm!ProblemsOf, Llm!Assistant,
       Llm!Complaint, Llm!User, Llm!Ended,
       LlmProofs!Refuse, LlmProofs!Waiting, LlmProofs!Fits, LlmProofs!ProblemsOf,
       LlmProofs!Assistant, LlmProofs!Complaint, LlmProofs!User, LlmProofs!Ended
<1>6. ASSUME NEW r \in Requests
      PROVE  Llm!ProviderFails(r) => LlmProofs!ProviderFails(r)
  BY Zenon DEF Llm!ProviderFails, Llm!Waiting, Llm!Ended,
       LlmProofs!ProviderFails, LlmProofs!Waiting, LlmProofs!Ended
<1>7. ASSUME NEW p PROVE Llm!EditPrompt(p) => LlmProofs!EditPrompt(p)
  BY Zenon DEF Llm!EditPrompt, LlmProofs!EditPrompt
<1>8. Llm!Restart => LlmProofs!Restart
  BY Zenon DEF Llm!Restart, LlmProofs!Restart
<1>9. Llm!Next => LlmProofs!Next
  BY <1>3, <1>4, <1>5, <1>6, <1>7, <1>8, Zenon
     DEF Llm!Next, Llm!CallEnds, LlmProofs!Next, LlmProofs!CallEnds
<1>10. [Llm!Next]_Llm!vars => [LlmProofs!Next]_LlmProofs!vars
  BY <1>9, Zenon DEF Llm!vars, LlmProofs!vars
<1>11. LlmProofs!Spec => []LlmProofs!TypeOK
  BY <1>1, LlmProofs!TypeCorrect, PTL
<1>12. LlmProofs!Spec => []LlmProofs!AboutOwnText
  BY <1>1, LlmProofs!CallsAreAboutTheOwnText, PTL
<1>13. LlmProofs!Spec => []LlmProofs!OutcomeIsTheLastAnswer
  BY <1>1, LlmProofs!EndsAsItsAnswersSay, PTL
<1>14. LlmProofs!Spec => []LlmProofs!IInv
  BY <1>1, LlmProofs!AlwaysIInv, PTL
<1> QED
  BY <1>2, <1>10, <1>11, <1>12, <1>13, <1>14, RunsTheExtractor, PTL DEF Llm!Spec, LlmProofs!Spec

\* The invariant holds in every state.
LEMMA AlwaysIInv == Spec => []IInv
  BY InitHolds, StepKeeps, CacheWithin, ExtractorWithin, PTL DEF Spec

-----------------------------------------------------------------------------
(* What the service answers.                                                 *)

\* An error always has a code.
LEMMA CodeIsNoNone == \A code \in DOMAIN StatusOf : code # None
BY ServiceAssumption

\* A response has a code only if the job failed, and then the one of its failure.
LEMMA CodeOfAnswer ==
    ASSUME NEW reading, NEW o, o.kind \in Kinds
    PROVE  AnswerFor(reading, o).code =
              IF o.kind \in {"extraction_failed", "llm_request_failed"} THEN o.kind ELSE None
BY DEF AnswerFor, Extracted, InternalServerError, Failure, Error, Kinds

\* A request that failed with a code was answered, for the reason the code stands for.
LEMMA FailedRightly ==
    ASSUME IInv, NEW r \in Requests, NEW code \in DOMAIN StatusOf, FailedWith(r, code)
    PROVE  /\ phase[r] = "answered" /\ body[r] \in Files
           /\ \/ code = "file_too_large" /\ NotRead(r) /\ SizeOf[body[r]] > MAX_UPLOAD_BYTES
              \/ code = "not_a_pdf" /\ NotRead(r) /\ SizeOf[body[r]] <= MAX_UPLOAD_BYTES
                    /\ ~IsPdf[body[r]]
              \/ code = "ocr_failed" /\ got[r] = Failed /\ Accepted(r)
              \/ code = "llm_not_configured" /\ Accepted(r) /\ NotAsked(r) /\ ~extractor
                    /\ got[r] \in Ocr!Readings
              \/ /\ code \in {"extraction_failed", "llm_request_failed"}
                 /\ Asked(r) /\ outcome[r] # None /\ outcome[r].kind = code
<1>1. phase[r] = "answered" /\ body[r] \in Files /\ RightlyAnswered(r)
  BY DEF IInv, Stage, FailedWith
<1>2. ASSUME NEW c, response[r] = Error(c) PROVE code = c
  BY <1>2 DEF FailedWith, Error, Failure
<1>4. response[r] # InternalServerError
  BY CodeIsNoNone DEF FailedWith, InternalServerError, Failure
<1>3. ASSUME Asked(r), outcome[r].kind \in Kinds, response[r] = AnswerFor(got[r], outcome[r])
      PROVE  code \in {"extraction_failed", "llm_request_failed"} /\ outcome[r].kind = code
  BY <1>3, CodeOfAnswer, CodeIsNoNone DEF FailedWith
<1> QED
  BY <1>1, <1>2, <1>3, <1>4 DEF RightlyAnswered

\* _read_within_limit and the signature check: 413 and 415 exactly for the files they are
\* for, before anything is spent on them.
THEOREM UploadLimitHolds == Spec => []UploadLimitIsExact
<1>1. IInv => UploadLimitIsExact
  <2> SUFFICES ASSUME IInv, NEW r \in Requests
               PROVE  /\ FailedWith(r, "file_too_large") => SizeOf[body[r]] > MAX_UPLOAD_BYTES
                      /\ FailedWith(r, "not_a_pdf") =>
                            SizeOf[body[r]] <= MAX_UPLOAD_BYTES /\ ~IsPdf[body[r]]
                      /\ FailedWith(r, "file_too_large") \/ FailedWith(r, "not_a_pdf") =>
                            file[r] = None /\ sent[r] = <<>>
                      /\ file[r] # None =>
                            SizeOf[body[r]] <= MAX_UPLOAD_BYTES /\ IsPdf[body[r]]
    BY DEF UploadLimitIsExact
  <2>1. {"file_too_large", "not_a_pdf"} \subseteq DOMAIN StatusOf
    BY DEF StatusOf
  <2>2. CASE FailedWith(r, "file_too_large") \/ FailedWith(r, "not_a_pdf")
    BY <2>1, <2>2, FailedRightly DEF NotRead, NotAsked
  <2>3. file[r] # None => Accepted(r)
    BY DEF IInv, Stage, RightlyAnswered, NotRead, Asked
  <2> QED
    BY <2>1, <2>2, <2>3, FailedRightly DEF Accepted
<1> QED
  BY <1>1, AlwaysIInv, PTL

\* A success comes from an invoice of the request's own job.
LEMMA SucceededRightly ==
    ASSUME IInv, NEW r \in Requests, Succeeded(r)
    PROVE  /\ Asked(r)
           /\ outcome[r] # None /\ outcome[r].kind = "invoice"
           /\ response[r] = Extracted(got[r], outcome[r].invoice)
<1>1. phase[r] = "answered" /\ RightlyAnswered(r)
  BY DEF IInv, Stage, Succeeded
<1>2. \A code \in DOMAIN StatusOf : Error(code).status # 200
  BY DEF Error, Failure, StatusOf
<1>3. InternalServerError.status # 200
  BY DEF InternalServerError, Failure
<1>4. {"file_too_large", "not_a_pdf", "ocr_failed", "llm_not_configured", "extraction_failed",
       "llm_request_failed"} \subseteq DOMAIN StatusOf
  BY DEF StatusOf
<1>5. /\ Asked(r)
      /\ outcome[r] # None /\ outcome[r].kind \in Kinds
      /\ response[r] = AnswerFor(got[r], outcome[r])
  BY <1>1, <1>2, <1>3, <1>4 DEF RightlyAnswered, Succeeded
<1> QED
  BY <1>2, <1>3, <1>4, <1>5 DEF AnswerFor, Kinds, Succeeded

\* POST /extract: the reading, the questions to the model and the invoice of an answer
\* are all about the file that was uploaded with it.
THEOREM AnswersAreAboutTheirOwnFile == Spec => []AnswerIsAboutOwnFile
<1>1. ASSUME IInv, CacheProofs!NoForeignReading, LlmProofs!TypeOK, LlmProofs!AboutOwnText,
             LlmProofs!OutcomeIsTheLastAnswer
      PROVE  AnswerIsAboutOwnFile
  <2> SUFFICES ASSUME NEW r \in Requests, Succeeded(r)
               PROVE  /\ response[r].reading.of = body[r]
                      /\ \A k \in 1..Len(sent[r]) : sent[r][k][2].content.of = response[r].reading
                      /\ response[r].invoice = Llm!InvoiceOf(heard[r][Len(heard[r])])
    BY DEF AnswerIsAboutOwnFile
  <2>1. /\ Asked(r)
        /\ outcome[r] # None /\ outcome[r].kind = "invoice"
        /\ response[r].reading = got[r] /\ response[r].invoice = outcome[r].invoice
    <3>1. /\ Asked(r)
          /\ outcome[r] # None /\ outcome[r].kind = "invoice"
          /\ response[r] = Extracted(got[r], outcome[r].invoice)
      BY <1>1, SucceededRightly
    <3> QED
      BY <3>1 DEF Extracted
  <2>2. got[r].of = body[r]
    BY <1>1, <2>1 DEF CacheProofs!NoForeignReading, CacheProofs!Readings, Ocr!Readings,
                      Asked, Accepted
  <2>3. ASSUME NEW k \in 1..Len(sent[r])
        PROVE  sent[r][k][2].content.of = got[r]
    <3>1. LlmProofs!OwnText(text[r], messages[r], sent[r], limit)
      BY <1>1 DEF LlmProofs!AboutOwnText
    <3>2. sent[r] # <<>>
      OBVIOUS
    <3>3. sent[r][k][2] = LlmProofs!User(LlmProofs!Trim(text[r], limit))
      BY <3>1, <3>2 DEF LlmProofs!OwnText
    <3>4. LlmProofs!Trim(text[r], limit).of = got[r]
      BY <2>1 DEF Asked, LlmProofs!Trim
    <3> QED
      BY <3>3, <3>4 DEF LlmProofs!User
  <2>4. outcome[r].invoice = Llm!InvoiceOf(heard[r][Len(heard[r])])
    BY <1>1, <2>1 DEF LlmProofs!OutcomeIsTheLastAnswer, LlmProofs!EndsAsAnswered, Llm!InvoiceOf
  <2> QED
    BY <2>1, <2>2, <2>3, <2>4
<1> QED
  BY <1>1, AlwaysIInv, CacheWithin, ExtractorWithin, PTL

\* The error codes of errors.py: each says which component failed, and after what.
THEOREM CodesSayWhatFailed == Spec => []CodeSaysWhatFailed
<1>1. ASSUME IInv, LlmProofs!TypeOK, LlmProofs!OutcomeIsTheLastAnswer
      PROVE  CodeSaysWhatFailed
  <2> SUFFICES ASSUME NEW r \in Requests
               PROVE  /\ FailedWith(r, "ocr_failed") => got[r] = Failed
                      /\ FailedWith(r, "llm_not_configured") =>
                            ~config.key /\ got[r] \in Ocr!Readings /\ sent[r] = <<>>
                      /\ FailedWith(r, "llm_request_failed") =>
                            config.key /\ Len(heard[r]) = Len(sent[r]) - 1
                      /\ FailedWith(r, "extraction_failed") =>
                            /\ Len(heard[r]) = ATTEMPTS
                            /\ \A k \in 1..ATTEMPTS : ~Llm!Fits(heard[r][k])
    BY DEF CodeSaysWhatFailed
  <2>1. {"ocr_failed", "llm_not_configured", "llm_request_failed", "extraction_failed"}
           \subseteq DOMAIN StatusOf
    BY DEF StatusOf
  <2>2. phase[r] = "answered" => up /\ (extractor <=> config.key)
    BY <1>1 DEF IInv, Running
  <2>3. FailedWith(r, "ocr_failed") => got[r] = Failed
    BY <1>1, <2>1, FailedRightly
  <2>4. FailedWith(r, "llm_not_configured") =>
           ~config.key /\ got[r] \in Ocr!Readings /\ sent[r] = <<>>
    BY <1>1, <2>1, <2>2, FailedRightly DEF NotAsked
  <2>5. ASSUME FailedWith(r, "llm_request_failed")
        PROVE  config.key /\ Len(heard[r]) = Len(sent[r]) - 1
    <3>1. extractor /\ config.key /\ outcome[r] # None /\ outcome[r].kind = "llm_request_failed"
      BY <1>1, <2>1, <2>2, <2>5, FailedRightly DEF Asked
    <3>2. Len(heard[r]) + 1 = Len(sent[r])
      BY <1>1, <3>1 DEF LlmProofs!OutcomeIsTheLastAnswer, LlmProofs!EndsAsAnswered
    <3>3. Len(heard[r]) \in Nat
      BY <1>1 DEF LlmProofs!TypeOK
    <3> QED
      BY <3>1, <3>2, <3>3
  <2>6. ASSUME FailedWith(r, "extraction_failed")
        PROVE  /\ Len(heard[r]) = ATTEMPTS
               /\ \A k \in 1..ATTEMPTS : ~Llm!Fits(heard[r][k])
    <3>1. outcome[r] # None /\ outcome[r].kind = "extraction_failed"
      BY <1>1, <2>1, <2>6, FailedRightly
    <3>2. /\ Len(heard[r]) = ATTEMPTS
          /\ \A k \in 1..Len(heard[r]) : ~LlmProofs!Fits(heard[r][k])
      BY <1>1, <3>1 DEF LlmProofs!OutcomeIsTheLastAnswer, LlmProofs!EndsAsAnswered
    <3>3. ASSUME NEW a PROVE LlmProofs!Fits(a) <=> Llm!Fits(a)
      BY Zenon DEF LlmProofs!Fits, LlmProofs!ProblemsOf, Llm!Fits, Llm!ProblemsOf
    <3> QED
      BY <3>2, <3>3
  <2> QED
    BY <2>3, <2>4, <2>5, <2>6
<1> QED
  BY <1>1, AlwaysIInv, ExtractorWithin, PTL

\* The last answer of a job that ended with an invoice fits, and is that invoice.
LEMMA InvoiceOfTheJob ==
    ASSUME LlmProofs!TypeOK, LlmProofs!OutcomeIsTheLastAnswer,
           NEW r \in Requests, outcome[r] # None, outcome[r].kind = "invoice"
    PROVE  outcome[r].invoice \in Llm!AnswerType /\ outcome[r].invoice \in DOMAIN Broken
<1> DEFINE n == Len(heard[r])
           last == heard[r][n]
<1>1. n > 0 /\ LlmProofs!Fits(last) /\ outcome[r].invoice = [last EXCEPT !.spec = Ours]
  BY DEF LlmProofs!OutcomeIsTheLastAnswer, LlmProofs!EndsAsAnswered
<1>2. heard[r] \in Seq(Answers)
  BY DEF LlmProofs!TypeOK
<1>3. n \in 1..Len(heard[r])
  BY <1>1, <1>2
<1>4. last \in Answers
  BY <1>2, <1>3, InSequence
<1> HIDE DEF last
<1>5. Llm!Fits(last)
  BY <1>1, Zenon DEF LlmProofs!Fits, LlmProofs!ProblemsOf, Llm!Fits, Llm!ProblemsOf
<1>6. outcome[r].invoice = Llm!InvoiceOf(last)
  BY <1>1 DEF Llm!InvoiceOf
<1>7. Llm!InvoiceOf(last) \in DOMAIN Broken
  BY <1>4, <1>5, ServiceAssumption
<1> QED
  BY <1>4, <1>6, <1>7, InvoiceIsAnswer

\* The response with an invoice is a response.
LEMMA ExtractedType ==
    ASSUME NEW reading \in Ocr!Readings, NEW invoice \in Llm!AnswerType, invoice \in DOMAIN Broken
    PROVE  Extracted(reading, invoice) \in Responses
<1>1. Broken[invoice] \in SUBSET UNION {Broken[i] : i \in DOMAIN Broken}
  OBVIOUS
<1> QED
  BY <1>1 DEF Extracted, Responses

\* The responses without an invoice are responses.
LEMMA FailureType ==
    /\ \A code \in DOMAIN StatusOf : Error(code) \in Responses
    /\ InternalServerError \in Responses
<1>1. ASSUME NEW code \in DOMAIN StatusOf PROVE Error(code) \in Responses
  BY DEF Error, Failure, Responses
<1>2. 500 \in {StatusOf[code] : code \in DOMAIN StatusOf}
  <2>1. "llm_not_configured" \in DOMAIN StatusOf /\ StatusOf["llm_not_configured"] = 500
    BY DEF StatusOf
  <2> QED
    BY <2>1
<1>3. InternalServerError \in Responses
  BY <1>2 DEF InternalServerError, Failure, Responses
<1> QED
  BY <1>1, <1>3

\* Type correctness: in particular at most one chunk over the limit is in memory, and
\* every answer has one of the declared statuses and codes.
THEOREM TypeCorrect == Spec => []TypeOK
<1>1. ASSUME IInv, LlmProofs!TypeOK, LlmProofs!OutcomeIsTheLastAnswer
      PROVE  TypeOK
  <2>1. ASSUME NEW r \in Requests PROVE response[r] \in Responses \cup {None}
    <3>1. {"file_too_large", "not_a_pdf", "ocr_failed", "llm_not_configured",
           "extraction_failed", "llm_request_failed"} \subseteq DOMAIN StatusOf
      BY DEF StatusOf
    <3>2. CASE response[r] = None
      BY <3>2
    <3>3. CASE \/ response[r] = InternalServerError
               \/ \E code \in DOMAIN StatusOf : response[r] = Error(code)
      BY <3>3, FailureType
    <3>4. CASE /\ Asked(r)
               /\ outcome[r] # None /\ outcome[r].kind \in Kinds
               /\ response[r] = AnswerFor(got[r], outcome[r])
      <4>1. CASE outcome[r].kind = "invoice" /\ outcome[r].invoice \notin Unroundable
        <5>1. outcome[r].invoice \in Llm!AnswerType /\ outcome[r].invoice \in DOMAIN Broken
          BY <1>1, <3>4, <4>1, InvoiceOfTheJob
        <5>2. response[r] = Extracted(got[r], outcome[r].invoice) /\ got[r] \in Ocr!Readings
          BY <3>4, <4>1 DEF AnswerFor, Asked
        <5> QED
          BY <5>1, <5>2, ExtractedType
      <4>2. CASE ~(outcome[r].kind = "invoice" /\ outcome[r].invoice \notin Unroundable)
        <5>1. response[r] \in {InternalServerError, Error("extraction_failed"),
                               Error("llm_request_failed")}
          BY <3>4, <4>2 DEF AnswerFor, Kinds
        <5> QED
          BY <3>1, <5>1, FailureType
      <4> QED
        BY <4>1, <4>2
    <3> QED
      BY <1>1, <3>1, <3>2, <3>3, <3>4 DEF IInv, Stage, RightlyAnswered
  <2>2. response \in [Requests -> Responses \cup {None}]
    BY <1>1, <2>1 DEF IInv, Shape
  <2> QED
    BY <1>1, <2>2 DEF TypeOK, IInv, Shape
<1> QED
  BY <1>1, AlwaysIInv, ExtractorWithin, PTL

\* The answers of a request that fit, in a job that keeps its invariant: there is at most
\* one, the last, and it is the invoice the job ended with.
LEMMA HeardIsTheOutcome ==
    ASSUME LlmProofs!IInv, NEW r \in Requests, NEW k \in DOMAIN heard[r], Llm!Fits(heard[r][k])
    PROVE  /\ outcome[r] # None /\ outcome[r].kind = "invoice"
           /\ outcome[r].invoice = Llm!InvoiceOf(heard[r][k])
<1> DEFINE n == Len(heard[r])
<1>1. heard[r] \in Seq(Answers) /\ sent[r] \in Seq(LlmProofs!Conversation)
  BY DEF LlmProofs!IInv, LlmProofs!TypeOK
<1>2. k \in 1..n /\ n \in Nat
  BY <1>1
<1>3. LlmProofs!Fits(heard[r][k])
  BY Zenon DEF LlmProofs!Fits, LlmProofs!ProblemsOf, Llm!Fits, Llm!ProblemsOf
<1>4. LlmProofs!Job(text[r], messages[r], attempt[r], outcome[r], sent[r], heard[r],
                    remembered, limit)
  BY Zenon DEF LlmProofs!IInv
<1>5. outcome[r] # None
  <2>1. text[r] # None
    BY <1>1, <1>2, <1>4 DEF LlmProofs!Job
  <2> QED
    BY <2>1, <1>2, <1>3, <1>4 DEF LlmProofs!Job, LlmProofs!OnTheLine
<1>6. LlmProofs!EndsAsAnswered(outcome[r], sent[r], heard[r])
  BY <1>4, <1>5 DEF LlmProofs!Job
<1>7. outcome[r].kind \in Kinds
  BY <1>5 DEF LlmProofs!IInv, LlmProofs!TypeOK, LlmProofs!Outcomes, Kinds
<1>8. /\ n <= Len(sent[r])
      /\ k < Len(sent[r]) => ~LlmProofs!Fits(heard[r][k])
  BY <1>1, <1>2, <1>4 DEF LlmProofs!Job, LlmProofs!PaidOnlyForRefusals
<1>9. outcome[r].kind = "invoice"
  <2>1. outcome[r].kind # "extraction_failed"
    BY <1>2, <1>3, <1>6 DEF LlmProofs!EndsAsAnswered
  <2>2. outcome[r].kind # "llm_request_failed"
    <3>1. outcome[r].kind = "llm_request_failed" => n + 1 = Len(sent[r])
      BY <1>6 DEF LlmProofs!EndsAsAnswered
    <3> QED
      BY <3>1, <1>2, <1>3, <1>8
  <2>3. outcome[r].kind # "crashed"
    <3>1. outcome[r].kind = "crashed" => sent[r] = <<>>
      BY <1>6 DEF LlmProofs!EndsAsAnswered
    <3>2. sent[r] # <<>>
      BY <1>1, <1>2, <1>8
    <3> QED
      BY <3>1, <3>2
  <2> QED
    BY <2>1, <2>2, <2>3, <1>7 DEF Kinds
<1>10. /\ n = Len(sent[r])
       /\ outcome[r].invoice = [heard[r][n] EXCEPT !.spec = Ours]
  BY <1>6, <1>9 DEF LlmProofs!EndsAsAnswered
<1>11. k = n
  BY <1>1, <1>2, <1>3, <1>8, <1>10
<1> QED
  BY <1>5, <1>9, <1>10, <1>11 DEF Llm!InvoiceOf

\* POST /extract: an answer of the model that fits the schema, in whichever attempt it
\* came, is answered with whole and with every rule it breaks, unless check() cannot round
\* one of its amounts; that one is lost in a plain 500.
THEOREM OnlyOverflowCostsAnInvoice == Spec => []OnlyOverflowLosesAnInvoice
<1>1. ASSUME IInv, LlmProofs!IInv, LlmProofs!OutcomeIsTheLastAnswer
      PROVE  OnlyOverflowLosesAnInvoice
  <2> SUFFICES ASSUME NEW r \in Requests, NEW invoice \in HeardInvoices(r)
               PROVE  \/ ComesBack(r, invoice)
                      \/ invoice \in Unroundable /\ response[r] = InternalServerError
    BY DEF OnlyOverflowLosesAnInvoice
  <2>1. outcome[r] # None /\ outcome[r].kind = "invoice" /\ outcome[r].invoice = invoice
    BY <1>1, HeardIsTheOutcome DEF HeardInvoices
  <2>2. /\ got[r] \in Ocr!Readings
        /\ response[r] = AnswerFor(got[r], outcome[r])
    BY <1>1, <2>1 DEF IInv, Stage, RightlyAnswered, NotRead, NotAsked, Asked
  <2>3. CASE invoice \in Unroundable
    BY <2>1, <2>2, <2>3 DEF AnswerFor
  <2>4. CASE invoice \notin Unroundable
    <3>1. response[r] = Extracted(got[r], invoice)
      BY <2>1, <2>2, <2>4 DEF AnswerFor
    <3>2. invoice \in Llm!AnswerType /\ invoice \in DOMAIN Broken
      BY <1>1, <2>1, InvoiceOfTheJob DEF LlmProofs!IInv
    <3>3. response[r] # None
      BY <2>2, <3>1, <3>2, ExtractedType, ServiceAssumption
    <3>4. Succeeded(r)
      BY <3>1, <3>3 DEF Extracted, Succeeded
    <3>5. response[r].invoice = invoice /\ response[r].violations = Broken[invoice]
      BY <3>1 DEF Extracted
    <3>6. response[r].valid = (Broken[invoice] = {})
      BY <3>1 DEF Extracted
    <3> QED
      BY <3>4, <3>5, <3>6 DEF ComesBack
  <2> QED
    BY <2>3, <2>4
<1> QED
  BY <1>1, AlwaysIInv, ExtractorWithin, PTL
=============================================================================
