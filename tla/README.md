# Verification of invoice-en16931

The service takes a PDF invoice, reads it with OCR, has a language model pull the
EN 16931 fields out of the text, checks what came back against 21 rules, and hands the
invoice on together with what is wrong with it. This directory holds TLA+ models of its
parts, model-checked with TLC on small instances, and theorems about them proved with
TLAPS for every instance. Paths below are relative to the repository.

## The system

| Component | Source | State it keeps | Operations |
|---|---|---|---|
| HTTP service | `src/api.py`, `src/errors.py` | what the startup put aside (`app.state`), one `extract()` call per request | startup, bounded upload, `POST /extract`, error answers, `/health` |
| OCR contract | `src/ocr/base.py` | none | `read` |
| OCR cache | `src/ocr/cache.py` | an `OrderedDict` from sha256 to reading, least recently used first | `read` |
| Tesseract engine | `src/ocr/tesseract.py` | per read: a temporary directory, a running tool | `read`, `_render`, `_read_page`, `_run`, `_parse_tsv`, `_join` |
| Extractor | `src/extract/extractor.py` | the remembered prompt; per call: conversation, attempt, problems | `extract` |
| OpenAI provider | `src/extract/openai.py` | the timeout; per call: one HTTP exchange | `complete` |
| Rules | `src/validate/rules.py`, `report.py` | none | `check` |
| Delivery | `src/adapters/*.py` | files in `OUTPUT_DIR`, what the receiver has | `send`, `deliver` |
| Schema, renderings | `src/schema.py`, `src/render/*.py` | none | validation of an answer, `ubl.render`, `json_out.render` |
| Logging, samples | `src/logs.py`, `scripts/` | none | |

`POST /extract` reads the upload in chunks, checks the PDF signature, awaits the
cache, which awaits Tesseract on a miss, awaits the extractor, which awaits the model
once or twice, and runs `check()`. Everything runs on one asyncio event loop, so a
task can only be interrupted at an `await`: the cache between lookup and store, the
extractor while the model answers, Tesseract while a tool runs, the receiver's adapter
while the post is out. These are exactly the places where the modules split a function
into several actions. The delivery adapters have no caller in the service yet.

What is hard to test here, and what the properties are for (the full list, each at its
line, is under `hazards` in PROJECT.json):

- requests that interleave at the awaits: two readers of one file, an eviction during a
  reading, a reading or a conversation that ends up with the wrong request;
- failures half way: a tool that hangs, an amount that cannot be rounded, a page of many that cannot be read, a model
  that answers nonsense or not at all, a missing prompt file, a process that dies
  between two files;
- retries: what is paid for twice, what the second question quotes;
- state that changes under a suspended task: the prompt file, an invoice object that is
  being posted;
- boundaries: a file of exactly the limit, a cent of tolerance in each of a chain of
  rules, rounding half-up in the rules and half-even in what they print.

What makes each component correct: the *cache* answers with a reading of the file it
was asked for, stays within its limit, and forgets only what was used least recently;
*Tesseract* returns whole documents in order, or fails, in bounded time, and cleans up;
the *extractor* pays for at most two calls and never for a repetition of a failure,
and says what the last answer said; *parsing* reads what an answer means, takes the
ways of saying nothing for nothing, and names every misfit by its business term; the
*provider* gives up on an endpoint that hangs; the *rules* let a cent pass and nothing more, and
ask for corrections that lead somewhere; the *service* enforces the upload limit
exactly, keeps requests apart, loses no invoice it could check, names what failed and
answers everybody; the two *renderings* of an invoice do not contradict each other; *delivery* lets out valid documents only, and
reports what is true.

## The modules

| Module | Models | Its state in the code |
|---|---|---|
| `OcrEngine` | what any engine promises to whoever awaits `read()` | abstract: who asked for what, who got what |
| `OcrCache` | `CachingOcrEngine.read` as lookup (`Hit`, `Miss`) and store (`Store`, `InnerFails`) around the await | `entries` is `_entries` in order; `file`, `got` are the arguments and results of calls in progress; `produced`, `since` are history |
| `OcrCache_proofs` | theorems | |
| `TsvLines` | `_parse_tsv`, `_join` as operators on rows | none |
| `Tesseract` | `TesseractEngine.read`: `Read`, `Rendered`, `PageRead`, `ToolFails`, `TimesOut`, with a clock | `work` is the temporary directory, `queue` the images still to read, `pages` the list under construction, `waited` the age of the running tool |
| `Tesseract_proofs` | theorems, of the lines and of the reads | |
| `Extractor` | `InvoiceExtractor.extract`: `Start`, `Accept`, `Refuse`, `ProviderFails` | `messages`, `attempt`, `problems` are its locals, `remembered` the `@cache` of `_prompt`, `prompt` the file, `limit` is `_max_ocr_chars`; `sent`, `heard` are history |
| `Extractor_proofs` | theorems | |
| `AnswerParsing` | `_invoice_of` as operators on a JSON tree: `_drop_unreadable`, the schema with its types and terms, `_bt_at`, the fixed specification ids | none; a tree is a function from paths to what is there |
| `OpenAIProvider` | `complete()` on the wire: `Begin`, `Progress`, `Respond`, `TransportFails`, `TimesOut`, with a clock | `timeout` is `_timeout`, `phase` what httpx is at, `silent` the age of the operation in progress, `outcome` what `complete` returns or raises; `age`, `operations` are history |
| `ModelAnswer` | both together: a call, and what the extractor makes of its text | `parsed` is the result of `_invoice_of` |
| `ModelAnswer_proofs` | theorems, of the call and of the parsing | |
| `Validation` | the 21 rules and `check()` as operators on an invoice | none |
| `Rendering` | `ubl.render` and `json_out.render` as records of what the documents say, and the XML read back | none |
| `Checking` | an invoice that is misread, checked, corrected by its report and checked again; when it passes it can be rendered | `page` is what the paper says, `invoice` what was read, `report` the violations |
| `Validation_proofs` | theorems about invoices: sums, rounding, reports, documents, what a correction does | |
| `Checking_proofs` | theorems about the state machine, on top of these | |
| `Service` | startup and `extract()`, composing `OcrCache` and `Extractor` by `INSTANCE`; a request is a reader of the one and a job of the other | `phase` is how far `extract()` has come, `taken` the bytes in memory, `extractor` is `app.state.extractor` |
| `Service_proofs` | theorems, by way of those of the cache and the extractor | |
| `Delivery` | `ERPAdapter.send` with both adapters | `xml`, `json` are the files, `body` the rendered request, `object` the mutable `Invoice` |
| `Delivery_proofs` | theorems | |

`MC*` modules and their `.cfg` files are the small instances; `MCAnswers` builds the
JSON answers that two of them use. `Tesseract` and
`OcrCache` are both shown to implement `OcrEngine`; the service uses the cache with any
inner engine that keeps that contract, so the three compose without a run over all of
them at once. Definitions named as mutants, each with the fault it has in a comment,
are not part of any specification; PROJECT.json says which definition each one stands
in for and which property it breaks.

Abstractions. A file is a model value, and its sha256 the file itself (collisions are
excluded). A reading is the file and something that tells two readings of it apart. To the
extractor an answer of the model is its shape, the fields that do not fit, and what it
says; in `AnswerParsing` it is a JSON tree, and `MCExtractor` gets the first by parsing
the second. Texts in a tree are good, odd (they fit some fields only), blank or the word
null. Amounts
are integers in fractions of a cent; the rules' texts are absent, blank, good or wrong
in a named way. Logging and wording are left out. Between the return of a reading and
the first call of the model, `extract()` does not suspend; `Service` has two steps
there, which adds interleavings and removes none. A read of `Tesseract` or `OcrCache` that
fails may have raised `OcrFailedError` or an exception nobody translates (a tool that is
not installed, a full disk, rows that do not parse); `Service` answers `ocr_failed` to the
one and a plain 500 to the other. In `Delivery` an `OSError`, an amount a rule or a renderer
cannot round and an unusable receiver's URL are one outcome, `crashed`.

## The runs

| Run | What it shows | Instance |
|---|---|---|
| `cache` | limit, recency order, whose reading is whose, what is forgotten, refinement of `OcrEngine` | 3 readers, 3 files, 2 places, 2 readings per file |
| `cache_twice` | violated: "the same file is never read twice" (`src/ocr/cache.py:1`) | 2 readers |
| `tesseract` | whole documents in order, lines keep their words, directories go, reads end in bounded time, refinement of `OcrEngine` | 2 readers; files of 0, 1 and 2 pages |
| `extractor` | what is paid for, what a retry quotes, how it ends, that it ends | 2 jobs, all kinds of answers, parsed from JSON, prompt edited, texts around the limit |
| `model_answer` | a call costs one timeout per operation and ends; an answer is read as it is meant or refused; every misfit is named by its own term | timeouts of 0, 1, 2, inf and nonsense; statuses 200, 302, 400, 503; answers garbled in up to two places |
| `checking` | one cent passes and more is caught, tolerances add up to four cents; reports do not contradict themselves; correcting ends in seven rounds; XML and JSON of an invoice that passes contradict each other in a missing rate at most, and the XML passes when it is read back | exact invoices, one with a credit line, two misreadings of amounts or texts, or all four totals off at once |
| `checking_unused_rate` | violated: "a taxable amount equals the lines charged at that rate" (`src/validate/rules.py:342`) | a breakdown entry at a rate no line has |
| `service` | the upload limit, requests kept apart, codes, what invoices are lost (those `check()` cannot round, and no other), every upload answered | 2 requests, 7 files around the limit, cache of 1 |
| `service_errors` | violated: "One shape for every error the API returns" (`src/api.py:116`) | 1 request |
| `service_overflow` | violated: "The invoice comes back whole alongside the violations" (`README.md:49`): one that `check()` cannot round is lost | 1 request |
| `delivery` | only valid documents leave, as they were checked; files never differ silently | 2 sends of 1 object, 2 documents under one file name |
| `delivery_redirect` | violated: the adapter "insists on being told it arrived" (`src/adapters/mock_erp.py:28`) | a receiver that answers 302 |

Why these bounds are enough to be interesting. The cache needs two readers of one file
to miss together and a third one to turn the dictionary over between the two; with two
places and three files every eviction order occurs. Two pages are the least that can be
swapped, skipped or mixed with those of another read. `ATTEMPTS` is two, as in the
code. Two requests are the least that can be confused, and a cache of one place makes
every second upload evict. The upload limit is four bytes in chunks of two, with files
of exactly the limit, one byte more and one chunk more; the model gives invoices that add
up, that do not, and that cannot be rounded. In `Validation` a cent is two
units, so half cents, which rounding has to decide about, occur. One tick of the clock
is a whole time limit: an answer that arrives with the limit is possible. A call to the model
takes up to four operations on the wire (`MaxOperations`): connecting, sending and two
reads, so that an endpoint can renew the timeout. A garbled place is each field in turn,
deep and shallow, required and optional, of every type, in each way an answer has of
saying nothing or the wrong thing; the second place is one of five that between them are
read, refused, empty, overruled and a whole subtree, which is what one misfit can do to
the report of another. The statuses lie on both sides of 400.
The same places garbled alone are texts too.
The checking runs stop when an invoice passes, so they do not look for deadlocks; all
others do.

## Fairness

- `OpenAIProvider` assumes only that time passes and that httpx enforces its timeout; the
  endpoint may hang in any operation. Under that a call ends, when it takes finitely many
  operations and the timeout is a number of seconds. The bound on the operations stands
  for an assumption about the endpoint: the timeout (`src/extract/openai.py:94`) is held
  against each read and write, so one that sends a byte now and then is never cut off.
  `OPENAI_TIMEOUT_SECONDS=inf` is accepted and means no limit at all.
- `Extractor` and `Service` assume that every call of the model ends, with an answer or
  an error, which is what `model_answer` shows under the above. Nothing is assumed about
  which answer it gives.
- `Service` assumes the event loop runs what can run, that the upload is spooled before
  the handler begins, as the framework does, and that reading ends.
- `Tesseract`, where that last assumption is made good, assumes only that time passes
  and that `wait_for` notices. The tools may hang for ever.
- Uploads, editing of the prompt, restarts and deliveries are never assumed to happen.

## What is proved

`OcrCache_proofs`, for any sets of readers, files and readings and any `max_entries`
including 0, assuming only that the constants are distinct (`CacheAssumption`):

- `TypeCorrect`, `LimitHolds`, `NobodyGetsAForeignReading`, `OrderHolds`: the invariants
  of the `cache` run;
- `ForgetsOnlyTheLeast`: the action property;
- `Implements`: the cache implements `OcrEngine`.

All of them rest on one inductive invariant, `IInv`: types, the limit with the
uniqueness of digests, the genuineness of entries, the recency order, and the
finiteness of the history sets. None of these is inductive alone: that a store leaves
at most `max_entries` needs uniqueness (otherwise a key could be overwritten in one
place and kept in another), a hit's answer is the reader's own only because entries are
genuine, and what is dropped is the least used only because the order is recency. The
proof goes by one lemma per action that touches the dictionary (`HitKeeps`,
`StoreKeeps`), over lemmas about what `MovedToEnd`, `Stored` and `Evicted` do to a
sequence. Cardinalities come in once, in `ForgetsOnlyTheLeast`: the entries that stay
are `max_entries` different files, all used since the dropped one.

`Tesseract_proofs`, for any readers, files, numbers of pages, time limit and output of the
tools (`TesseractAssumption`): all the invariants of the `tesseract` run and its
refinement.

- `LinesDoKeepTheWords`: every word of a page ends in the line of its own block, paragraph
  and line, as often as it was printed, in reading order and inside the line's box. Its
  lemmas are about what taking some elements of a sequence in some order does
  (`PicksInTurn`, `AtPicks`, `SortedByLeft`): `sorted`, the grouping and the sorting of
  the images are all instances of it.
- `TypeCorrect`, `DirectoriesGo`, `ReadsAreBounded`, `DocumentsAreWhole`,
  `EngineIsImplemented`: of the reads. The invariant says that each read is at one of
  five places (not begun, rendering, reading pages, answered, failed), and at each what
  directory, queue, pages and waits are. While pages are read, those that are done and
  those in the queue are together the images in order (`Placed`), which is what makes the
  last page complete the document; what was spent is a limit for each tool that ended and
  the wait of the one that runs.

`Validation_proofs`, about any invoice the schema lets in (`IsInvoice`), and
`Checking_proofs`, about any way to misread and correct it (`CheckingAssumption`): all
the invariants of the `checking` run.

- `TolerancesAddUp`, and `FourCentsHolds` of every state: in any invoice that passes, of
  any number of lines, the amount due is within four tolerances of the lines plus the
  taxes.
- `PrintedAmountsDiffer`: a violation never prints the same amount as what is there and
  as what should be, for any fineness of amounts; it rests on `MoneyIsNearest`.
  `ReportsAreToTheField` says for all 21 rules that a violation is about a field there is
  and says the one thing there is to say of it (`Told`); `OneValueHolds`, that a report
  never asks for two values of a field nor for the one that is there, follows.
- `DocumentsSayTheSame`, `PrintedTotalsAddUp`: of an invoice that passes, both documents
  say the same amounts (the rules are what makes the fields present that the two would
  treat differently when they are missing), which add up within two cents as printed,
  although they are rounded half-even after they were compared.
- `SevenRoundsHold`: whoever follows the reports is done after seven rounds, for every
  invoice. That nothing is reported after seven rounds is not inductive; the invariant
  `IInv` says for each number of rounds what is right by then (`Level`): first the texts
  and what was missing, then the lines, the bases and the nets, the taxes, the VAT total,
  the gross total, the amount due. A round keeps what is right, because no rule reports
  it and nothing it is compared with moves any more, and sets right what depends on that
  only (`NextLevel`, over `LinesRound`, `NetsRound`, `TaxesRound` and so on). After seven
  rounds everything is right, which is what passing means (`RightMeansPassing`).
- `RenderingsDoAgree`: the XML, read back, is the invoice as it is printed, with what XML
  has to fill in. So the XML says what the JSON says, but for a line without a rate, which
  it charges at 0 %, a line without an identifier, which it numbers by its position, and
  a blank town, which it leaves out. The first is a contradiction, which the rules let
  pass; the theorem says that it is the only one.
- `ReadBackDoesPass`: if all amounts are in whole cents and every rate is there, what is
  read back passes again.
- `ACentDoesPass`: one amount off by a cent passes, by more it is caught, wherever it is.
  Hypothesis `ExactPages`: the printed invoices pass and each amount is what the others
  come to; TLC finds it true of the instance (`PagesAreExact`). The hard case is a base
  that is a cent off at a rate of up to 100 %: its tax is compared after rounding, and
  moves by no more than a cent only because exact bases are in whole cents (`TaxShifts`).
- `TypeCorrect`.

`ModelAnswer_proofs`, for any timeouts, endpoints and number of operations
(`OpenAIProviderAssumption`) and any answers that are trees as `json.loads` makes them
(`ModelAnswerAssumption`):

- `CallsAreTheProviders`: a call and what the extractor makes of it is a call of the
  provider, so what is proved of that holds here; `TypeCorrect`, and
  `EveryOperationCostsOneTimeout`: a call waits one timeout per operation at most. The
  bound on the age of a call is not inductive: a step could end an operation that has
  used its whole timeout and more. The invariant `WithinTheRest` says the age plus what
  is left of the running operation's timeout is within the bound.
- `NothingIsNoValue`: after `_drop_unreadable` no text that means nothing is the value
  of a wrapper, at any depth. `AcceptedFitsTheSchema`: what is accepted has all that the
  schema requires and nothing it does not have. `InvoiceSaysWhatWasRead`, and
  `ReturnsTheAnswer` of every state: at each field it says what the answer said there.
- `TermsAreNotAmbiguous`, `EachSideHasItsTerms`, `ProblemsAreNamedByTheirField`: which
  business term a problem is named with, for any path, also one of keys the model made
  up.
- `AnswersAreReadAsMeant`, `EveryProblemIsNamed`: `ReadAsMeant` and `ProblemsNameTheTerm`
  of every state, for any page and any number of garblings that are apart. The argument
  has two halves. Locality (`SeveralAreEach`): whether a path misfits, and what is read
  there, depends on the path, what is above it and whether there is something right below
  it; so the misfits of an answer garbled in several places are those of each place alone
  (`MisfitsAreThoseAlone`), and one wrong field neither hides nor causes a problem in
  another. One field (`OneFieldIsRightAlone`): a garbled field comes out as nothing, as
  its value or as a problem of its own, according to what its cell `Says`.

  Their hypotheses are about the page and the garblings. `ModelAnswerAssumption` says
  that garblings do not overlap and take no whole item of a list away; either would make
  one misfit depend on another. `FieldsAreMeantAsSaid` says that what a garbling of a
  field is said to mean is what its cell says; TLC finds it true of the meanings written
  down by hand (`MeaningsAgree`). `OthersAreRightAlone` says that the page, and each
  garbling of what is no field (a whole part, a list, an unknown key, the specification
  ids, the whole answer), comes out as it is meant when it is alone. That is a case of the
  two invariants, as each garbling is a text by itself, so the `model_answer` run checks
  it; what the theorems add there is that company changes nothing.

Paths and sums have any length, and `FieldAtPath`, `_bt_at` and `Total` are recursive
functions. What they are at the end of a walk is shown by induction over the numbers:
the library's theorem of that name has an operator for a parameter, so the principle is
stated of a set of numbers instead (`Induct`, from the well-foundedness of Nat), and each
function is unfolded once (`RunningExists`, `FieldsAlongExist`, `TermsAlongExist`).

`Extractor_proofs`, for any number of jobs, any prompts, texts and answers, any limit
and any `ATTEMPTS` of at least one (`ExtractorAssumption`): `TypeCorrect`,
`OnlyRefusalsCostAnotherCall`, `RetriesQuoteTheirOwnRefusal` (with `OnePromptPerRun`)
and `EndsAsItsAnswersSay`, which are all the invariants of the `extractor` run, and
`CallsAreAboutTheOwnText`: every call of a job, the retry too, has the job's own text
after the prompt. The
invariant is a predicate `Job` on the values of one job. What it adds to the properties
is `OnTheLine`: while a job waits, its counter is the number of its calls, all of them
but the last were answered and refused, and `messages` is what the last call sent; a
retry quotes correctly only because of the last, and gives up after exactly `ATTEMPTS`
refusals only because of the first. One lemma per action says what it makes of its own
job, as a fact about values without a prime; `OneJobMoves` says that the other jobs
keep theirs, since the prompt is remembered only while nobody has made a call.

`Service_proofs`, for any number of requests, any files, sizes, limits, chunks, cache
sizes and answers (`ServiceAssumption`, which includes the assumptions of the parts). It
is compositional:

- `RunsTheCache`, `RunsTheExtractor`: a step of the service is a step of the cache, or
  leaves it alone, and likewise of the extractor. So what is proved of these two holds
  within the service; the modules of their proofs are instantiated there, and one lemma
  each (`CacheWithin`, `ExtractorWithin`) brings their theorems over.
- `UploadLimitHolds`, `AnswersAreAboutTheirOwnFile`, `CodesSayWhatFailed`,
  `OnlyOverflowCostsAnInvoice`, `TypeCorrect`: all the invariants of the `service` run.
  The fourth says that an answer of the model that fits is answered with whole, unless
  `check()` cannot round an amount of it, in which case it is lost; that it may be lost at
  all is what `service_overflow` shows. It takes the invariant of the extractor: an answer
  that fits is the last one of its job, and what the job ends with (`HeardIsTheOutcome`).

The invariant of the service itself, `IInv`, says of each request how far it is in all
three at once (`Stage`): for instance that a request that is extracting has its own
file's reading from the cache, and that this reading is the text of its job. It is
needed because the properties speak of the last state only, and each of the three parts
forgets how it got there. That an answer is about its own file then takes all three: the
reading is of the file asked for (cache), every call was about the job's text
(extractor), and file, reading and text belong together (`Stage`). One lemma per action;
`OneRequestMoves` says that the other requests keep their stage. The step of `ReadPdf`
uses that the cache holds readings, and that of `Refused` that problems are kept per job,
which is why the two refinements are proved first, from almost nothing (`Posted`).

`Delivery_proofs`, for any number of sends, objects, documents and names:
`TypeCorrect`, `OnlyValidInvoicesLeave`, `FilesNeverDifferSilently`, and, for a
receiver that never redirects, `ReceiverHasIt`; without that hypothesis the last is
false, as the `delivery_redirect` run shows. The invariant adds that what a send has
rendered is what was checked and is valid (so that editing the object is harmless) and
that a place that is free holds nothing of the send before.

## What is only model-checked

- Liveness (`EveryUploadIsAnswered`, `EveryJobEnds`, `EveryReadEnds`, `EveryCallEnds`):
  the prover does not reason about fairness and ENABLED.
- What becomes of one garbling of what is no field, and of the page as it is: the
  hypothesis `OthersAreRightAlone` of the theorems about the parsing. What such a garbling
  means is written down by hand; the instance has those of `Places` and `WholeAnswers`.
- That the hypothesis of `ACentDoesPass` holds of some invoices: those of the instance.

## What is not modelled

- Of a call to the model: the request's body, the key, and the validity of the base URL
  (a malformed one is an `httpx.InvalidURL` that nobody translates).
- Of the parsing: the texts of patterns, dates and messages, which are reduced to whether
  a text fits a field; dates given as numbers or with a midnight time; confidences given
  as texts.
- Of the renderings: order and spelling of elements, and what every document says alike.
- The temporary directory of a process that was killed: it stays on disk, and the model
  forgets it with the process.
- That the names of the images sort in page order, which is pdftoppm's doing.
- `src/validate/currencies.py`: a list; a code is known or not. `src/logs.py`,
  `scripts/`: no behaviour of the service depends on them.
- `src/adapters/factory.py`: nothing calls it; `Delivery` has both adapters. The languages
  of `src/ocr/factory.py`.
- pdftoppm, tesseract, the model, the receiver, the client and the operator are
  external, and nondeterministic.

Differences noticed that no run is about, in what the sources say and what they do: the
service starts with an unknown `ERP_ADAPTER`, though `src/adapters/factory.py:22` says a
typo stops it; a line without a rate is at 0 % in the XML and null in the JSON
(`src/render/ubl.py:209`), though `README.md:111` says the two cannot drift apart, and
such an invoice may pass, as `RenderingsAgree` allows for; the timeout that
`src/extract/openai.py:70` calls "how long one call may take" is per operation.

Hazards the code leaves open and no text denies: both documents print a unit price in
cents, so that quantity times printed price need not be the amount of the line
(`src/render/ubl.py:194`); a timeout of `inf` is accepted (`src/extract/openai.py:136`),
and a silent endpoint is then waited for without end; a post whose answer was lost cannot
be told from one that never arrived, so a caller that tries again may deliver twice
(`src/adapters/mock_erp.py:58`).

## Plan

Written, in this order: the cache with its contract and proofs; the extractor; the
rules with checking and correcting; the service that composes them; Tesseract; delivery;
the provider, the parsing of answers and their composition; the renderings; the proofs
of the service by way of those of its parts, of Tesseract, of checking and of the parsing;
that garblings of an answer come out in company as they do alone.

What would be next: what a corrected invoice owes to the one that was read (a correction
changes nothing that was right); a run of `Tesseract` under `OcrCache` (each is shown to
keep the contract the other relies on, so it would be a check of the contract rather than
of the code).
