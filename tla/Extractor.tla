----------------------------- MODULE Extractor -----------------------------
(***************************************************************************)
(* InvoiceExtractor (src/src/extract/extractor.py): the conversation with  *)
(* the model.  One call, and one retry that quotes the refused answer and  *)
(* what was wrong with it.  Jobs run concurrently and suspend only while   *)
(* the provider is answering; between two awaits extract() is atomic.      *)
(***************************************************************************)
EXTENDS Naturals, Sequences

CONSTANTS
    Jobs,           \* the extract() calls that may be in progress
    Sources,        \* what tells one OCR text from another
    Lengths,        \* how long an OCR text may be, in characters
    Prompts,        \* what the prompt file may hold
    Fields, Contents, \* the fields of an invoice; what tells two invoices apart
    Answers,        \* what the model may answer
    RawLimits,      \* the values MAX_OCR_CHARS may have, as numbers; None: unset or nonsense
    DefaultLimit,   \* DEFAULT_MAX_OCR_CHARS
    ATTEMPTS,
    Ours, Theirs,   \* the specification id: the one of the schema, another one
    None

\* An answer as _invoice_of sees it: broken JSON, JSON that is no object, an object
\* that collapses to null, or an object with the fields that do not fit the schema.
\* says is what it read off the text, spec the customization_id it claims.
AnswerType ==
    [shape : {"broken", "not_object", "collapsed", "object"},
     misfits : SUBSET Fields, says : Contents, spec : {Ours, Theirs}]

Texts == [of : Sources, chars : Nat]

\* How a job may end; the problems are fields that do not fit, or the shape that is none.
Outcomes ==
    [kind : {"invoice", "extraction_failed", "llm_request_failed", "crashed"},
     invoice : AnswerType \cup {None},
     problems : SUBSET (Fields \cup {"broken", "not_object", "collapsed"})]

ASSUME ExtractorAssumption ==
    /\ ATTEMPTS \in Nat \ {0}
    /\ Lengths \subseteq Nat
    /\ RawLimits \subseteq Nat \cup {None}
    /\ DefaultLimit \in Nat \ {0}
    /\ Answers \subseteq AnswerType
    /\ None \notin Prompts /\ None \notin Texts /\ None \notin Outcomes

VARIABLES
    text,       \* text[j]: the OCR text job j works on, None before it starts
    messages,   \* messages[j]: the conversation so far
    attempt,    \* attempt[j]: the loop counter
    problems,   \* problems[j]: what was wrong with the last refused answer
    outcome,    \* outcome[j]: how the job ended, None while it runs
    prompt,     \* the prompt file on disk, None when it is missing
    remembered, \* what the @cache of _prompt holds
    limit,      \* _max_ocr_chars
    sent,       \* history: sent[j], the conversations job j paid a call for
    heard       \* history: heard[j], the answers job j was given

vars == <<text, messages, attempt, problems, outcome, prompt, remembered, limit, sent, heard>>

\* Read MAX_OCR_CHARS; unset, nonsense and zero mean the default.
MaxCharsFromEnv(raw) == IF raw # None /\ raw > 0 THEN raw ELSE DefaultLimit

\* text[:max_ocr_chars]
Trim(t, n) == IF t.chars <= n THEN t ELSE [t EXCEPT !.chars = n]

\* What is wrong with an answer; nothing, if it is an invoice.
ProblemsOf(answer) == IF answer.shape = "object" THEN answer.misfits ELSE {answer.shape}

Fits(answer) == ProblemsOf(answer) = {}

\* Mutant: what the model claims is kept.
InvoiceKeepsItsClaim(answer) == answer

\* The invoice an answer becomes: the specification id is ours whatever it claims.
InvoiceOf(answer) == [answer EXCEPT !.spec = Ours]

System(content) == [role |-> "system", content |-> content]
User(content) == [role |-> "user", content |-> content]
Assistant(content) == [role |-> "assistant", content |-> content]
Complaint(found) == User([wrong |-> found])

Ended(kind, invoice, found) == [kind |-> kind, invoice |-> invoice, problems |-> found]

\* Mutant: the answer to the last attempt is never awaited.
WaitingButForTheLast(j) ==
    text[j] # None /\ outcome[j] = None /\ attempt[j] < ATTEMPTS

Waiting(j) == text[j] # None /\ outcome[j] = None

Init ==
    /\ text = [j \in Jobs |-> None]
    /\ messages = [j \in Jobs |-> <<>>]
    /\ attempt = [j \in Jobs |-> 0]
    /\ problems = [j \in Jobs |-> {}]
    /\ outcome = [j \in Jobs |-> None]
    /\ prompt \in Prompts \cup {None}
    /\ remembered = None
    /\ limit \in {MaxCharsFromEnv(raw) : raw \in RawLimits}
    /\ sent = [j \in Jobs |-> <<>>]
    /\ heard = [j \in Jobs |-> <<>>]

\* Mutant: the prompt is read anew for every job.
StartRereadsThePrompt(j, t) ==
    LET opening == <<System(prompt), User(Trim(t, limit))>>
    IN  /\ text[j] = None
        /\ prompt # None
        /\ text' = [text EXCEPT ![j] = t]
        /\ messages' = [messages EXCEPT ![j] = opening]
        /\ attempt' = [attempt EXCEPT ![j] = 1]
        /\ sent' = [sent EXCEPT ![j] = <<opening>>]
        /\ remembered' = prompt
        /\ UNCHANGED <<problems, outcome, prompt, limit, heard>>

\* extract() up to the first await: the prompt is read once per process.
Start(j, t) ==
    LET known == IF remembered # None THEN remembered ELSE prompt
        opening == <<System(known), User(Trim(t, limit))>>
    IN  /\ text[j] = None
        /\ known # None
        /\ text' = [text EXCEPT ![j] = t]
        /\ messages' = [messages EXCEPT ![j] = opening]
        /\ attempt' = [attempt EXCEPT ![j] = 1]
        /\ sent' = [sent EXCEPT ![j] = <<opening>>]
        /\ remembered' = known
        /\ UNCHANGED <<problems, outcome, prompt, limit, heard>>

\* The prompt file is missing: FileNotFoundError, which nobody translates.
StartCrashes(j, t) ==
    /\ text[j] = None
    /\ remembered = None /\ prompt = None
    /\ text' = [text EXCEPT ![j] = t]
    /\ outcome' = [outcome EXCEPT ![j] = Ended("crashed", None, {})]
    /\ UNCHANGED <<messages, attempt, problems, prompt, remembered, limit, sent, heard>>

\* The answer is an invoice.
Accept(j, a) ==
    /\ Waiting(j)
    /\ Fits(a)
    /\ heard' = [heard EXCEPT ![j] = Append(@, a)]
    /\ outcome' = [outcome EXCEPT ![j] = Ended("invoice", InvoiceOf(a), {})]
    /\ UNCHANGED <<text, messages, attempt, problems, prompt, remembered, limit, sent>>

\* Mutants: the complaint lists the problems of the refusal before; the attempts are
\* counted from the wrong end of the loop.
RefuseWithStaleProblems(j, a) ==
    LET longer == messages[j] \o <<Assistant(a), Complaint(problems[j])>>
    IN  /\ Waiting(j)
        /\ ~Fits(a)
        /\ heard' = [heard EXCEPT ![j] = Append(@, a)]
        /\ problems' = [problems EXCEPT ![j] = ProblemsOf(a)]
        /\ messages' = [messages EXCEPT ![j] = longer]
        /\ attempt[j] < ATTEMPTS
        /\ attempt' = [attempt EXCEPT ![j] = @ + 1]
        /\ sent' = [sent EXCEPT ![j] = Append(@, longer)]
        /\ UNCHANGED <<text, outcome, prompt, remembered, limit>>
RefuseOnceMore(j, a) ==
    LET longer == messages[j] \o <<Assistant(a), Complaint(ProblemsOf(a))>>
    IN  /\ Waiting(j)
        /\ ~Fits(a)
        /\ attempt[j] <= ATTEMPTS
        /\ heard' = [heard EXCEPT ![j] = Append(@, a)]
        /\ problems' = [problems EXCEPT ![j] = ProblemsOf(a)]
        /\ messages' = [messages EXCEPT ![j] = longer]
        /\ attempt' = [attempt EXCEPT ![j] = @ + 1]
        /\ sent' = [sent EXCEPT ![j] = Append(@, longer)]
        /\ UNCHANGED <<text, outcome, prompt, remembered, limit>>

\* The answer is refused: quote it, complain, and ask again while attempts are left.
Refuse(j, a) ==
    LET longer == messages[j] \o <<Assistant(a), Complaint(ProblemsOf(a))>>
    IN  /\ Waiting(j)
        /\ ~Fits(a)
        /\ heard' = [heard EXCEPT ![j] = Append(@, a)]
        /\ problems' = [problems EXCEPT ![j] = ProblemsOf(a)]
        /\ messages' = [messages EXCEPT ![j] = longer]
        /\ \/ /\ attempt[j] < ATTEMPTS
              /\ attempt' = [attempt EXCEPT ![j] = @ + 1]
              /\ sent' = [sent EXCEPT ![j] = Append(@, longer)]
              /\ UNCHANGED outcome
           \/ /\ attempt[j] >= ATTEMPTS
              /\ outcome' = [outcome EXCEPT ![j] =
                                Ended("extraction_failed", None, problems'[j])]
              /\ UNCHANGED <<attempt, sent>>
        /\ UNCHANGED <<text, prompt, remembered, limit>>

\* Mutant: a transport error is retried like a refusal.
ProviderFailureRetried(j) ==
    /\ Waiting(j)
    /\ attempt[j] < ATTEMPTS
    /\ attempt' = [attempt EXCEPT ![j] = @ + 1]
    /\ sent' = [sent EXCEPT ![j] = Append(@, messages[j])]
    /\ UNCHANGED <<text, messages, problems, outcome, prompt, remembered, limit, heard>>

\* LlmRequestError: nothing here catches it.
ProviderFails(j) ==
    /\ Waiting(j)
    /\ outcome' = [outcome EXCEPT ![j] = Ended("llm_request_failed", None, {})]
    /\ UNCHANGED <<text, messages, attempt, problems, prompt, remembered, limit, sent, heard>>

\* Somebody edits, removes or restores the prompt file while the service runs.
EditPrompt(p) ==
    /\ prompt' = p
    /\ UNCHANGED <<text, messages, attempt, problems, outcome, remembered, limit, sent, heard>>

\* The process dies and comes back: no job, nothing remembered.
Restart ==
    /\ text' = [j \in Jobs |-> None]
    /\ messages' = [j \in Jobs |-> <<>>]
    /\ attempt' = [j \in Jobs |-> 0]
    /\ problems' = [j \in Jobs |-> {}]
    /\ outcome' = [j \in Jobs |-> None]
    /\ remembered' = None
    /\ sent' = [j \in Jobs |-> <<>>]
    /\ heard' = [j \in Jobs |-> <<>>]
    /\ UNCHANGED <<prompt, limit>>

CallEnds(j) == ProviderFails(j) \/ \E a \in Answers : Accept(j, a) \/ Refuse(j, a)

Next ==
    \/ \E j \in Jobs, s \in Sources, n \in Lengths :
          LET t == [of |-> s, chars |-> n] IN Start(j, t) \/ StartCrashes(j, t)
    \/ \E j \in Jobs : CallEnds(j)
    \/ \E p \in Prompts \cup {None} : EditPrompt(p)
    \/ Restart

Spec == Init /\ [][Next]_vars

\* Every call to the provider ends, with an answer or an error.
FairSpec == Spec /\ \A j \in Jobs : WF_vars(CallEnds(j))

-----------------------------------------------------------------------------
TypeOK ==
    /\ text \in [Jobs -> Texts \cup {None}]
    /\ attempt \in [Jobs -> 0..ATTEMPTS]
    /\ prompt \in Prompts \cup {None}
    /\ remembered \in Prompts \cup {None}
    /\ limit \in Nat \ {0}
    /\ heard \in [Jobs -> Seq(Answers)]
    /\ outcome \in [Jobs -> Outcomes \cup {None}]
    /\ DOMAIN messages = Jobs /\ DOMAIN sent = Jobs /\ DOMAIN problems = Jobs

\* A job never pays for more than ATTEMPTS calls, and a second call is made only
\* for a first one that was answered and refused: never after a transport error,
\* a crash or an answer that fits.
PaidOnlyForRefusals(calls, answers) ==
    /\ Len(calls) <= ATTEMPTS
    /\ Len(answers) <= Len(calls)
    /\ Len(calls) <= Len(answers) + 1
    /\ \A k \in 1..(Len(calls) - 1) : ~Fits(answers[k])
PaysOnlyForRefusals == \A j \in Jobs : PaidOnlyForRefusals(sent[j], heard[j])

\* The first call carries the prompt and the job's own text, within the limit; every
\* retry is the conversation before it, the answer that was refused, and the problems
\* of that answer, of that job and of no other.
QuotesTheRefusals(t, calls, answers, known, n) ==
    \A k \in 1..Len(calls) :
        IF k = 1
        THEN /\ calls[1] = <<System(known), User(Trim(t, n))>>
             /\ calls[1][2].content.of = t.of
             /\ calls[1][2].content.chars <= n
        ELSE calls[k] = calls[k - 1] \o
                <<Assistant(answers[k - 1]), Complaint(ProblemsOf(answers[k - 1]))>>
RetryQuotesTheRefusal ==
    \A j \in Jobs : QuotesTheRefusals(text[j], sent[j], heard[j], remembered, limit)

\* How a job ended is what its answers say: an invoice is the last answer, which fits,
\* under our specification id; a failed extraction comes after exactly ATTEMPTS
\* refusals and names the problems of the last; a transport error or a crash
\* leaves the call it ended unanswered.
EndsAsAnswered(o, calls, answers) ==
    LET n == Len(answers)
    IN  CASE o.kind = "invoice" ->
                /\ n = Len(calls) /\ n > 0
                /\ Fits(answers[n])
                /\ o.invoice = [answers[n] EXCEPT !.spec = Ours]
          [] o.kind = "extraction_failed" ->
                /\ n = Len(calls) /\ n = ATTEMPTS
                /\ \A k \in 1..n : ~Fits(answers[k])
                /\ o.problems = ProblemsOf(answers[n])
          [] o.kind = "llm_request_failed" -> n + 1 = Len(calls)
          [] o.kind = "crashed" -> calls = <<>>
OutcomeIsTheLastAnswer ==
    \A j \in Jobs : outcome[j] # None => EndsAsAnswered(outcome[j], sent[j], heard[j])

\* Two conversations of one run never differ in the prompt, although the file may
\* be edited between them.
OnePromptPerRun ==
    \A i, j \in Jobs :
        sent[i] # <<>> /\ sent[j] # <<>> => sent[i][1][1] = sent[j][1][1]

\* An extraction that was begun ends, if calls do.
EveryJobEnds == \A j \in Jobs : text[j] # None ~> (outcome[j] # None \/ text[j] = None)
=============================================================================
