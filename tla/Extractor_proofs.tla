------------------------- MODULE Extractor_proofs -------------------------
(***************************************************************************)
(* Proofs about the extractor, for any number of jobs, any answers and any *)
(* ATTEMPTS: what is paid for, what a retry quotes, and that a job ends as *)
(* its answers say.                                                        *)
(***************************************************************************)
EXTENDS Extractor, TLAPS

\* What a conversation is made of.
Problems == Fields \cup {"broken", "not_object", "collapsed"}
Message ==
    [role : {"system"}, content : Prompts]
    \cup [role : {"user"}, content : Texts]
    \cup [role : {"assistant"}, content : Answers]
    \cup [role : {"user"}, content : [wrong : SUBSET Problems]]
Conversation == Seq(Message)

-----------------------------------------------------------------------------
(* The invariant of one job, as a predicate on its values: its text t, its   *)
(* messages ms, its attempt at, its outcome o, the calls it made and the     *)
(* answers it was given, with the prompt known and the limit n.              *)

\* While it waits, the last call is unanswered, all others were refused, and what it
\* would quote is what it sent.
OnTheLine(ms, at, calls, answers) ==
    /\ at = Len(calls)
    /\ at = Len(answers) + 1
    /\ \A k \in 1..Len(answers) : ~Fits(answers[k])
    /\ ms = calls[Len(calls)]

Job(t, ms, at, o, calls, answers, known, n) ==
    /\ t = None => o = None /\ calls = <<>> /\ answers = <<>>
    /\ t # None /\ o = None => OnTheLine(ms, at, calls, answers)
    /\ calls # <<>> => known # None
    /\ PaidOnlyForRefusals(calls, answers)
    /\ QuotesTheRefusals(t, calls, answers, known, n)
    /\ o # None => EndsAsAnswered(o, calls, answers)

IInv ==
    /\ TypeOK
    /\ messages \in [Jobs -> Conversation]
    /\ sent \in [Jobs -> Seq(Conversation)]
    /\ \A j \in Jobs :
          Job(text[j], messages[j], attempt[j], outcome[j], sent[j], heard[j], remembered, limit)

-----------------------------------------------------------------------------
(* What the operators return.                                                *)

\* A text cut to the limit is within it, and still of the same document.
LEMMA TrimmedFits ==
    ASSUME NEW t \in Texts, NEW n \in Nat
    PROVE  Trim(t, n) \in Texts /\ Trim(t, n).of = t.of /\ Trim(t, n).chars <= n
  BY DEF Trim, Texts

\* What is wrong with an answer is something that can be wrong with one.
LEMMA ProblemsAreProblems ==
    ASSUME NEW a \in Answers
    PROVE  ProblemsOf(a) \in SUBSET Problems
  BY ExtractorAssumption DEF ProblemsOf, AnswerType, Problems

\* Each way to end a job is an outcome, and says what it was made of.
LEMMA EndingsAreOutcomes ==
    ASSUME NEW kind \in {"invoice", "extraction_failed", "llm_request_failed", "crashed"},
           NEW invoice \in AnswerType \cup {None},
           NEW found \in SUBSET Problems
    PROVE  LET e == Ended(kind, invoice, found)
           IN  /\ e \in Outcomes /\ e # None
               /\ e.kind = kind /\ e.invoice = invoice /\ e.problems = found
  BY ExtractorAssumption DEF Ended, Outcomes, Problems

\* A conversation grows by what was refused and why.
LEMMA LongerIsConversation ==
    ASSUME NEW ms \in Conversation, NEW a \in Answers
    PROVE  ms \o <<Assistant(a), Complaint(ProblemsOf(a))>> \in Conversation
<1>1. Assistant(a) \in Message
  BY DEF Assistant, Message
<1>2. Complaint(ProblemsOf(a)) \in Message
  BY ProblemsAreProblems DEF Complaint, User, Message
<1> QED
  BY <1>1, <1>2 DEF Conversation

-----------------------------------------------------------------------------
(* What each step makes of the job that takes it.                            *)

\* A job that has not begun is a job.
LEMMA FreshJob ==
    ASSUME NEW ms, NEW at, NEW known, NEW n
    PROVE  Job(None, ms, at, None, <<>>, <<>>, known, n)
  BY ExtractorAssumption DEF Job, PaidOnlyForRefusals, QuotesTheRefusals

\* The first call opens with the prompt and the text within the limit.
LEMMA StartedJob ==
    ASSUME NEW t \in Texts, NEW known \in Prompts, NEW n \in Nat
    PROVE  LET opening == <<System(known), User(Trim(t, n))>>
           IN  /\ opening \in Conversation
               /\ Job(t, opening, 1, None, <<opening>>, <<>>, known, n)
<1> DEFINE system == System(known)
           user == User(Trim(t, n))
           opening == <<system, user>>
<1>1. system \in Message
  BY DEF System, Message
<1>2. user \in Message /\ user.content = Trim(t, n)
  BY TrimmedFits DEF User, Message
<1> HIDE DEF system, user
<1>3. opening \in Conversation /\ opening[2] = user
  BY <1>1, <1>2 DEF Conversation
<1>4. known # None /\ t # None
  BY ExtractorAssumption
<1> HIDE DEF opening
<1>5. PaidOnlyForRefusals(<<opening>>, <<>>)
  BY ExtractorAssumption DEF PaidOnlyForRefusals
<1>6. QuotesTheRefusals(t, <<opening>>, <<>>, known, n)
  <2>1. opening = <<System(known), User(Trim(t, n))>>
    BY DEF opening, system, user
  <2>2. opening[2].content.of = t.of /\ opening[2].content.chars <= n
    BY <1>2, <1>3, TrimmedFits
  <2>3. 1..Len(<<opening>>) = {1} /\ <<opening>>[1] = opening
    OBVIOUS
  <2> QED
    BY <2>1, <2>2, <2>3 DEF QuotesTheRefusals
<1>7. OnTheLine(opening, 1, <<opening>>, <<>>)
  BY DEF OnTheLine
<1> QED
  BY <1>3, <1>4, <1>5, <1>6, <1>7 DEF Job, opening, system, user

\* A job without its prompt crashes before it has paid for anything.
LEMMA CrashedJob ==
    ASSUME NEW t \in Texts, NEW ms, NEW at, NEW known, NEW n
    PROVE  Job(t, ms, at, Ended("crashed", None, {}), <<>>, <<>>, known, n)
<1> DEFINE e == Ended("crashed", None, {})
<1>1. e # None /\ e.kind = "crashed"
  BY EndingsAreOutcomes
<1>2. t # None
  BY ExtractorAssumption
<1> HIDE DEF e
<1>3. EndsAsAnswered(e, <<>>, <<>>)
  BY <1>1 DEF EndsAsAnswered
<1>4. PaidOnlyForRefusals(<<>>, <<>>) /\ QuotesTheRefusals(t, <<>>, <<>>, known, n)
  BY ExtractorAssumption DEF PaidOnlyForRefusals, QuotesTheRefusals
<1> QED
  BY <1>1, <1>2, <1>3, <1>4 DEF Job, e

\* An answer more does not change what the calls so far had to quote.
LEMMA AnsweredStillQuotes ==
    ASSUME NEW t, NEW calls \in Seq(Conversation), NEW answers \in Seq(Answers),
           NEW known, NEW n, NEW a \in Answers, Len(calls) <= Len(answers) + 1,
           QuotesTheRefusals(t, calls, answers, known, n)
    PROVE  QuotesTheRefusals(t, calls, Append(answers, a), known, n)
<1> SUFFICES ASSUME NEW k \in 1..Len(calls), k # 1
             PROVE  Append(answers, a)[k - 1] = answers[k - 1]
  BY DEF QuotesTheRefusals
<1> QED
  OBVIOUS

\* An answer that fits ends the job with the invoice it is.
LEMMA AcceptedJob ==
    ASSUME NEW t \in Texts, NEW ms, NEW at, NEW calls \in Seq(Conversation),
           NEW answers \in Seq(Answers), NEW known, NEW n, NEW a \in Answers, Fits(a),
           Job(t, ms, at, None, calls, answers, known, n)
    PROVE  Job(t, ms, at, Ended("invoice", InvoiceOf(a), {}), calls, Append(answers, a), known, n)
<1> DEFINE e == Ended("invoice", InvoiceOf(a), {})
           heardNow == Append(answers, a)
<1>1. InvoiceOf(a) \in AnswerType
  BY ExtractorAssumption DEF InvoiceOf, AnswerType
<1>2. e # None /\ e.kind = "invoice" /\ e.invoice = InvoiceOf(a)
  BY <1>1, EndingsAreOutcomes
<1>3. t # None
  BY ExtractorAssumption
<1>4. OnTheLine(ms, at, calls, answers)
  BY <1>3 DEF Job
<1>5. /\ heardNow \in Seq(Answers)
      /\ Len(heardNow) = Len(answers) + 1
      /\ heardNow[Len(heardNow)] = a
      /\ \A k \in 1..Len(answers) : heardNow[k] = answers[k]
  OBVIOUS
<1>6. QuotesTheRefusals(t, calls, heardNow, known, n)
  <2>1. Len(calls) <= Len(answers) + 1 /\ QuotesTheRefusals(t, calls, answers, known, n)
    BY <1>4 DEF Job, OnTheLine
  <2> QED
    BY <2>1, AnsweredStillQuotes
<1> HIDE DEF e, heardNow
<1>7. PaidOnlyForRefusals(calls, heardNow)
  BY <1>4, <1>5 DEF Job, OnTheLine, PaidOnlyForRefusals
<1>8. EndsAsAnswered(e, calls, heardNow)
  BY <1>2, <1>4, <1>5 DEF OnTheLine, EndsAsAnswered, InvoiceOf
<1> QED
  BY <1>2, <1>3, <1>6, <1>7, <1>8 DEF Job, e, heardNow

\* A refusal with attempts left is another call, which quotes it.
LEMMA AskedAgainJob ==
    ASSUME NEW t \in Texts, NEW ms \in Conversation, NEW at \in Nat,
           NEW calls \in Seq(Conversation), NEW answers \in Seq(Answers), NEW known, NEW n,
           NEW a \in Answers, ~Fits(a), at < ATTEMPTS,
           Job(t, ms, at, None, calls, answers, known, n)
    PROVE  LET longer == ms \o <<Assistant(a), Complaint(ProblemsOf(a))>>
           IN  Job(t, longer, at + 1, None, Append(calls, longer), Append(answers, a), known, n)
<1> DEFINE longer == ms \o <<Assistant(a), Complaint(ProblemsOf(a))>>
           heardNow == Append(answers, a)
           sentNow == Append(calls, longer)
<1>1. t # None
  BY ExtractorAssumption
<1>2. OnTheLine(ms, at, calls, answers)
  BY <1>1 DEF Job
<1>3. longer \in Conversation
  BY LongerIsConversation
<1>4. /\ heardNow \in Seq(Answers)
      /\ Len(heardNow) = Len(answers) + 1
      /\ heardNow[Len(heardNow)] = a
      /\ \A k \in 1..Len(answers) : heardNow[k] = answers[k]
  OBVIOUS
<1>5. QuotesTheRefusals(t, calls, heardNow, known, n)
  <2>1. Len(calls) <= Len(answers) + 1 /\ QuotesTheRefusals(t, calls, answers, known, n)
    BY <1>2 DEF Job, OnTheLine
  <2> QED
    BY <2>1, AnsweredStillQuotes
<1>6. longer = calls[Len(calls)] \o <<Assistant(heardNow[Len(calls)]),
                                      Complaint(ProblemsOf(heardNow[Len(calls)]))>>
  BY <1>2, <1>4 DEF OnTheLine
<1> HIDE DEF longer, heardNow
<1>7. /\ sentNow \in Seq(Conversation)
      /\ Len(sentNow) = Len(calls) + 1
      /\ sentNow[Len(sentNow)] = longer
      /\ \A k \in 1..Len(calls) : sentNow[k] = calls[k]
  BY <1>3
<1>8. Len(calls) >= 1 /\ Len(calls) = Len(heardNow) /\ Len(calls) < ATTEMPTS
  BY <1>2, <1>4 DEF OnTheLine
<1> HIDE DEF sentNow
<1>9. PaidOnlyForRefusals(sentNow, heardNow)
  BY <1>2, <1>4, <1>7, <1>8, ExtractorAssumption DEF OnTheLine, PaidOnlyForRefusals
<1>10. QuotesTheRefusals(t, sentNow, heardNow, known, n)
  <2> SUFFICES ASSUME NEW k \in 1..Len(sentNow)
               PROVE  IF k = 1
                      THEN /\ sentNow[1] = <<System(known), User(Trim(t, n))>>
                           /\ sentNow[1][2].content.of = t.of
                           /\ sentNow[1][2].content.chars <= n
                      ELSE sentNow[k] = sentNow[k - 1] \o
                              <<Assistant(heardNow[k - 1]), Complaint(ProblemsOf(heardNow[k - 1]))>>
    BY DEF QuotesTheRefusals
  <2>1. CASE k <= Len(calls)
    <3>1. sentNow[k] = calls[k] /\ (k # 1 => sentNow[k - 1] = calls[k - 1])
      BY <1>7, <2>1
    <3>2. k \in 1..Len(calls)
      BY <2>1
    <3>3. CASE k = 1
      BY <1>5, <3>1, <3>2, <3>3 DEF QuotesTheRefusals
    <3>4. CASE k # 1
      BY <1>5, <3>1, <3>2, <3>4 DEF QuotesTheRefusals
    <3> QED
      BY <3>3, <3>4
  <2>2. CASE ~(k <= Len(calls))
    <3>1. k = Len(calls) + 1 /\ k # 1 /\ k - 1 = Len(calls)
      BY <1>7, <1>8, <2>2
    <3>2. sentNow[k] = longer /\ sentNow[k - 1] = calls[Len(calls)]
      BY <1>7, <1>8, <3>1
    <3>3. heardNow[k - 1] = heardNow[Len(calls)]
      BY <3>1
    <3> QED
      BY <1>6, <3>1, <3>2, <3>3
  <2> QED
    BY <2>1, <2>2
<1>11. OnTheLine(longer, at + 1, sentNow, heardNow)
  <2>1. ASSUME NEW k \in 1..Len(heardNow)
        PROVE  ~Fits(heardNow[k])
    <3>1. k = Len(heardNow) \/ k \in 1..Len(answers)
      BY <1>4
    <3> QED
      BY <1>2, <1>4, <3>1 DEF OnTheLine
  <2>2. at + 1 = Len(sentNow) /\ at + 1 = Len(heardNow) + 1
    BY <1>2, <1>4, <1>7 DEF OnTheLine
  <2> QED
    BY <1>7, <2>1, <2>2 DEF OnTheLine
<1>12. known # None
  BY <1>8 DEF Job
<1> QED
  BY <1>1, <1>9, <1>10, <1>11, <1>12 DEF Job, longer, heardNow, sentNow

\* A refusal of the last attempt ends the job with its problems.
LEMMA GivenUpJob ==
    ASSUME NEW t \in Texts, NEW ms, NEW longer, NEW at \in 0..ATTEMPTS,
           NEW calls \in Seq(Conversation), NEW answers \in Seq(Answers), NEW known, NEW n,
           NEW a \in Answers, ~Fits(a), at >= ATTEMPTS,
           Job(t, ms, at, None, calls, answers, known, n)
    PROVE  Job(t, longer, at, Ended("extraction_failed", None, ProblemsOf(a)), calls,
               Append(answers, a), known, n)
<1> DEFINE e == Ended("extraction_failed", None, ProblemsOf(a))
           heardNow == Append(answers, a)
<1>1. e # None /\ e.kind = "extraction_failed" /\ e.problems = ProblemsOf(a)
  <2> DEFINE found == ProblemsOf(a)
  <2>1. found \in SUBSET Problems
    BY ProblemsAreProblems
  <2> HIDE DEF found
  <2>2. LET o == Ended("extraction_failed", None, found)
        IN  o # None /\ o.kind = "extraction_failed" /\ o.problems = found
    BY <2>1, ExtractorAssumption DEF Ended, Outcomes, Problems
  <2> QED
    BY <2>2 DEF found
<1>2. t # None
  BY ExtractorAssumption
<1>3. OnTheLine(ms, at, calls, answers)
  BY <1>2 DEF Job
<1>4. /\ heardNow \in Seq(Answers)
      /\ Len(heardNow) = Len(answers) + 1
      /\ heardNow[Len(heardNow)] = a
      /\ \A k \in 1..Len(answers) : heardNow[k] = answers[k]
  OBVIOUS
<1>5. QuotesTheRefusals(t, calls, heardNow, known, n)
  <2>1. Len(calls) <= Len(answers) + 1 /\ QuotesTheRefusals(t, calls, answers, known, n)
    BY <1>3 DEF Job, OnTheLine
  <2> QED
    BY <2>1, AnsweredStillQuotes
<1>6. at = ATTEMPTS
  BY ExtractorAssumption
<1> HIDE DEF e, heardNow
<1>7. PaidOnlyForRefusals(calls, heardNow)
  BY <1>3, <1>4 DEF Job, OnTheLine, PaidOnlyForRefusals
<1>8. EndsAsAnswered(e, calls, heardNow)
  BY <1>1, <1>3, <1>4, <1>6 DEF OnTheLine, EndsAsAnswered
<1> QED
  BY <1>1, <1>2, <1>5, <1>7, <1>8 DEF Job, e, heardNow

\* A call that fails ends the job, whatever was refused before it.
LEMMA UnansweredJob ==
    ASSUME NEW t \in Texts, NEW ms, NEW at, NEW calls \in Seq(Conversation),
           NEW answers \in Seq(Answers), NEW known, NEW n,
           Job(t, ms, at, None, calls, answers, known, n)
    PROVE  Job(t, ms, at, Ended("llm_request_failed", None, {}), calls, answers, known, n)
<1> DEFINE e == Ended("llm_request_failed", None, {})
<1>1. e # None /\ e.kind = "llm_request_failed"
  BY EndingsAreOutcomes
<1>2. t # None
  BY ExtractorAssumption
<1> HIDE DEF e
<1>3. EndsAsAnswered(e, calls, answers)
  BY <1>1, <1>2 DEF Job, OnTheLine, EndsAsAnswered
<1> QED
  BY <1>1, <1>2, <1>3 DEF Job, e

\* A job that made no call does not mind which prompt is remembered.
LEMMA OtherJob ==
    ASSUME NEW t, NEW ms, NEW at, NEW o, NEW calls \in Seq(Conversation), NEW answers,
           NEW n, NEW known, Job(t, ms, at, o, calls, answers, None, n)
    PROVE  Job(t, ms, at, o, calls, answers, known, n)
<1>1. calls = <<>>
  BY DEF Job
<1>2. QuotesTheRefusals(t, calls, answers, known, n)
  BY <1>1 DEF QuotesTheRefusals
<1> QED
  BY <1>1, <1>2 DEF Job

-----------------------------------------------------------------------------
\* At first no job has begun and no prompt is remembered.
LEMMA InitHolds == Init => IInv
<1> SUFFICES ASSUME Init
             PROVE  IInv
  OBVIOUS
<1>1. PICK raw \in RawLimits : limit = MaxCharsFromEnv(raw)
  BY DEF Init
<1>2. limit \in Nat \ {0}
  BY <1>1, ExtractorAssumption DEF MaxCharsFromEnv
<1>3. /\ text = [j \in Jobs |-> None]
      /\ messages = [j \in Jobs |-> <<>>]
      /\ attempt = [j \in Jobs |-> 0]
      /\ problems = [j \in Jobs |-> {}]
      /\ outcome = [j \in Jobs |-> None]
      /\ prompt \in Prompts \cup {None}
      /\ remembered = None
      /\ sent = [j \in Jobs |-> <<>>]
      /\ heard = [j \in Jobs |-> <<>>]
  BY DEF Init
<1>4. TypeOK
  BY <1>2, <1>3, ExtractorAssumption DEF TypeOK
<1>5. messages \in [Jobs -> Conversation] /\ sent \in [Jobs -> Seq(Conversation)]
  BY <1>3 DEF Conversation
<1>6. ASSUME NEW j \in Jobs
      PROVE  Job(text[j], messages[j], attempt[j], outcome[j], sent[j], heard[j], remembered, limit)
  BY <1>3, FreshJob
<1> QED
  BY <1>4, <1>5, <1>6 DEF IInv

\* A step in which one job moves: its own values satisfy the invariant of a job, the
\* other jobs keep theirs, and the prompt is remembered once at most.
LEMMA OneJobMoves ==
    ASSUME IInv, NEW j \in Jobs,
           NEW t \in Texts \cup {None}, NEW ms \in Conversation, NEW at \in 0..ATTEMPTS,
           NEW o \in Outcomes \cup {None}, NEW calls \in Seq(Conversation),
           NEW answers \in Seq(Answers),
           text' = [text EXCEPT ![j] = t],
           messages' = [messages EXCEPT ![j] = ms],
           attempt' = [attempt EXCEPT ![j] = at],
           outcome' = [outcome EXCEPT ![j] = o],
           sent' = [sent EXCEPT ![j] = calls],
           heard' = [heard EXCEPT ![j] = answers],
           DOMAIN problems' = Jobs,
           limit' = limit,
           remembered' = remembered \/ remembered = None,
           remembered' \in Prompts \cup {None},
           prompt' \in Prompts \cup {None},
           Job(t, ms, at, o, calls, answers, remembered', limit')
    PROVE  IInv'
<1>1. /\ text \in [Jobs -> Texts \cup {None}]
      /\ attempt \in [Jobs -> 0..ATTEMPTS]
      /\ limit \in Nat \ {0}
      /\ heard \in [Jobs -> Seq(Answers)]
      /\ outcome \in [Jobs -> Outcomes \cup {None}]
      /\ messages \in [Jobs -> Conversation]
      /\ sent \in [Jobs -> Seq(Conversation)]
  BY DEF IInv, TypeOK
<1>2. /\ text' \in [Jobs -> Texts \cup {None}]
      /\ attempt' \in [Jobs -> 0..ATTEMPTS]
      /\ heard' \in [Jobs -> Seq(Answers)]
      /\ outcome' \in [Jobs -> Outcomes \cup {None}]
      /\ messages' \in [Jobs -> Conversation]
      /\ sent' \in [Jobs -> Seq(Conversation)]
  BY <1>1
<1>3. DOMAIN messages' = Jobs /\ DOMAIN sent' = Jobs
  BY <1>2
<1>4. TypeOK'
  BY <1>1, <1>2, <1>3 DEF TypeOK
<1>5. ASSUME NEW i \in Jobs
      PROVE  Job(text'[i], messages'[i], attempt'[i], outcome'[i], sent'[i], heard'[i],
                 remembered', limit')
  <2>1. CASE i = j
    <3>1. /\ text'[i] = t /\ messages'[i] = ms /\ attempt'[i] = at
          /\ outcome'[i] = o /\ sent'[i] = calls /\ heard'[i] = answers
      BY <1>1, <2>1
    <3> QED
      BY <3>1
  <2>2. CASE i # j
    <3>1. /\ text'[i] = text[i] /\ messages'[i] = messages[i] /\ attempt'[i] = attempt[i]
          /\ outcome'[i] = outcome[i] /\ sent'[i] = sent[i] /\ heard'[i] = heard[i]
      BY <1>1, <2>2
    <3>2. Job(text[i], messages[i], attempt[i], outcome[i], sent[i], heard[i], remembered, limit)
      BY DEF IInv
    <3>3. CASE remembered' = remembered
      BY <3>1, <3>2, <3>3
    <3>4. CASE remembered = None
      <4>1. sent[i] \in Seq(Conversation)
        BY <1>1
      <4>2. Job(text[i], messages[i], attempt[i], outcome[i], sent[i], heard[i], remembered', limit)
        BY <3>2, <3>4, <4>1, OtherJob
      <4> QED
        BY <3>1, <4>2
    <3> QED
      BY <3>3, <3>4
  <2> QED
    BY <2>1, <2>2
<1> QED
  BY <1>2, <1>4, <1>5 DEF IInv

\* Each step keeps the invariant: it moves one job, or the prompt, or starts anew.
LEMMA StepKeeps == IInv /\ [Next]_vars => IInv'
<1> SUFFICES ASSUME IInv, [Next]_vars
             PROVE  IInv'
  OBVIOUS
<1>1. /\ text \in [Jobs -> Texts \cup {None}]
      /\ attempt \in [Jobs -> 0..ATTEMPTS]
      /\ prompt \in Prompts \cup {None}
      /\ remembered \in Prompts \cup {None}
      /\ limit \in Nat \ {0}
      /\ heard \in [Jobs -> Seq(Answers)]
      /\ outcome \in [Jobs -> Outcomes \cup {None}]
      /\ messages \in [Jobs -> Conversation]
      /\ sent \in [Jobs -> Seq(Conversation)]
      /\ DOMAIN problems = Jobs
  BY DEF IInv, TypeOK
<1>2. ASSUME NEW j \in Jobs
      PROVE  /\ Job(text[j], messages[j], attempt[j], outcome[j], sent[j], heard[j], remembered, limit)
             /\ text[j] = None => outcome[j] = None /\ sent[j] = <<>> /\ heard[j] = <<>>
             /\ Waiting(j) => text[j] \in Texts
  BY <1>1 DEF IInv, Job, Waiting
<1>3. ASSUME NEW j \in Jobs, NEW t \in Texts, Start(j, t)
      PROVE  IInv'
  <2> DEFINE known == IF remembered # None THEN remembered ELSE prompt
             opening == <<System(known), User(Trim(t, limit))>>
  <2>1. /\ known \in Prompts
        /\ remembered' = known
        /\ text' = [text EXCEPT ![j] = t]
        /\ messages' = [messages EXCEPT ![j] = opening]
        /\ attempt' = [attempt EXCEPT ![j] = 1]
        /\ sent' = [sent EXCEPT ![j] = <<opening>>]
        /\ text[j] = None
        /\ UNCHANGED <<problems, outcome, prompt, limit, heard>>
    BY <1>1, <1>3 DEF Start
  <2>2. remembered' = remembered \/ remembered = None
    BY <2>1
  <2> HIDE DEF known
  <2>3. opening \in Conversation /\ Job(t, opening, 1, None, <<opening>>, <<>>, known, limit)
    BY <1>1, <2>1, StartedJob
  <2> HIDE DEF opening
  <2>4. <<opening>> \in Seq(Conversation) /\ <<>> \in Seq(Answers) /\ 1 \in 0..ATTEMPTS
    BY <2>3, ExtractorAssumption
  <2>5. outcome' = [outcome EXCEPT ![j] = None] /\ heard' = [heard EXCEPT ![j] = <<>>]
    BY <1>1, <1>2, <2>1
  <2>6. /\ limit' = limit /\ DOMAIN problems' = Jobs
        /\ prompt' \in Prompts \cup {None} /\ remembered' \in Prompts \cup {None}
    BY <1>1, <2>1
  <2>7. Job(t, opening, 1, None, <<opening>>, <<>>, remembered', limit')
    BY <2>1, <2>3, <2>6
  <2> QED
    BY <2>1, <2>2, <2>3, <2>4, <2>5, <2>6, <2>7, OneJobMoves
<1>4. ASSUME NEW j \in Jobs, NEW t \in Texts, StartCrashes(j, t)
      PROVE  IInv'
  <2> DEFINE o == Ended("crashed", None, {})
  <2>1. o \in Outcomes
    BY EndingsAreOutcomes
  <2>2. Job(t, messages[j], attempt[j], o, <<>>, <<>>, remembered', limit')
    BY CrashedJob
  <2> HIDE DEF o
  <2>3. /\ text' = [text EXCEPT ![j] = t]
        /\ outcome' = [outcome EXCEPT ![j] = o]
        /\ text[j] = None
        /\ UNCHANGED <<messages, attempt, problems, prompt, remembered, limit, sent, heard>>
    BY <1>4 DEF StartCrashes, o
  <2>7. text' = [text EXCEPT ![j] = t] /\ outcome' = [outcome EXCEPT ![j] = o]
    BY <2>3
  <2>4. /\ messages' = [messages EXCEPT ![j] = messages[j]]
        /\ attempt' = [attempt EXCEPT ![j] = attempt[j]]
        /\ sent' = [sent EXCEPT ![j] = <<>>]
        /\ heard' = [heard EXCEPT ![j] = <<>>]
    BY <1>1, <1>2, <2>3
  <2>5. messages[j] \in Conversation /\ attempt[j] \in 0..ATTEMPTS
        /\ <<>> \in Seq(Conversation) /\ <<>> \in Seq(Answers)
    BY <1>1
  <2>6. /\ limit' = limit /\ DOMAIN problems' = Jobs /\ remembered' = remembered
        /\ prompt' \in Prompts \cup {None} /\ remembered' \in Prompts \cup {None}
    BY <1>1, <2>3
  <2> QED
    BY <2>1, <2>2, <2>4, <2>5, <2>6, <2>7, OneJobMoves
<1>5. ASSUME NEW j \in Jobs, NEW a \in Answers, Accept(j, a)
      PROVE  IInv'
  <2> DEFINE o == Ended("invoice", InvoiceOf(a), {})
             now == Append(heard[j], a)
  <2>1. Waiting(j) /\ Fits(a) /\ text[j] \in Texts /\ outcome[j] = None
    BY <1>2, <1>5 DEF Accept, Waiting
  <2>2. InvoiceOf(a) \in AnswerType
    BY ExtractorAssumption DEF InvoiceOf, AnswerType
  <2>3. o \in Outcomes
    BY <2>2, EndingsAreOutcomes
  <2>4. /\ sent[j] \in Seq(Conversation) /\ heard[j] \in Seq(Answers)
        /\ messages[j] \in Conversation /\ attempt[j] \in 0..ATTEMPTS
    BY <1>1
  <2>5. Job(text[j], messages[j], attempt[j], o, sent[j], now, remembered, limit)
    BY <1>2, <2>1, <2>4, AcceptedJob
  <2>6. now \in Seq(Answers)
    BY <2>4
  <2>7. /\ heard' = [heard EXCEPT ![j] = now]
        /\ outcome' = [outcome EXCEPT ![j] = o]
        /\ UNCHANGED <<text, messages, attempt, problems, prompt, remembered, limit, sent>>
    BY <1>5 DEF Accept
  <2> HIDE DEF o, now
  <2>8. /\ text' = [text EXCEPT ![j] = text[j]]
        /\ messages' = [messages EXCEPT ![j] = messages[j]]
        /\ attempt' = [attempt EXCEPT ![j] = attempt[j]]
        /\ sent' = [sent EXCEPT ![j] = sent[j]]
    BY <1>1, <2>7
  <2>9. /\ limit' = limit /\ DOMAIN problems' = Jobs /\ remembered' = remembered
        /\ prompt' \in Prompts \cup {None} /\ remembered' \in Prompts \cup {None}
    BY <1>1, <2>7
  <2>10. Job(text[j], messages[j], attempt[j], o, sent[j], now, remembered', limit')
    BY <2>5, <2>9
  <2>11. heard' = [heard EXCEPT ![j] = now] /\ outcome' = [outcome EXCEPT ![j] = o]
    BY <2>7
  <2> QED
    BY <2>1, <2>3, <2>4, <2>6, <2>8, <2>9, <2>10, <2>11, OneJobMoves
<1>6. ASSUME NEW j \in Jobs, NEW a \in Answers, Refuse(j, a)
      PROVE  IInv'
  <2> DEFINE longer == messages[j] \o <<Assistant(a), Complaint(ProblemsOf(a))>>
             now == Append(heard[j], a)
  <2>1. Waiting(j) /\ ~Fits(a) /\ text[j] \in Texts /\ outcome[j] = None
    BY <1>2, <1>6 DEF Refuse, Waiting
  <2>2. /\ sent[j] \in Seq(Conversation) /\ heard[j] \in Seq(Answers)
        /\ messages[j] \in Conversation /\ attempt[j] \in 0..ATTEMPTS /\ attempt[j] \in Nat
    BY <1>1
  <2>3. longer \in Conversation
    BY <2>2, LongerIsConversation
  <2>4. now \in Seq(Answers)
    BY <2>2
  <2>5. Job(text[j], messages[j], attempt[j], None, sent[j], heard[j], remembered, limit)
    BY <1>2, <2>1
  <2>6. /\ heard' = [heard EXCEPT ![j] = now]
        /\ messages' = [messages EXCEPT ![j] = longer]
        /\ problems' = [problems EXCEPT ![j] = ProblemsOf(a)]
        /\ UNCHANGED <<text, prompt, remembered, limit>>
    BY <1>6 DEF Refuse
  <2>7. /\ text' = [text EXCEPT ![j] = text[j]]
        /\ limit' = limit /\ DOMAIN problems' = Jobs /\ remembered' = remembered
        /\ prompt' \in Prompts \cup {None} /\ remembered' \in Prompts \cup {None}
    BY <1>1, <2>6
  <2>8. ASSUME attempt[j] < ATTEMPTS,
               attempt' = [attempt EXCEPT ![j] = @ + 1],
               sent' = [sent EXCEPT ![j] = Append(@, longer)],
               UNCHANGED outcome
        PROVE  IInv'
    <3> DEFINE calls == Append(sent[j], longer)
    <3>1. Job(text[j], longer, attempt[j] + 1, None, calls, now, remembered, limit)
      BY <2>1, <2>2, <2>5, <2>8, AskedAgainJob
    <3> HIDE DEF longer, now
    <3>2. calls \in Seq(Conversation) /\ attempt[j] + 1 \in 0..ATTEMPTS
      BY <2>2, <2>3, <2>8, ExtractorAssumption
    <3>3. /\ attempt' = [attempt EXCEPT ![j] = attempt[j] + 1]
          /\ sent' = [sent EXCEPT ![j] = calls]
          /\ outcome' = [outcome EXCEPT ![j] = None]
      BY <1>1, <2>1, <2>8
    <3> HIDE DEF calls
    <3>4. Job(text[j], longer, attempt[j] + 1, None, calls, now, remembered', limit')
      BY <2>7, <3>1
    <3> QED
      BY <2>1, <2>3, <2>4, <2>6, <2>7, <3>2, <3>3, <3>4, OneJobMoves
  <2>9. ASSUME attempt[j] >= ATTEMPTS,
               outcome' = [outcome EXCEPT ![j] = Ended("extraction_failed", None, problems'[j])],
               UNCHANGED <<attempt, sent>>
        PROVE  IInv'
    <3> DEFINE o == Ended("extraction_failed", None, ProblemsOf(a))
    <3>1. problems'[j] = ProblemsOf(a)
      BY <1>1, <2>6
    <3>2. outcome' = [outcome EXCEPT ![j] = o]
      BY <2>9, <3>1
    <3>3. o \in Outcomes
      <4> DEFINE found == ProblemsOf(a)
      <4>1. found \in SUBSET Problems
        BY ProblemsAreProblems
      <4> HIDE DEF found
      <4>2. Ended("extraction_failed", None, found) \in Outcomes
        BY <4>1 DEF Ended, Outcomes, Problems
      <4> QED
        BY <4>2 DEF found
    <3>4. Job(text[j], longer, attempt[j], o, sent[j], now, remembered, limit)
      BY <2>1, <2>2, <2>5, <2>9, GivenUpJob
    <3> HIDE DEF longer, now, o
    <3>5. /\ attempt' = [attempt EXCEPT ![j] = attempt[j]]
          /\ sent' = [sent EXCEPT ![j] = sent[j]]
      BY <1>1, <2>9
    <3>6. Job(text[j], longer, attempt[j], o, sent[j], now, remembered', limit')
      BY <2>7, <3>4
    <3> QED
      BY <2>1, <2>2, <2>3, <2>4, <2>6, <2>7, <3>2, <3>3, <3>5, <3>6, OneJobMoves
  <2> QED
    BY <1>6, <2>8, <2>9 DEF Refuse
<1>7. ASSUME NEW j \in Jobs, ProviderFails(j)
      PROVE  IInv'
  <2> DEFINE o == Ended("llm_request_failed", None, {})
  <2>1. Waiting(j) /\ text[j] \in Texts /\ outcome[j] = None
    BY <1>2, <1>7 DEF ProviderFails, Waiting
  <2>2. o \in Outcomes
    BY EndingsAreOutcomes
  <2>3. /\ sent[j] \in Seq(Conversation) /\ heard[j] \in Seq(Answers)
        /\ messages[j] \in Conversation /\ attempt[j] \in 0..ATTEMPTS
    BY <1>1
  <2>4. Job(text[j], messages[j], attempt[j], o, sent[j], heard[j], remembered, limit)
    BY <1>2, <2>1, <2>3, UnansweredJob
  <2>5. /\ outcome' = [outcome EXCEPT ![j] = o]
        /\ UNCHANGED <<text, messages, attempt, problems, prompt, remembered, limit, sent, heard>>
    BY <1>7 DEF ProviderFails
  <2> HIDE DEF o
  <2>6. /\ text' = [text EXCEPT ![j] = text[j]]
        /\ messages' = [messages EXCEPT ![j] = messages[j]]
        /\ attempt' = [attempt EXCEPT ![j] = attempt[j]]
        /\ sent' = [sent EXCEPT ![j] = sent[j]]
        /\ heard' = [heard EXCEPT ![j] = heard[j]]
    BY <1>1, <2>5
  <2>7. /\ limit' = limit /\ DOMAIN problems' = Jobs /\ remembered' = remembered
        /\ prompt' \in Prompts \cup {None} /\ remembered' \in Prompts \cup {None}
    BY <1>1, <2>5
  <2>8. Job(text[j], messages[j], attempt[j], o, sent[j], heard[j], remembered', limit')
    BY <2>4, <2>7
  <2>9. outcome' = [outcome EXCEPT ![j] = o]
    BY <2>5
  <2> QED
    BY <2>1, <2>2, <2>3, <2>6, <2>7, <2>8, <2>9, OneJobMoves
<1>8. ASSUME NEW p \in Prompts \cup {None}, EditPrompt(p)
      PROVE  IInv'
  BY <1>8 DEF EditPrompt, IInv, TypeOK
<1>9. ASSUME Restart
      PROVE  IInv'
  <2>1. TypeOK'
    BY <1>1, <1>9, ExtractorAssumption DEF Restart, TypeOK
  <2>2. (messages \in [Jobs -> Conversation] /\ sent \in [Jobs -> Seq(Conversation)])'
    BY <1>9 DEF Restart, Conversation
  <2>3. ASSUME NEW j \in Jobs
        PROVE  Job(text'[j], messages'[j], attempt'[j], outcome'[j], sent'[j], heard'[j],
                   remembered', limit')
    BY <1>9, FreshJob DEF Restart
  <2> QED
    BY <2>1, <2>2, <2>3 DEF IInv
<1>10. CASE UNCHANGED vars
  BY <1>10 DEF vars, IInv, TypeOK
<1>11. ASSUME NEW s \in Sources, NEW n \in Lengths
       PROVE  [of |-> s, chars |-> n] \in Texts
  BY ExtractorAssumption DEF Texts
<1> QED
  BY <1>3, <1>4, <1>5, <1>6, <1>7, <1>8, <1>9, <1>10, <1>11 DEF Next, CallEnds

\* The invariant holds in every state.
LEMMA AlwaysIInv == Spec => []IInv
  BY InitHolds, StepKeeps, PTL DEF Spec

-----------------------------------------------------------------------------
\* Type correctness: in particular the loop counter never passes ATTEMPTS.
THEOREM TypeCorrect == Spec => []TypeOK
<1>1. IInv => TypeOK
  BY DEF IInv
<1> QED
  BY <1>1, AlwaysIInv, PTL

\* InvoiceExtractor.extract never pays for more than ATTEMPTS calls, and for another
\* one only after a refused answer.
THEOREM OnlyRefusalsCostAnotherCall == Spec => []PaysOnlyForRefusals
<1>1. IInv => PaysOnlyForRefusals
  BY DEF IInv, Job, PaysOnlyForRefusals
<1> QED
  BY <1>1, AlwaysIInv, PTL

\* A retry is the conversation so far, the refused answer and what was wrong with it;
\* nothing of another job finds its way into it, and the prompt is that of the run.
THEOREM RetriesQuoteTheirOwnRefusal == Spec => [](RetryQuotesTheRefusal /\ OnePromptPerRun)
<1>1. IInv => RetryQuotesTheRefusal
  BY DEF IInv, Job, RetryQuotesTheRefusal
<1>2. IInv => OnePromptPerRun
  <2> SUFFICES ASSUME IInv, NEW i \in Jobs, NEW j \in Jobs, sent[i] # <<>>, sent[j] # <<>>
               PROVE  sent[i][1][1] = sent[j][1][1]
    BY DEF OnePromptPerRun
  <2>1. ASSUME NEW k \in Jobs, sent[k] # <<>>
        PROVE  sent[k][1] = <<System(remembered), User(Trim(text[k], limit))>>
    <3>1. sent[k] \in Seq(Conversation)
          /\ QuotesTheRefusals(text[k], sent[k], heard[k], remembered, limit)
      BY DEF IInv, Job
    <3>2. 1 \in 1..Len(sent[k])
      BY <2>1, <3>1
    <3> QED
      BY <3>1, <3>2 DEF QuotesTheRefusals
  <2>2. sent[i][1][1] = System(remembered) /\ sent[j][1][1] = System(remembered)
    BY <2>1
  <2> QED
    BY <2>2
<1> QED
  BY <1>1, <1>2, AlwaysIInv, PTL

\* A job ends with an invoice only if its last answer is that invoice, and fails only
\* after ATTEMPTS refusals, with the problems of the last.
THEOREM EndsAsItsAnswersSay == Spec => []OutcomeIsTheLastAnswer
<1>1. IInv => OutcomeIsTheLastAnswer
  BY DEF IInv, Job, OutcomeIsTheLastAnswer
<1> QED
  BY <1>1, AlwaysIInv, PTL

-----------------------------------------------------------------------------
\* What follows the prompt in every call of a job is the job's own text, trimmed.
OwnText(t, ms, calls, n) ==
    calls # <<>> =>
        /\ Len(ms) >= 2 /\ ms[2] = User(Trim(t, n))
        /\ \A k \in 1..Len(calls) : calls[k][2] = User(Trim(t, n))

AboutOwnText == \A j \in Jobs : OwnText(text[j], messages[j], sent[j], limit)

\* A call more, whose conversation goes on from the last one.
LEMMA LongerIsAboutOwnText ==
    ASSUME NEW t, NEW ms \in Conversation, NEW calls \in Seq(Conversation), NEW n,
           NEW more \in Seq(Message), calls # <<>>, OwnText(t, ms, calls, n)
    PROVE  /\ OwnText(t, ms \o more, calls, n)
           /\ OwnText(t, ms \o more, Append(calls, ms \o more), n)
<1> DEFINE longer == ms \o more
           now == Append(calls, longer)
<1>1. ms \in Seq(Message)
  BY DEF Conversation
<1>2. /\ Len(ms) \in Nat /\ Len(ms) >= 2 /\ ms[2] = User(Trim(t, n))
      /\ \A k \in 1..Len(calls) : calls[k][2] = User(Trim(t, n))
  BY <1>1 DEF OwnText
<1>3. longer \in Seq(Message) /\ Len(longer) = Len(ms) + Len(more) /\ Len(longer) >= 2
  BY <1>1, <1>2
<1>4. longer[2] = User(Trim(t, n))
  BY <1>1, <1>2
<1>5. Len(now) = Len(calls) + 1 /\ \A k \in 1..Len(calls) : now[k] = calls[k]
  OBVIOUS
<1>6. now[Len(calls) + 1] = longer
  OBVIOUS
<1> HIDE DEF longer, now
<1>7. \A k \in 1..Len(now) : now[k][2] = User(Trim(t, n))
  BY <1>2, <1>4, <1>5, <1>6
<1> QED
  BY <1>2, <1>3, <1>4, <1>7 DEF OwnText, longer, now

\* A call about a job's own text stays one, and each new call is one.
LEMMA OwnTextStep == IInv /\ AboutOwnText /\ [Next]_vars => AboutOwnText'
<1> SUFFICES ASSUME IInv, AboutOwnText, [Next]_vars, NEW i \in Jobs
             PROVE  OwnText(text'[i], messages'[i], sent'[i], limit')
  BY DEF AboutOwnText
<1>1. /\ text \in [Jobs -> Texts \cup {None}]
      /\ messages \in [Jobs -> Conversation] /\ sent \in [Jobs -> Seq(Conversation)]
  BY DEF IInv, TypeOK
<1>2. /\ OwnText(text[i], messages[i], sent[i], limit)
      /\ text[i] = None => sent[i] = <<>>
      /\ Waiting(i) => sent[i] # <<>>
  <2>1. Job(text[i], messages[i], attempt[i], outcome[i], sent[i], heard[i], remembered, limit)
    BY DEF IInv
  <2>2. Waiting(i) => Len(sent[i]) = Len(heard[i]) + 1 /\ Len(heard[i]) \in Nat
    BY <2>1 DEF Job, OnTheLine, Waiting, IInv, TypeOK
  <2>3. Waiting(i) => sent[i] # <<>>
    BY <2>2
  <2> QED
    BY <2>1, <2>3 DEF Job, AboutOwnText
<1>3. ASSUME NEW j \in Jobs, NEW t, Start(j, t)
      PROVE  OwnText(text'[i], messages'[i], sent'[i], limit')
  <2>1. CASE i = j
    <3>1. PICK opening \in {<<System(p), User(Trim(t, limit))>> : p \in {remembered, prompt}} :
             /\ messages' = [messages EXCEPT ![j] = opening]
             /\ sent' = [sent EXCEPT ![j] = <<opening>>]
             /\ text' = [text EXCEPT ![j] = t]
             /\ limit' = limit
      BY <1>3 DEF Start
    <3>2. opening[2] = User(Trim(t, limit)) /\ Len(opening) = 2
      OBVIOUS
    <3>3. messages'[i] = opening /\ sent'[i] = <<opening>> /\ text'[i] = t
      BY <1>1, <2>1, <3>1
    <3> QED
      BY <3>1, <3>2, <3>3 DEF OwnText
  <2>2. CASE i # j
    BY <1>1, <1>2, <1>3, <2>2 DEF Start
  <2> QED
    BY <2>1, <2>2
<1>4. ASSUME NEW j \in Jobs, NEW t, StartCrashes(j, t)
      PROVE  OwnText(text'[i], messages'[i], sent'[i], limit')
  <2>1. messages' = messages /\ sent' = sent /\ limit' = limit
    BY <1>4 DEF StartCrashes
  <2>2. CASE i = j
    BY <1>2, <1>4, <2>1, <2>2 DEF StartCrashes, OwnText
  <2>3. CASE i # j
    BY <1>1, <1>2, <1>4, <2>1, <2>3 DEF StartCrashes
  <2> QED
    BY <2>2, <2>3
<1>5. ASSUME NEW j \in Jobs, NEW a \in Answers, Refuse(j, a)
      PROVE  OwnText(text'[i], messages'[i], sent'[i], limit')
  <2> DEFINE more == <<Assistant(a), Complaint(ProblemsOf(a))>>
  <2>1. /\ messages' = [messages EXCEPT ![j] = messages[j] \o more]
        /\ sent' = sent \/ sent' = [sent EXCEPT ![j] = Append(@, messages[j] \o more)]
        /\ text' = text /\ limit' = limit
        /\ Waiting(j)
    BY <1>5 DEF Refuse
  <2>2. more \in Seq(Message)
    BY ProblemsAreProblems DEF Assistant, Complaint, User, Message, Problems
  <2> HIDE DEF more
  <2>3. CASE i = j
    <3>1. /\ messages[i] \in Conversation /\ sent[i] \in Seq(Conversation) /\ sent[i] # <<>>
      BY <1>1, <1>2, <2>1, <2>3
    <3>2. /\ OwnText(text[i], messages[i] \o more, sent[i], limit)
          /\ OwnText(text[i], messages[i] \o more, Append(sent[i], messages[i] \o more), limit)
      BY <1>2, <2>2, <3>1, LongerIsAboutOwnText
    <3>3. /\ messages'[i] = messages[i] \o more
          /\ sent'[i] = sent[i] \/ sent'[i] = Append(sent[i], messages[i] \o more)
      BY <1>1, <2>1, <2>3
    <3> QED
      BY <2>1, <3>2, <3>3
  <2>4. CASE i # j
    <3>1. messages'[i] = messages[i] /\ sent'[i] = sent[i]
      BY <1>1, <2>1, <2>4
    <3> QED
      BY <1>2, <2>1, <3>1
  <2> QED
    BY <2>3, <2>4
<1>6. CASE UNCHANGED <<text, messages, sent, limit>>
  BY <1>2, <1>6
<1>7. CASE Restart
  BY <1>7 DEF Restart, OwnText
<1>8. ASSUME NEW j \in Jobs, ProviderFails(j) \/ \E a \in Answers : Accept(j, a)
      PROVE  UNCHANGED <<text, messages, sent, limit>>
  BY <1>8 DEF ProviderFails, Accept
<1>9. ASSUME NEW p, EditPrompt(p)
      PROVE  UNCHANGED <<text, messages, sent, limit>>
  BY <1>9 DEF EditPrompt
<1>10. UNCHANGED vars => UNCHANGED <<text, messages, sent, limit>>
  BY DEF vars
<1> QED
  BY <1>3, <1>4, <1>5, <1>6, <1>7, <1>8, <1>9, <1>10 DEF Next, CallEnds

\* However often the model is asked, and whatever it answered, every call of a job
\* carries the job's own text, trimmed to the limit, right after the prompt.
THEOREM CallsAreAboutTheOwnText == Spec => []AboutOwnText
<1>1. Init => AboutOwnText
  BY DEF Init, AboutOwnText, OwnText
<1> QED
  BY <1>1, AlwaysIInv, OwnTextStep, PTL DEF Spec
=============================================================================
