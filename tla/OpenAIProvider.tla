--------------------------- MODULE OpenAIProvider ---------------------------
(***************************************************************************)
(* OpenAIProvider (src/src/extract/openai.py): one call to the model over  *)
(* HTTP.  The client is given one timeout, and httpx holds it against      *)
(* every operation on the wire (connect, write, read) on its own: a call   *)
(* ends with the text of the answer, or with LlmRequestError.              *)
(***************************************************************************)
EXTENDS Integers

CONSTANTS
    Texts,          \* what the model may answer
    Statuses,       \* the HTTP statuses the endpoint may answer with
    RawTimeouts,    \* what OPENAI_TIMEOUT_SECONDS may be
    Forever,        \* of these: inf, which float() reads as a number
    Nonsense,       \* and: unset, no number, or nan
    DEFAULT_TIMEOUT_SECONDS,
    MaxOperations   \* bound: the operations on the wire that one call takes

ASSUME OpenAIProviderAssumption ==
    /\ Statuses \subseteq Nat
    /\ RawTimeouts \subseteq Int \cup {Forever, Nonsense}
    /\ Forever \notin Int /\ Nonsense \notin Int
    /\ DEFAULT_TIMEOUT_SECONDS \in Nat \ {0}
    /\ MaxOperations \in Nat

VARIABLES
    timeout,    \* _timeout
    phase,      \* what the client is at, "idle" before and after the call
    operations, \* history: the operations of this call that are done
    silent,     \* how long the operation in progress has taken
    age,        \* history: how long the call has taken
    outcome     \* what the last call ended with

vars == <<timeout, phase, operations, silent, age, outcome>>

\* Mutant: a timeout of zero is taken.
_timeout_unless_nonsense(raw) ==
    IF raw \in {Nonsense} THEN DEFAULT_TIMEOUT_SECONDS ELSE raw

_timeout_from_env(raw) ==
    IF raw \notin {Forever} /\ (raw \in {Nonsense} \/ raw <= 0) THEN DEFAULT_TIMEOUT_SECONDS ELSE raw

Pending == [kind |-> "pending"]
LlmRequestError == [kind |-> "error"]
Answered(text) == [kind |-> "answered", text |-> text]

\* What the endpoint sends back: no JSON, JSON of another shape, one without a text, or
\* an envelope with a text in it.
Enveloped(text) == [holds |-> "text", text |-> text]
Envelopes == {[holds |-> odd] : odd \in {"no json", "no choices", "no text"}}
                \cup {Enveloped(text) : text \in Texts}

_answer_of(envelope) ==
    IF envelope.holds = "text" THEN Answered(envelope.text) ELSE LlmRequestError

Init ==
    /\ timeout \in {_timeout_from_env(raw) : raw \in RawTimeouts}
    /\ phase = "idle"
    /\ operations = 0 /\ silent = 0 /\ age = 0
    /\ outcome = Pending

Begin ==
    /\ phase = "idle"
    /\ phase' = "connecting"
    /\ outcome' = Pending
    /\ UNCHANGED <<timeout, operations, silent, age>>

\* An operation is done, and another one of its kind or of the next kind begins.
Progress ==
    /\ phase # "idle"
    /\ operations < MaxOperations
    /\ \/ UNCHANGED phase
       \/ phase = "connecting" /\ phase' = "sending"
       \/ phase = "sending" /\ phase' = "reading"
    /\ operations' = operations + 1
    /\ silent' = 0
    /\ UNCHANGED <<timeout, age, outcome>>

Tick ==
    /\ phase # "idle"
    /\ timeout # Forever
    /\ silent < timeout
    /\ silent' = silent + 1
    /\ age' = age + 1
    /\ UNCHANGED <<timeout, phase, operations, outcome>>

EndsWith(result) ==
    /\ phase' = "idle"
    /\ operations' = 0 /\ silent' = 0 /\ age' = 0
    /\ outcome' = result
    /\ UNCHANGED timeout

\* The whole response is there; a redirect is not followed, and is below 400.
Respond(status, envelope) ==
    /\ phase = "reading"
    /\ EndsWith(IF status >= 400 THEN LlmRequestError ELSE _answer_of(envelope))

TransportFails ==
    /\ phase # "idle"
    /\ EndsWith(LlmRequestError)

\* Mutants: a call that timed out is tried again; reading has no limit.
TimesOutAndTriesAgain ==
    /\ phase # "idle"
    /\ silent = timeout
    /\ phase' = "connecting" /\ silent' = 0
    /\ UNCHANGED <<timeout, operations, age, outcome>>
TimesOutUnlessReading ==
    /\ phase \in {"connecting", "sending"}
    /\ silent = timeout
    /\ EndsWith(LlmRequestError)

TimesOut ==
    /\ phase # "idle"
    /\ silent = timeout
    /\ EndsWith(LlmRequestError)

Next ==
    \/ Begin
    \/ Progress
    \/ Tick
    \/ \E status \in Statuses, envelope \in Envelopes : Respond(status, envelope)
    \/ TransportFails
    \/ TimesOut

\* Time passes, and the limit is enforced when it is reached.
Fairness == WF_vars(Tick) /\ WF_vars(TimesOut)

Spec == Init /\ [][Next]_vars
FairSpec == Spec /\ Fairness

-----------------------------------------------------------------------------
TypeOK ==
    /\ timeout \in (Nat \ {0}) \cup {Forever}
    /\ phase \in {"idle", "connecting", "sending", "reading"}
    /\ operations \in 0..MaxOperations
    /\ silent \in Nat /\ age \in Nat
    /\ outcome \in {Pending, LlmRequestError} \cup {Answered(text) : text \in Texts}
    /\ phase # "idle" => outcome = Pending

\* A call takes the timeout once for every operation on the wire, and no more: it is not
\* tried again.  (It does not end within one timeout: an endpoint that trickles its
\* answer renews the limit with every byte.)
CallIsBounded ==
    phase # "idle" /\ timeout # Forever => age <= (operations + 1) * timeout

\* A call ends, whatever the endpoint leaves undone, when it takes finitely many
\* operations and the timeout is a number of seconds: with inf there is no limit at all.
EveryCallEnds ==
    (phase # "idle" /\ timeout # Forever) ~> phase = "idle"
=============================================================================
