------------------------------ MODULE Delivery ------------------------------
(***************************************************************************)
(* Handing an invoice on (src/src/adapters): ERPAdapter.send, the gate all *)
(* adapters share, with the adapter that writes two files and the one that *)
(* posts to a receiver.  The callers are external; several sends run       *)
(* concurrently, may be of the same invoice object, and suspend only while *)
(* the receiver is answering.  Meanwhile anybody may change the object.    *)
(***************************************************************************)
EXTENDS Naturals

CONSTANTS
    Sends,          \* the calls of send() that may be in progress
    Objects,        \* the Invoice objects, which are mutable
    Documents,      \* what such an object may say
    Valid,          \* the documents that break no rule
    Unroundable,    \* the documents with an amount check() cannot round
    Stems, StemOf,  \* safe_stem: many numbers, and so documents, share a file name
    Statuses,       \* what the receiver may answer
    Torn,           \* a file that was opened and not written to its end
    None

\* How send() may end ("crashed": in an exception that is no InvoiceError), and what is
\* known of the last files written under a name.
Outcomes == {"delivered", "invoice_not_valid", "adapter_failed", "crashed"}
Endings == [of : Documents, reported : BOOLEAN]

ASSUME DeliveryAssumption ==
    /\ Valid \subseteq Documents
    /\ Unroundable \subseteq Documents \ Valid
    /\ StemOf \in [Documents -> Stems]
    /\ Statuses \subseteq Nat
    /\ Torn \notin Documents
    /\ None \notin Documents \cup Objects \cup Outcomes \cup Endings \cup {Torn}

VARIABLES
    object,     \* object[i]: what object i says now
    sending,    \* sending[s]: the object send() was called with
    body,       \* body[s]: the document rendered for the receiver
    arrived,    \* arrived[s]: the document the receiver took from s
    outcome,    \* outcome[s]: how send() ended
    xml, json,  \* xml[n], json[n]: the files under the stem n
    checked,    \* history: checked[s], what the object said when send() was called
    last        \* history: last[n], the last files written under n, and how that ended

vars == <<object, sending, body, arrived, outcome, xml, json, checked, last>>

Idle(s) == sending[s] = None
Posting(s) == sending[s] # None /\ outcome[s] = None

Init ==
    /\ object \in [Objects -> Documents]
    /\ sending = [s \in Sends |-> None]
    /\ body = [s \in Sends |-> None]
    /\ arrived = [s \in Sends |-> None]
    /\ outcome = [s \in Sends |-> None]
    /\ xml = [n \in Stems |-> None]
    /\ json = [n \in Stems |-> None]
    /\ checked = [s \in Sends |-> None]
    /\ last = [n \in Stems |-> None]

\* send(), up to the verdict of check().
Called(s, i) ==
    /\ Idle(s)
    /\ sending' = [sending EXCEPT ![s] = i]
    /\ checked' = [checked EXCEPT ![s] = object[i]]

\* Mutant: the refusal is logged and not raised.
RefusedQuietly(s, i) ==
    /\ Called(s, i)
    /\ object[i] \notin Valid \cup Unroundable
    /\ UNCHANGED <<object, body, arrived, outcome, xml, json, last>>

\* The invoice breaks rules: InvoiceNotValidError.
Refused(s, i) ==
    /\ Called(s, i)
    /\ object[i] \notin Valid \cup Unroundable
    /\ outcome' = [outcome EXCEPT ![s] = "invoice_not_valid"]
    /\ UNCHANGED <<object, body, arrived, xml, json, last>>

\* An exception ends send() with nothing delivered: check() cannot round an amount; or,
\* of a valid invoice, a renderer cannot, or the receiver's URL is none (InvalidURL).
Raises(s, i) ==
    /\ Called(s, i)
    /\ object[i] \in Valid \cup Unroundable
    /\ outcome' = [outcome EXCEPT ![s] = "crashed"]
    /\ UNCHANGED <<object, body, arrived, xml, json, last>>

\* The two files of one delivery, written one after the other; each is emptied when
\* it is opened.  How far that gets:
Progress == {"nothing", "xml torn", "xml only", "json torn", "both"}
Written(d, done) ==
    LET n == StemOf[d]
    IN  /\ xml' = CASE done = "nothing" -> xml
                    [] done = "xml torn" -> [xml EXCEPT ![n] = Torn]
                    [] OTHER -> [xml EXCEPT ![n] = d]
        /\ json' = CASE done = "both" -> [json EXCEPT ![n] = d]
                     [] done = "json torn" -> [json EXCEPT ![n] = Torn]
                     [] OTHER -> json

Recorded(d, done, reported) ==
    last' = IF done = "nothing" THEN last
            ELSE [last EXCEPT ![StemOf[d]] = [of |-> d, reported |-> reported]]

\* Mutant: a file that cannot be written is passed over.
FilesSwallowErrors(s, i) ==
    \E done \in Progress :
        /\ Called(s, i)
        /\ object[i] \in Valid
        /\ Written(object[i], done)
        /\ Recorded(object[i], done, TRUE)
        /\ outcome' = [outcome EXCEPT ![s] = "delivered"]
        /\ UNCHANGED <<object, body, arrived>>

\* FileAdapter.deliver: nothing suspends it; a disk that fails, or between the files an
\* amount that cannot be rounded for the JSON, ends it half way.
Files(s, i) ==
    \E done \in Progress :
        /\ Called(s, i)
        /\ object[i] \in Valid
        /\ Written(object[i], done)
        /\ Recorded(object[i], done, done = "both")
        /\ outcome' = [outcome EXCEPT ![s] = IF done = "both" THEN "delivered" ELSE "crashed"]
        /\ UNCHANGED <<object, body, arrived>>

\* Mutant: the gate is passed without a look.
PostUnchecked(s, i) ==
    /\ Called(s, i)
    /\ body' = [body EXCEPT ![s] = object[i]]
    /\ UNCHANGED <<object, arrived, outcome, xml, json, last>>

\* MockErpAdapter.deliver: the body is rendered, then the request suspends.
Post(s, i) ==
    /\ Called(s, i)
    /\ object[i] \in Valid
    /\ body' = [body EXCEPT ![s] = object[i]]
    /\ UNCHANGED <<object, arrived, outcome, xml, json, last>>

\* Mutant: the object is rendered when the connection is there.
ReceiverTakesTheObject(s) ==
    /\ Posting(s) /\ arrived[s] = None
    /\ arrived' = [arrived EXCEPT ![s] = object[sending[s]]]
    /\ UNCHANGED <<object, sending, body, outcome, xml, json, checked, last>>

\* The receiver takes the document; whether its answer makes it back is another matter.
ReceiverTakes(s) ==
    /\ Posting(s) /\ arrived[s] = None
    /\ arrived' = [arrived EXCEPT ![s] = body[s]]
    /\ UNCHANGED <<object, sending, body, outcome, xml, json, checked, last>>

\* An answer; a receiver that answers 2xx has taken the document.
Answered(s, status) ==
    /\ Posting(s)
    /\ status \in 200..299 => arrived[s] # None
    /\ outcome' = [outcome EXCEPT ![s] = IF status >= 400 THEN "adapter_failed" ELSE "delivered"]
    /\ UNCHANGED <<object, sending, body, arrived, xml, json, checked, last>>

\* No answer: the connection failed, before or after the document arrived.
Unreachable(s) ==
    /\ Posting(s)
    /\ outcome' = [outcome EXCEPT ![s] = "adapter_failed"]
    /\ UNCHANGED <<object, sending, body, arrived, xml, json, checked, last>>

Forgotten(s) == /\ sending' = [sending EXCEPT ![s] = None]
                /\ body' = [body EXCEPT ![s] = None]
                /\ arrived' = [arrived EXCEPT ![s] = None]
                /\ outcome' = [outcome EXCEPT ![s] = None]
                /\ checked' = [checked EXCEPT ![s] = None]

\* The caller has its answer, and may call again.
Leave(s) ==
    /\ outcome[s] # None
    /\ Forgotten(s)
    /\ UNCHANGED <<object, xml, json, last>>

\* Somebody corrects the invoice, or fills the object with another one.
Edit(i, d) ==
    /\ object' = [object EXCEPT ![i] = d]
    /\ UNCHANGED <<sending, body, arrived, outcome, xml, json, checked, last>>

\* The process dies, possibly between the two files; the disk stays as it is.
Die ==
    /\ \/ \E i \in Objects, done \in Progress :
             /\ object[i] \in Valid
             /\ Written(object[i], done)
             /\ Recorded(object[i], done, FALSE)
       \/ UNCHANGED <<xml, json, last>>
    /\ object' \in [Objects -> Documents]
    /\ sending' = [s \in Sends |-> None]
    /\ body' = [s \in Sends |-> None]
    /\ arrived' = [s \in Sends |-> None]
    /\ outcome' = [s \in Sends |-> None]
    /\ checked' = [s \in Sends |-> None]

Next ==
    \/ \E s \in Sends, i \in Objects :
          Refused(s, i) \/ Raises(s, i) \/ Files(s, i) \/ Post(s, i)
    \/ \E s \in Sends : ReceiverTakes(s) \/ Unreachable(s) \/ Leave(s)
    \/ \E s \in Sends, status \in Statuses : Answered(s, status)
    \/ \E i \in Objects, d \in Documents : Edit(i, d)
    \/ Die

Spec == Init /\ [][Next]_vars

-----------------------------------------------------------------------------
TypeOK ==
    /\ object \in [Objects -> Documents]
    /\ sending \in [Sends -> Objects \cup {None}]
    /\ body \in [Sends -> Documents \cup {None}]
    /\ arrived \in [Sends -> Documents \cup {None}]
    /\ checked \in [Sends -> Documents \cup {None}]
    /\ xml \in [Stems -> Documents \cup {None, Torn}]
    /\ json \in [Stems -> Documents \cup {None, Torn}]
    /\ outcome \in [Sends -> Outcomes \cup {None}]
    /\ last \in [Stems -> Endings \cup {None}]
    /\ \A s \in Sends :
          /\ Posting(s) => body[s] # None
          /\ arrived[s] # None => body[s] # None

\* "An invoice that fails the checks is never delivered" (README.md:124): not to a
\* file, not to the receiver, although invoices are edited while sends are suspended.
OnlyValidLeaves ==
    /\ \A n \in Stems : {xml[n], json[n]} \subseteq Valid \cup {None, Torn}
    /\ \A s \in Sends : arrived[s] \in Valid \cup {None}

\* What the receiver has of a send is what was checked, and reported as delivered is
\* only what it has.
ReceiverHasWhatWasChecked ==
    \A s \in Sends :
        /\ arrived[s] # None => arrived[s] = checked[s]
        /\ body[s] # None /\ outcome[s] = "delivered" => arrived[s] # None

\* The two files of a stem agree, and are the last delivery made under it, unless that
\* delivery ended in an error or with the process: they never differ silently.
FilesAgreeIfReported ==
    \A n \in Stems :
        /\ last[n] = None => xml[n] = None /\ json[n] = None
        /\ last[n] # None /\ last[n].reported => xml[n] = last[n].of /\ json[n] = last[n].of

-----------------------------------------------------------------------------
\* src/src/adapters/mock_erp.py:28: "insists on being told it arrived".
ToldItArrived ==
    \A s \in Sends : body[s] # None /\ outcome[s] = "delivered" => arrived[s] # None
=============================================================================
