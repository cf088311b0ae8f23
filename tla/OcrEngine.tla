----------------------------- MODULE OcrEngine -----------------------------
(***************************************************************************)
(* What an OCR engine promises to the code that awaits its read() (the     *)
(* abstract base class of src/src/ocr/base.py): a reader asks for a file   *)
(* and gets, once, either a reading the tools really produced for that     *)
(* very file in this run of the service, or a failure.  How the reading is *)
(* obtained, and whether it is remembered, is left open.                   *)
(***************************************************************************)
CONSTANTS
    Readers,    \* the requests that may have a read in progress
    Files,      \* file contents: two uploads with the same bytes are one file
    Takes,      \* tells two readings of one file apart
    None,       \* no file asked for, no answer yet
    Failed      \* the read ended with an exception

VARIABLES
    file,       \* file[r]: the file reader r has asked for
    got,        \* got[r]: what reader r was answered
    produced    \* every reading the tools have produced in this run

vars == <<file, got, produced>>

\* An OcrResult, reduced to the file it was read from and which reading it is.
Readings == [of : Files, take : Takes]

TypeOK ==
    /\ file \in [Readers -> Files \cup {None}]
    /\ got \in [Readers -> Readings \cup {None, Failed}]
    /\ produced \subseteq Readings

Idle(r) == file[r] = None
Reading(r) == file[r] # None /\ got[r] = None

Init ==
    /\ file = [r \in Readers |-> None]
    /\ got = [r \in Readers |-> None]
    /\ produced = {}

\* The reader suspends: the tools have to run.
Ask(r, f) ==
    /\ Idle(r)
    /\ file' = [file EXCEPT ![r] = f]
    /\ UNCHANGED <<got, produced>>

\* The reader is answered before it ever suspends, with a reading that exists.
AnswerAtOnce(r, f, t) ==
    /\ Idle(r)
    /\ [of |-> f, take |-> t] \in produced
    /\ file' = [file EXCEPT ![r] = f]
    /\ got' = [got EXCEPT ![r] = [of |-> f, take |-> t]]
    /\ UNCHANGED produced

\* The tools finish, and their reading is the answer.
Answer(r, t) ==
    /\ Reading(r)
    /\ got' = [got EXCEPT ![r] = [of |-> file[r], take |-> t]]
    /\ produced' = produced \cup {[of |-> file[r], take |-> t]}
    /\ UNCHANGED file

Fail(r) ==
    /\ Reading(r)
    /\ got' = [got EXCEPT ![r] = Failed]
    /\ UNCHANGED <<file, produced>>

\* The reader takes its answer and is gone.
Leave(r) ==
    /\ got[r] # None
    /\ file' = [file EXCEPT ![r] = None]
    /\ got' = [got EXCEPT ![r] = None]
    /\ UNCHANGED produced

\* The process dies and comes back with nothing.
Restart ==
    /\ file' = [r \in Readers |-> None]
    /\ got' = [r \in Readers |-> None]
    /\ produced' = {}

Next ==
    \/ \E r \in Readers, f \in Files :
          Ask(r, f) \/ \E t \in Takes : AnswerAtOnce(r, f, t)
    \/ \E r \in Readers : Fail(r) \/ Leave(r) \/ \E t \in Takes : Answer(r, t)
    \/ Restart

Spec == Init /\ [][Next]_vars
=============================================================================
