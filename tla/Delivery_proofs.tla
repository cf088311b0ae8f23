-------------------------- MODULE Delivery_proofs --------------------------
(***************************************************************************)
(* Proofs about delivery, for any number of sends, objects, documents and  *)
(* file names: only valid invoices leave, what the receiver has is what    *)
(* was checked, and the two files of a delivery never differ silently.     *)
(***************************************************************************)
EXTENDS Delivery, TLAPS

\* A place that is free has nothing of the send before.
IdleIsClean ==
    \A s \in Sends : Idle(s) => body[s] = None /\ arrived[s] = None /\ outcome[s] = None

\* What was rendered is what was checked, and was found valid; what arrived was rendered.
RenderedWasChecked ==
    \A s \in Sends :
        /\ body[s] # None => body[s] = checked[s] /\ body[s] \in Valid
        /\ arrived[s] # None => arrived[s] = body[s]

FilesAreValid == \A n \in Stems : {xml[n], json[n]} \subseteq Valid \cup {None, Torn}

IInv ==
    /\ TypeOK
    /\ IdleIsClean
    /\ RenderedWasChecked
    /\ FilesAreValid
    /\ FilesAgreeIfReported

disk == <<xml, json, last>>
calls == <<sending, body, arrived, outcome, checked>>

-----------------------------------------------------------------------------
(* What writing does to the disk, whether send() gets through or is cut off. *)

\* However far a delivery of a valid document gets, the files hold valid documents
\* or torn ones, and agree unless it was cut short; files of other names stay.
LEMMA WritingKeepsTheDisk ==
    ASSUME IInv, NEW d \in Valid, NEW done \in Progress, NEW reported \in BOOLEAN,
           reported => done = "both",
           Written(d, done), Recorded(d, done, reported)
    PROVE  /\ xml' \in [Stems -> Documents \cup {None, Torn}]
           /\ json' \in [Stems -> Documents \cup {None, Torn}]
           /\ last' \in [Stems -> Endings \cup {None}]
           /\ FilesAreValid'
           /\ FilesAgreeIfReported'
<1> DEFINE n == StemOf[d]
           ending == [of |-> d, reported |-> reported]
<1>1. d \in Documents /\ n \in Stems
  BY DeliveryAssumption
<1>2. ending \in Endings /\ ending # None /\ ending.of = d /\ ending.reported = reported
  BY <1>1, DeliveryAssumption DEF Endings
<1>3. /\ xml \in [Stems -> Documents \cup {None, Torn}]
      /\ json \in [Stems -> Documents \cup {None, Torn}]
      /\ last \in [Stems -> Endings \cup {None}]
  BY DEF IInv, TypeOK
<1>4. CASE done = "nothing"
  <2>1. xml' = xml /\ json' = json /\ last' = last
    BY <1>4 DEF Written, Recorded
  <2> QED
    BY <1>3, <2>1 DEF IInv, FilesAreValid, FilesAgreeIfReported
<1>5. CASE done # "nothing"
  <2> HIDE DEF ending
  <2>1. last' = [last EXCEPT ![n] = ending]
    BY <1>5 DEF Recorded, ending
  <2>2. \E x \in {d, Torn} : xml' = [xml EXCEPT ![n] = x]
    BY <1>5 DEF Written, Progress
  <2>3. PICK y \in {d, Torn, json[n]} : json' = [json EXCEPT ![n] = y]
    BY <1>1, <1>3, <1>5 DEF Written, Progress
  <2>4. reported => xml' = [xml EXCEPT ![n] = d] /\ json' = [json EXCEPT ![n] = d]
    BY DEF Written, Progress
  <2>5. PICK x \in {d, Torn} : xml' = [xml EXCEPT ![n] = x]
    BY <2>2
  <2> HIDE DEF n
  <2>6. /\ xml' \in [Stems -> Documents \cup {None, Torn}]
        /\ json' \in [Stems -> Documents \cup {None, Torn}]
        /\ last' \in [Stems -> Endings \cup {None}]
    BY <1>1, <1>2, <1>3, <2>1, <2>3, <2>5
  <2>7. FilesAreValid'
    BY <1>1, <1>3, <2>3, <2>5 DEF IInv, FilesAreValid
  <2>8. FilesAgreeIfReported'
    <3> SUFFICES ASSUME NEW m \in Stems
                 PROVE  /\ last'[m] = None => xml'[m] = None /\ json'[m] = None
                        /\ last'[m] # None /\ last'[m].reported =>
                              xml'[m] = last'[m].of /\ json'[m] = last'[m].of
      BY DEF FilesAgreeIfReported
    <3>1. CASE m = n
      BY <1>1, <1>2, <1>3, <2>1, <2>4, <3>1
    <3>2. CASE m # n
      <4>1. xml'[m] = xml[m] /\ json'[m] = json[m] /\ last'[m] = last[m]
        BY <1>3, <2>1, <2>3, <2>5, <3>2
      <4> QED
        BY <4>1 DEF IInv, FilesAgreeIfReported
    <3> QED
      BY <3>1, <3>2
  <2> QED
    BY <2>6, <2>7, <2>8
<1> QED
  BY <1>4, <1>5

\* An untouched disk keeps what it had.
LEMMA DiskAtRest ==
    ASSUME IInv, UNCHANGED disk
    PROVE  /\ xml' \in [Stems -> Documents \cup {None, Torn}]
           /\ json' \in [Stems -> Documents \cup {None, Torn}]
           /\ last' \in [Stems -> Endings \cup {None}]
           /\ FilesAreValid'
           /\ FilesAgreeIfReported'
  BY DEF IInv, TypeOK, disk, FilesAreValid, FilesAgreeIfReported

-----------------------------------------------------------------------------
(* What a step does to the sends.                                            *)

\* The part of the invariant that is about the sends and the objects.
SendsTyped ==
    /\ object \in [Objects -> Documents]
    /\ sending \in [Sends -> Objects \cup {None}]
    /\ body \in [Sends -> Documents \cup {None}]
    /\ arrived \in [Sends -> Documents \cup {None}]
    /\ checked \in [Sends -> Documents \cup {None}]
    /\ outcome \in [Sends -> Outcomes \cup {None}]
    /\ \A s \in Sends :
          /\ Posting(s) => body[s] # None
          /\ arrived[s] # None => body[s] # None

SendsInv == SendsTyped /\ IdleIsClean /\ RenderedWasChecked

\* The invariant is what is known of the sends and what is known of the files.
LEMMA SendsAndDisk ==
    ASSUME SendsInv',
           xml' \in [Stems -> Documents \cup {None, Torn}],
           json' \in [Stems -> Documents \cup {None, Torn}],
           last' \in [Stems -> Endings \cup {None}],
           FilesAreValid', FilesAgreeIfReported'
    PROVE  IInv'
  BY DEF IInv, TypeOK, SendsInv, SendsTyped

\* send() begins, and ends at once or holds the document it rendered.
LEMMA CallKeepsTheSends ==
    ASSUME IInv, NEW s \in Sends, NEW i \in Objects, Called(s, i),
           NEW b \in Documents \cup {None}, NEW o \in Outcomes \cup {None},
           body' = [body EXCEPT ![s] = b], outcome' = [outcome EXCEPT ![s] = o],
           b = None => o # None,
           b # None => b = object[i] /\ b \in Valid,
           UNCHANGED <<object, arrived>>
    PROVE  SendsInv'
<1>1. SendsTyped /\ IdleIsClean /\ RenderedWasChecked
  BY DEF IInv, TypeOK, SendsTyped
<1>2. /\ sending' = [sending EXCEPT ![s] = i]
      /\ checked' = [checked EXCEPT ![s] = object[i]]
      /\ i # None /\ object[i] \in Documents
      /\ body[s] = None /\ arrived[s] = None
  BY <1>1, DeliveryAssumption DEF Called, SendsTyped, IdleIsClean
<1>3. SendsTyped'
  BY <1>1, <1>2 DEF SendsTyped, Posting
<1>4. IdleIsClean'
  BY <1>1, <1>2 DEF SendsTyped, IdleIsClean, Idle
<1>5. RenderedWasChecked'
  BY <1>1, <1>2 DEF SendsTyped, RenderedWasChecked
<1> QED
  BY <1>3, <1>4, <1>5 DEF SendsInv

\* A send that was answered, or was not, is over.
LEMMA AnswerKeepsTheSends ==
    ASSUME IInv, NEW s \in Sends, NEW o \in Outcomes, Posting(s),
           outcome' = [outcome EXCEPT ![s] = o],
           UNCHANGED <<object, sending, body, arrived, checked>>
    PROVE  SendsInv'
<1>1. SendsTyped /\ IdleIsClean /\ RenderedWasChecked
  BY DEF IInv, TypeOK, SendsTyped
<1>2. o # None
  BY DeliveryAssumption
<1>3. SendsTyped'
  BY <1>1, <1>2 DEF SendsTyped, Posting
<1>4. IdleIsClean'
  BY <1>1 DEF SendsTyped, IdleIsClean, Idle, Posting
<1>5. RenderedWasChecked'
  BY <1>1 DEF RenderedWasChecked
<1> QED
  BY <1>3, <1>4, <1>5 DEF SendsInv

-----------------------------------------------------------------------------
\* At first nothing is sent and no file is there.
LEMMA InitHolds == Init => IInv
  BY DEF Init, IInv, TypeOK, IdleIsClean, RenderedWasChecked, FilesAreValid,
         FilesAgreeIfReported, Posting, Idle

\* Each step keeps the invariant: a send, the disk, or the object that is edited.
LEMMA StepKeeps == IInv /\ [Next]_vars => IInv'
<1> SUFFICES ASSUME IInv, [Next]_vars
             PROVE  IInv'
  OBVIOUS
<1>1. SendsTyped /\ IdleIsClean /\ RenderedWasChecked
  BY DEF IInv, TypeOK, SendsTyped
<1>2. ASSUME NEW s \in Sends, NEW i \in Objects, Refused(s, i) \/ Raises(s, i)
      PROVE  IInv'
  <2>1. body' = [body EXCEPT ![s] = None]
    BY <1>1, <1>2 DEF Refused, Raises, Called, SendsTyped, IdleIsClean
  <2>2. PICK o \in Outcomes : outcome' = [outcome EXCEPT ![s] = o]
    BY <1>2 DEF Refused, Raises, Outcomes
  <2>3. o # None
    BY DeliveryAssumption
  <2>4. SendsInv'
    BY <1>2, <2>1, <2>2, <2>3, CallKeepsTheSends DEF Refused, Raises
  <2>5. UNCHANGED disk
    BY <1>2 DEF Refused, Raises, disk
  <2> QED
    BY <2>4, <2>5, DiskAtRest, SendsAndDisk
<1>3. ASSUME NEW s \in Sends, NEW i \in Objects, Files(s, i)
      PROVE  IInv'
  <2>1. PICK done \in Progress :
            /\ Called(s, i)
            /\ object[i] \in Valid
            /\ Written(object[i], done)
            /\ Recorded(object[i], done, done = "both")
            /\ outcome' = [outcome EXCEPT ![s] = IF done = "both" THEN "delivered" ELSE "crashed"]
            /\ UNCHANGED <<object, body, arrived>>
    BY <1>3 DEF Files
  <2>2. body' = [body EXCEPT ![s] = None]
    BY <1>1, <2>1 DEF Called, SendsTyped, IdleIsClean
  <2> DEFINE o == IF done = "both" THEN "delivered" ELSE "crashed"
  <2>3. o \in Outcomes /\ o # None
    BY DeliveryAssumption DEF Outcomes
  <2>4. outcome' = [outcome EXCEPT ![s] = o]
    BY <2>1
  <2> HIDE DEF o
  <2>5. SendsInv'
    BY <2>1, <2>2, <2>3, <2>4, CallKeepsTheSends
  <2> QED
    BY <2>1, <2>5, WritingKeepsTheDisk, SendsAndDisk
<1>4. ASSUME NEW s \in Sends, NEW i \in Objects, Post(s, i)
      PROVE  IInv'
  <2>1. outcome' = [outcome EXCEPT ![s] = None]
    BY <1>1, <1>4 DEF Post, Called, SendsTyped, IdleIsClean
  <2>2. object[i] \in Documents /\ object[i] # None
    BY <1>1, DeliveryAssumption DEF SendsTyped
  <2>3. SendsInv'
    BY <1>4, <2>1, <2>2, CallKeepsTheSends DEF Post
  <2>4. UNCHANGED disk
    BY <1>4 DEF Post, disk
  <2> QED
    BY <2>3, <2>4, DiskAtRest, SendsAndDisk
<1>5. ASSUME NEW s \in Sends, ReceiverTakes(s)
      PROVE  IInv'
  <2>1. body[s] # None /\ body[s] \in Documents
    BY <1>1, <1>5 DEF ReceiverTakes, SendsTyped
  <2>2. SendsInv'
    BY <1>1, <1>5, <2>1
    DEF ReceiverTakes, SendsInv, SendsTyped, IdleIsClean, RenderedWasChecked, Posting, Idle
  <2>3. UNCHANGED disk
    BY <1>5 DEF ReceiverTakes, disk
  <2> QED
    BY <2>2, <2>3, DiskAtRest, SendsAndDisk
<1>6. ASSUME NEW s \in Sends,
             Unreachable(s) \/ \E status \in Statuses : Answered(s, status)
      PROVE  IInv'
  <2>1. PICK o \in Outcomes : outcome' = [outcome EXCEPT ![s] = o]
    BY <1>6 DEF Unreachable, Answered, Outcomes
  <2>2. SendsInv'
    BY <1>6, <2>1, AnswerKeepsTheSends DEF Unreachable, Answered
  <2>3. UNCHANGED disk
    BY <1>6 DEF Unreachable, Answered, disk
  <2> QED
    BY <2>2, <2>3, DiskAtRest, SendsAndDisk
<1>7. ASSUME NEW s \in Sends, Leave(s)
      PROVE  IInv'
  <2>1. SendsInv'
    BY <1>1, <1>7
    DEF Leave, Forgotten, SendsInv, SendsTyped, IdleIsClean, RenderedWasChecked, Posting, Idle
  <2>2. UNCHANGED disk
    BY <1>7 DEF Leave, disk
  <2> QED
    BY <2>1, <2>2, DiskAtRest, SendsAndDisk
<1>8. ASSUME NEW i \in Objects, NEW d \in Documents, Edit(i, d)
      PROVE  IInv'
  <2>1. SendsInv'
    BY <1>1, <1>8
    DEF Edit, SendsInv, SendsTyped, IdleIsClean, RenderedWasChecked, Posting, Idle
  <2>2. UNCHANGED disk
    BY <1>8 DEF Edit, disk
  <2> QED
    BY <2>1, <2>2, DiskAtRest, SendsAndDisk
<1>9. ASSUME Die
      PROVE  IInv'
  <2>1. SendsInv'
    BY <1>9 DEF Die, SendsInv, SendsTyped, IdleIsClean, RenderedWasChecked, Posting, Idle
  <2>2. CASE UNCHANGED <<xml, json, last>>
    BY <2>1, <2>2, DiskAtRest, SendsAndDisk DEF disk
  <2>3. ASSUME NEW i \in Objects, NEW done \in Progress, object[i] \in Valid,
               Written(object[i], done), Recorded(object[i], done, FALSE)
        PROVE  IInv'
    BY <2>1, <2>3, WritingKeepsTheDisk, SendsAndDisk
  <2> QED
    BY <1>9, <2>2, <2>3 DEF Die
<1>10. CASE UNCHANGED vars
  BY <1>10
  DEF vars, IInv, TypeOK, IdleIsClean, RenderedWasChecked, FilesAreValid,
      FilesAgreeIfReported, Posting, Idle
<1> QED
  BY <1>2, <1>3, <1>4, <1>5, <1>6, <1>7, <1>8, <1>9, <1>10 DEF Next

\* The invariant holds in every state.
LEMMA AlwaysIInv == Spec => []IInv
  BY InitHolds, StepKeeps, PTL DEF Spec

-----------------------------------------------------------------------------
\* Type correctness: in particular nobody waits for a receiver with nothing rendered.
THEOREM TypeCorrect == Spec => []TypeOK
<1>1. IInv => TypeOK
  BY DEF IInv
<1> QED
  BY <1>1, AlwaysIInv, PTL

\* An invoice that fails the checks never leaves (ERPAdapter.send), however invoices
\* are edited while sends are suspended and wherever the process dies.
THEOREM OnlyValidInvoicesLeave == Spec => []OnlyValidLeaves
<1>1. IInv => OnlyValidLeaves
  <2> SUFFICES ASSUME IInv PROVE OnlyValidLeaves
    OBVIOUS
  <2>1. \A s \in Sends : arrived[s] \in Valid \cup {None}
    BY DEF IInv, TypeOK, RenderedWasChecked
  <2> QED
    BY <2>1 DEF IInv, FilesAreValid, OnlyValidLeaves
<1> QED
  BY <1>1, AlwaysIInv, PTL

\* FileAdapter: two files that differ are the trace of an error that was reported, or
\* of the death of the process.
THEOREM FilesNeverDifferSilently == Spec => []FilesAgreeIfReported
<1>1. IInv => FilesAgreeIfReported
  BY DEF IInv
<1> QED
  BY <1>1, AlwaysIInv, PTL

\* MockErpAdapter, with a receiver that never redirects: what it has of a send is what
\* was checked, and it has everything that was reported as delivered.  The hypothesis is
\* needed: with a redirect the invoice is reported as delivered and never arrived.
NeverRedirects == \A status \in Statuses : status \in 200..299 \/ status >= 400

\* With such a receiver, what it has of a send is what was checked, and it has everything
\* that was reported as delivered.
THEOREM ReceiverHasIt ==
    ASSUME NeverRedirects
    PROVE  Spec => []ReceiverHasWhatWasChecked
<1>1. Init => ToldItArrived
  BY DEF Init, ToldItArrived
<1>2. IInv /\ ToldItArrived /\ [Next]_vars => ToldItArrived'
  <2> SUFFICES ASSUME IInv, ToldItArrived, [Next]_vars, NEW t \in Sends,
                      body'[t] # None, outcome'[t] = "delivered"
               PROVE  arrived'[t] # None
    BY DEF ToldItArrived
  <2>1. SendsTyped /\ IdleIsClean
    BY DEF IInv, TypeOK, SendsTyped
  <2>2. "delivered" # None
    BY DeliveryAssumption DEF Outcomes
  <2>3. body[t] # None /\ outcome[t] = "delivered" => arrived[t] # None
    BY DEF ToldItArrived
  <2>4. ASSUME NEW s \in Sends, NEW i \in Objects,
               Refused(s, i) \/ Raises(s, i) \/ Files(s, i) \/ Post(s, i)
        PROVE  arrived'[t] # None
    <3>1. body[s] = None /\ outcome[s] = None
      BY <2>1, <2>4 DEF Refused, Raises, Files, Post, Called, IdleIsClean
    <3>2. CASE t = s
      BY <2>1, <2>2, <2>4, <3>1, <3>2 DEF Refused, Raises, Files, Post, SendsTyped
    <3>3. CASE t # s
      BY <2>1, <2>3, <2>4, <3>3 DEF Refused, Raises, Files, Post, SendsTyped
    <3> QED
      BY <3>2, <3>3
  <2>5. ASSUME NEW s \in Sends, ReceiverTakes(s)
        PROVE  arrived'[t] # None
    BY <2>1, <2>3, <2>5 DEF ReceiverTakes, SendsTyped
  <2>6. ASSUME NEW s \in Sends, Unreachable(s) \/ Leave(s)
        PROVE  arrived'[t] # None
    BY <2>1, <2>2, <2>3, <2>6 DEF Unreachable, Leave, Forgotten, SendsTyped
  <2>7. ASSUME NEW s \in Sends, NEW status \in Statuses, Answered(s, status)
        PROVE  arrived'[t] # None
    <3>1. CASE t = s
      <4>1. ~(status >= 400)
        BY <2>1, <2>7, <3>1 DEF Answered, SendsTyped
      <4>2. arrived[s] # None
        BY <2>7, <4>1 DEF Answered, NeverRedirects
      <4> QED
        BY <2>7, <3>1, <4>2 DEF Answered
    <3>2. CASE t # s
      BY <2>1, <2>3, <2>7, <3>2 DEF Answered, SendsTyped
    <3> QED
      BY <3>1, <3>2
  <2>8. CASE (\E i \in Objects, d \in Documents : Edit(i, d)) \/ UNCHANGED vars
    BY <2>3, <2>8 DEF Edit, vars
  <2>9. ~Die
    BY <2>2 DEF Die
  <2> QED
    BY <2>4, <2>5, <2>6, <2>7, <2>8, <2>9 DEF Next
<1>3. IInv /\ ToldItArrived => ReceiverHasWhatWasChecked
  BY DEF IInv, TypeOK, RenderedWasChecked, ToldItArrived, ReceiverHasWhatWasChecked
<1> QED
  BY <1>1, <1>2, <1>3, AlwaysIInv, PTL DEF Spec
=============================================================================
