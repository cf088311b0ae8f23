------------------------- MODULE ModelAnswer_proofs -------------------------
(***************************************************************************)
(* A call to the model and its answer: for every timeout, every endpoint   *)
(* and every number of operations, what a call costs; and for every tree   *)
(* an answer can be, of any depth, what the invoice then says and how what *)
(* is wrong with it is named.                                              *)
(***************************************************************************)
EXTENDS ModelAnswer, SequenceTheorems, WellFoundedInduction, TLAPS

(* Induction over the numbers, as facts about sets: to show something of   *)
(* every number, show that the set of those it is true of has 0, and with  *)
(* each number the next.                                                   *)

\* Every set of numbers that is not empty has a least one.
LEMMA LeastNumber ==
    ASSUME NEW S \in SUBSET Nat, S # {}
    PROVE  \E n \in S : \A m \in S : n <= m
<1> DEFINE Less == {pair \in Nat \X Nat : pair[1] < pair[2]}
<1>1. IsWellFoundedOn(Less, Nat)
  BY NatLessThanWellFounded DEF OpToRel
<1>2. PICK n \in S : \A m \in S : <<m, n>> \notin Less
  <2> HIDE DEF Less
  <2> QED
    BY <1>1, WFMin
<1>3. ASSUME NEW m \in S, m < n PROVE FALSE
  <2>1. <<m, n>> \in Less
    BY <1>3
  <2> QED
    BY <1>2, <2>1
<1> QED
  BY <1>2, <1>3

\* A set with 0 in it, and with every number the next, has every number in it.
LEMMA Induct ==
    ASSUME NEW S, 0 \in S, \A n \in Nat : n \in S => n + 1 \in S
    PROVE  Nat \subseteq S
<1> DEFINE Outside == {n \in Nat : n \notin S}
<1>1. SUFFICES ASSUME Outside # {} PROVE FALSE
  OBVIOUS
<1>2. PICK n \in Outside : \A m \in Outside : n <= m
  BY <1>1, LeastNumber
<1>3. n - 1 \in Nat /\ n - 1 \notin Outside
  BY <1>2
<1> QED
  BY <1>2, <1>3

-----------------------------------------------------------------------------
(* The call.  The bound on its age is not inductive as it stands: what     *)
(* keeps it is that the part of it the operation in progress has not used  *)
(* yet is still there when the operation ends.                             *)

\* The age, had the operation in progress used its whole timeout.
WithinTheRest ==
    timeout # Forever =>
        /\ silent <= timeout
        /\ age + (timeout - silent) <= (operations + 1) * timeout

IdleIsClean == phase = "idle" => operations = 0 /\ silent = 0 /\ age = 0

IInv == TypeOK /\ WithinTheRest /\ IdleIsClean

\* One operation more, one timeout more.
LEMMA OneMore ==
    ASSUME NEW n \in Nat, NEW t \in Nat
    PROVE  (n + 1 + 1) * t = (n + 1) * t + t
  OBVIOUS

\* The default steps in wherever the variable holds no positive number.
LEMMA TheTimeoutIsPositive ==
    ASSUME NEW raw \in RawTimeouts
    PROVE  _timeout_from_env(raw) \in (Nat \ {0}) \cup {Forever}
<1>1. CASE raw = Forever
  BY <1>1, OpenAIProviderAssumption DEF _timeout_from_env
<1>2. CASE raw = Nonsense /\ raw # Forever
  BY <1>2, OpenAIProviderAssumption DEF _timeout_from_env
<1>3. CASE raw \in Int /\ raw # Forever /\ raw # Nonsense
  BY <1>3, OpenAIProviderAssumption DEF _timeout_from_env
<1> QED
  BY <1>1, <1>2, <1>3, OpenAIProviderAssumption

\* The invariant holds at the start.
LEMMA InitIInv == Init => IInv
<1> SUFFICES ASSUME Init PROVE IInv
  OBVIOUS
<1>1. timeout \in (Nat \ {0}) \cup {Forever}
  BY TheTimeoutIsPositive DEF Init
<1>2. TypeOK
  BY <1>1, OpenAIProviderAssumption DEF Init, TypeOK
<1>3. WithinTheRest
  BY <1>1, OpenAIProviderAssumption DEF Init, WithinTheRest
<1> QED
  BY <1>2, <1>3 DEF IInv, IdleIsClean, Init

\* However a call ends, the next one begins with nothing on the clock.
LEMMA EndingIsClean ==
    ASSUME IInv, NEW result, EndsWith(result),
           result \in {LlmRequestError} \cup {Answered(text) : text \in Texts}
    PROVE  IInv'
<1>1. TypeOK'
  BY OpenAIProviderAssumption DEF IInv, EndsWith, TypeOK
<1>2. WithinTheRest'
  BY OpenAIProviderAssumption DEF IInv, EndsWith, TypeOK, WithinTheRest
<1> QED
  BY <1>1, <1>2 DEF IInv, EndsWith, IdleIsClean

\* And every step keeps it: an operation ends, and the next has a whole timeout.
LEMMA NextIInv == IInv /\ [Next]_vars => IInv'
<1> SUFFICES ASSUME IInv, [Next]_vars PROVE IInv'
  OBVIOUS
<1> USE OpenAIProviderAssumption
<1>1. CASE Begin
  <2>1. TypeOK'
    BY <1>1 DEF IInv, TypeOK, Begin
  <2>2. WithinTheRest' /\ IdleIsClean'
    BY <1>1 DEF IInv, Begin, WithinTheRest, IdleIsClean
  <2> QED
    BY <2>1, <2>2 DEF IInv
<1>2. CASE Progress
  <2>1. TypeOK'
    BY <1>2 DEF IInv, TypeOK, Progress
  <2>2. ASSUME timeout # Forever
        PROVE  age + timeout <= (operations + 1 + 1) * timeout
    <3>1. timeout \in Nat /\ operations \in Nat /\ age \in Nat /\ silent \in Nat
      BY <2>2 DEF IInv, TypeOK
    <3>2. age <= (operations + 1) * timeout
      BY <2>2, <3>1 DEF IInv, WithinTheRest
    <3> HIDE DEF IInv
    <3> QED
      BY <3>1, <3>2, OneMore
  <2>3. WithinTheRest'
    BY <1>2, <2>2 DEF IInv, TypeOK, Progress, WithinTheRest
  <2>4. IdleIsClean'
    BY <1>2 DEF IInv, Progress, IdleIsClean
  <2> QED
    BY <2>1, <2>3, <2>4 DEF IInv
<1>3. CASE Tick
  <2>1. TypeOK'
    BY <1>3 DEF IInv, TypeOK, Tick
  <2>2. WithinTheRest'
    <3>1. timeout \in Nat /\ silent \in Nat /\ age \in Nat
      BY <1>3 DEF IInv, TypeOK, Tick
    <3>2. silent + 1 <= timeout
      BY <1>3, <3>1 DEF Tick
    <3>3. (age + 1) + (timeout - (silent + 1)) = age + (timeout - silent)
      BY <3>1
    <3> QED
      BY <1>3, <3>2, <3>3 DEF IInv, Tick, WithinTheRest
  <2>3. IdleIsClean'
    BY <1>3 DEF Tick, IdleIsClean
  <2> QED
    BY <2>1, <2>2, <2>3 DEF IInv
<1>4. ASSUME NEW status \in Statuses, NEW envelope \in Envelopes, Respond(status, envelope)
      PROVE  IInv'
  <2> DEFINE result == IF status >= 400 THEN LlmRequestError ELSE _answer_of(envelope)
  <2>1. _answer_of(envelope) \in {LlmRequestError} \cup {Answered(text) : text \in Texts}
    <3>1. CASE \E odd \in {"no json", "no choices", "no text"} : envelope = [holds |-> odd]
      <4>1. PICK odd \in {"no json", "no choices", "no text"} : envelope = [holds |-> odd]
        BY <3>1
      <4>2. _answer_of(envelope) = LlmRequestError
        BY <4>1 DEF _answer_of
      <4> QED
        BY <4>2
    <3>2. CASE \E text \in Texts : envelope = Enveloped(text)
      <4>1. PICK text \in Texts : envelope = Enveloped(text)
        BY <3>2
      <4>2. _answer_of(envelope) = Answered(text)
        BY <4>1 DEF _answer_of, Enveloped
      <4>3. Answered(text) \in {Answered(t) : t \in Texts}
        OBVIOUS
      <4> QED
        BY <4>2, <4>3
    <3> QED
      BY <3>1, <3>2 DEF Envelopes
  <2>2. result \in {LlmRequestError} \cup {Answered(text) : text \in Texts}
    BY <2>1
  <2>3. EndsWith(result)
    BY <1>4 DEF Respond
  <2> HIDE DEF result
  <2> QED
    BY <2>2, <2>3, EndingIsClean
<1>5. CASE TransportFails
  BY <1>5, EndingIsClean DEF TransportFails
<1>6. CASE TimesOut
  BY <1>6, EndingIsClean DEF TimesOut
<1>7. CASE UNCHANGED vars
  BY <1>7 DEF IInv, TypeOK, WithinTheRest, IdleIsClean, vars
<1> QED
  BY <1>1, <1>2, <1>3, <1>4, <1>5, <1>6, <1>7 DEF Next

\* So it always holds.
LEMMA AlwaysIInv == Spec => []IInv
  BY InitIInv, NextIInv, PTL DEF Spec

\* The extractor's way with the provider: it begins a call, lets it go on, and looks at the
\* answer in between, so that whatever is true of every call is true of the calls it makes.
THEOREM CallsAreTheProviders == ModelSpec => Spec
<1>1. ModelInit => Init
  BY DEF ModelInit
<1>2. [ModelNext]_ModelVars => [Next]_vars
  BY DEF ModelNext, Ask, OnTheWire, Parse, Next, ModelVars
<1> QED
  BY <1>1, <1>2, PTL DEF ModelSpec, Spec

\* The timeout in use is a positive number of seconds or inf, whatever the variable holds,
\* and a call that is on its way has not ended yet.
THEOREM TypeCorrect == ModelSpec => []TypeOK
<1>1. IInv => TypeOK
  BY DEF IInv
<1> QED
  BY <1>1, AlwaysIInv, CallsAreTheProviders, PTL

\* complete() waits for the endpoint at most one timeout for each of its operations.
THEOREM EveryOperationCostsOneTimeout == ModelSpec => []CallIsBounded
<1>1. IInv => CallIsBounded
  <2> SUFFICES ASSUME IInv, phase # "idle", timeout # Forever
               PROVE  age <= (operations + 1) * timeout
    BY DEF CallIsBounded
  <2>1. timeout \in Nat /\ operations \in Nat /\ age \in Nat /\ silent \in Nat
    BY OpenAIProviderAssumption DEF IInv, TypeOK
  <2>2. silent <= timeout /\ age + (timeout - silent) <= (operations + 1) * timeout
    BY DEF IInv, WithinTheRest
  <2>3. (operations + 1) * timeout \in Int
    BY <2>1
  <2> QED
    BY <2>1, <2>2, <2>3
<1> QED
  BY <1>1, AlwaysIInv, CallsAreTheProviders, PTL

-----------------------------------------------------------------------------
(* The trees.                                                              *)

\* A path is above every path that goes one key further.
LEMMA OneKeyAbove ==
    ASSUME NEW q \in Seq(STRING), NEW key
    PROVE  q \in Above(Append(q, key))
<1> DEFINE p == Append(q, key)
<1>1. Len(q) \in 0..(Len(p) - 1)
  OBVIOUS
<1>2. q = SubSeq(p, 1, Len(q))
  OBVIOUS
<1> HIDE DEF p
<1>3. q \in {SubSeq(p, 1, n) : n \in 0..(Len(p) - 1)}
  BY <1>1, <1>2
<1>4. q \in Above(p)
  BY <1>3 DEF Above
<1> QED
  BY <1>4 DEF p

\* What has a value is an object.
LEMMA ValuesAreInObjects ==
    ASSUME NEW tree, IsTree(tree), NEW q \in Seq(STRING), Append(q, "value") \in DOMAIN tree
    PROVE  q \in DOMAIN tree /\ tree[q].t = "object"
<1> DEFINE p == Append(q, "value")
<1>1. p # <<>> /\ p[Len(p)] = "value" /\ SubSeq(p, 1, Len(p) - 1) = q
  OBVIOUS
<1>2. q \in Above(p)
  BY OneKeyAbove
<1> HIDE DEF p
<1> QED
  BY <1>1, <1>2 DEF IsTree, p

\* What _drop_unreadable() leaves is what was there, but for the wrappers it makes null.
LEMMA DropsOrKeeps ==
    ASSUME NEW tree, NEW p \in DOMAIN _drop_unreadable(tree)
    PROVE  p \in DOMAIN tree /\ _drop_unreadable(tree)[p] \in {tree[p], Null}
  BY DEF _drop_unreadable

\* After _drop_unreadable() no text that means nothing, the word null or a blank, is the
\* value of anything, in no answer and however deep.  (A null may be: a wrapper that is
\* itself a value collapses after its own wrapper was looked at.)
THEOREM NothingIsNoValue ==
    ASSUME NEW tree, IsTree(tree),
           NEW q \in Seq(STRING), Append(q, "value") \in DOMAIN _drop_unreadable(tree),
           _drop_unreadable(tree)[Append(q, "value")].t = "text"
    PROVE  ~_means_nothing(_drop_unreadable(tree)[Append(q, "value")])
<1> DEFINE p == Append(q, "value")
           dropped == _drop_unreadable(tree)
           collapsed == {r \in DOMAIN tree :
                            /\ tree[r].t = "object"
                            /\ Append(r, "value") \in DOMAIN tree
                            /\ _means_nothing(tree[Append(r, "value")])}
<1>1. p \in DOMAIN tree /\ dropped[p] \in {tree[p], Null}
  BY DropsOrKeeps
<1>2. dropped[p] = tree[p]
  BY <1>1 DEF Null
<1>3. q \in DOMAIN tree /\ tree[q].t = "object"
  BY <1>1, ValuesAreInObjects
<1>4. Above(p) \cap collapsed = {}
  BY DEF _drop_unreadable
<1>5. q \notin collapsed
  BY <1>4, OneKeyAbove
<1> QED
  BY <1>1, <1>2, <1>3, <1>5
-----------------------------------------------------------------------------
(* The fields of the schema, along a path.                                 *)

\* f[i] is what the schema has at the first i keys of p.
FieldsAlong(f, p, n) ==
    f = [i \in 0..n |-> IF i = 0 THEN Part("Invoice") ELSE FieldBelow(f[i - 1], p[i])]

\* The walk down a path has a field at every step.
LEMMA FieldsAlongExist ==
    ASSUME NEW p
    PROVE  \A n \in Nat : \E f : FieldsAlong(f, p, n)
<1> DEFINE S == {n \in Nat : \E f : FieldsAlong(f, p, n)}
<1>1. 0 \in S
  <2>1. FieldsAlong([i \in 0..0 |-> Part("Invoice")], p, 0)
    BY DEF FieldsAlong
  <2> QED
    BY <2>1
<1>2. ASSUME NEW n \in Nat, n \in S PROVE n + 1 \in S
  <2>1. PICK f : FieldsAlong(f, p, n)
    BY <1>2
  <2> DEFINE g == [i \in 0..(n + 1) |-> IF i = n + 1 THEN FieldBelow(f[n], p[n + 1]) ELSE f[i]]
  <2>2. ASSUME NEW i \in 0..(n + 1)
        PROVE  g[i] = IF i = 0 THEN Part("Invoice") ELSE FieldBelow(g[i - 1], p[i])
    BY <2>1 DEF FieldsAlong
  <2>3. FieldsAlong(g, p, n + 1)
    BY <2>2 DEF FieldsAlong
  <2> QED
    BY <2>3
<1> HIDE DEF S
<1>3. Nat \subseteq S
  BY <1>1, <1>2, Induct
<1> QED
  BY <1>3 DEF S

\* And ends at FieldAtPath of the path.
LEMMA FieldAtTheEnd ==
    ASSUME NEW p, Len(p) \in Nat
    PROVE  \E f : FieldsAlong(f, p, Len(p)) /\ FieldAtPath(p) = f[Len(p)]
<1> DEFINE F == CHOOSE f : FieldsAlong(f, p, Len(p))
<1>1. FieldAtPath(p) = F[Len(p)]
  BY DEF FieldAtPath, FieldsAlong
<1>2. FieldsAlong(F, p, Len(p))
  BY FieldsAlongExist
<1> QED
  BY <1>1, <1>2

Upto(p, n) == SubSeq(p, 1, n)

\* The first n keys of a path.
LEMMA UptoIs ==
    ASSUME NEW p \in Seq(STRING), NEW n \in 0..Len(p)
    PROVE  /\ Upto(p, n) \in Seq(STRING) /\ Len(Upto(p, n)) = n
           /\ \A i \in 1..n : Upto(p, n)[i] = p[i]
           /\ \A m \in 0..n : Upto(Upto(p, n), m) = Upto(p, m)
           /\ Upto(p, Len(p)) = p /\ Upto(p, 0) = <<>>
BY DEF Upto

\* What is at the first keys of a path does not depend on the rest of it.
LEMMA FieldsOnTheWay ==
    ASSUME NEW p \in Seq(STRING), NEW f, FieldsAlong(f, p, Len(p))
    PROVE  \A n \in 0..Len(p) : FieldAtPath(Upto(p, n)) = f[n]
<1> SUFFICES ASSUME NEW n \in 0..Len(p) PROVE FieldAtPath(Upto(p, n)) = f[n]
  OBVIOUS
<1>1. Len(Upto(p, n)) = n /\ n \in Nat /\ \A i \in 1..n : Upto(p, n)[i] = p[i]
  BY UptoIs
<1>2. PICK g : FieldsAlong(g, Upto(p, n), n) /\ FieldAtPath(Upto(p, n)) = g[n]
  BY <1>1, FieldAtTheEnd
<1> DEFINE S == {i \in Nat : i <= n => g[i] = f[i]}
<1>3. 0 \in S
  BY <1>2 DEF FieldsAlong
<1>4. ASSUME NEW i \in Nat, i \in S PROVE i + 1 \in S
  <2>1. SUFFICES ASSUME i + 1 <= n PROVE g[i + 1] = f[i + 1]
    OBVIOUS
  <2>2. g[i + 1] = FieldBelow(g[i], Upto(p, n)[i + 1]) /\ f[i + 1] = FieldBelow(f[i], p[i + 1])
    BY <1>2, <2>1 DEF FieldsAlong
  <2> QED
    BY <1>1, <1>4, <2>1, <2>2
<1> HIDE DEF S
<1>5. Nat \subseteq S
  BY <1>3, <1>4, Induct
<1> QED
  BY <1>1, <1>2, <1>5 DEF S

\* One key further.
LEMMA FieldOneFurther ==
    ASSUME NEW p \in Seq(STRING), NEW n \in 1..Len(p)
    PROVE  FieldAtPath(Upto(p, n)) = FieldBelow(FieldAtPath(Upto(p, n - 1)), p[n])
<1>0. Len(p) \in Nat
  OBVIOUS
<1>1. PICK f : FieldsAlong(f, p, Len(p))
  BY <1>0, FieldsAlongExist
<1>2. f[n] = FieldBelow(f[n - 1], p[n])
  BY <1>1 DEF FieldsAlong
<1> QED
  BY <1>1, <1>2, FieldsOnTheWay

\* No key leads to the invoice itself.
LEMMA FieldAtTheRoot == FieldAtPath(<<>>) = Part("Invoice")
<1>1. PICK f : FieldsAlong(f, <<>>, 0) /\ FieldAtPath(<<>>) = f[0]
  BY FieldAtTheEnd
<1> QED
  BY <1>1 DEF FieldsAlong

\* The parts and the lists lead to a read field, and a read field to its value.
LEMMA KindBelow ==
    ASSUME NEW field, NEW key
    PROVE  /\ FieldBelow(field, key).kind = "read" => field.kind = "part"
           /\ FieldBelow(field, key).kind \in {"part", "several"} => field.kind \in {"part", "several"}
<1>1. CASE field.kind = "part" /\ key \in DOMAIN Schema[field.of]
  BY <1>1
<1>2. CASE field.kind = "several"
  BY <1>2 DEF FieldBelow, Part
<1>3. CASE field.kind = "read" /\ key = "value"
  <2>1. FieldBelow(field, key).kind = "value"
    BY <1>3 DEF FieldBelow, Read
  <2> QED
    BY <2>1
<1>4. CASE field.kind = "read" /\ key = "confidence"
  BY <1>4 DEF FieldBelow, NoField
<1>5. CASE /\ ~(field.kind = "part" /\ key \in DOMAIN Schema[field.of]) /\ field.kind # "several"
           /\ ~(field.kind = "read" /\ key = "value") /\ ~(field.kind = "read" /\ key = "confidence")
  BY <1>5 DEF FieldBelow, NoField
<1> QED
  BY <1>1, <1>2, <1>3, <1>4, <1>5

\* The way to a field to read leads through parts and lists only.
LEMMA WayToAField ==
    ASSUME NEW p \in Seq(STRING), NEW n \in 0..Len(p), FieldAtPath(Upto(p, n)).kind = "read"
    PROVE  \A m \in 0..(n - 1) : FieldAtPath(Upto(p, m)).kind \in {"part", "several"}
<1> DEFINE S == {k \in Nat : k < n => FieldAtPath(Upto(p, n - 1 - k)).kind \in {"part", "several"}}
<1>1. 0 \in S
  <2>1. SUFFICES ASSUME 0 < n PROVE FieldAtPath(Upto(p, n - 1)).kind \in {"part", "several"}
    OBVIOUS
  <2> QED
    BY <2>1, FieldOneFurther, KindBelow
<1>2. ASSUME NEW k \in Nat, k \in S PROVE k + 1 \in S
  <2>1. SUFFICES ASSUME k + 1 < n
                 PROVE  FieldAtPath(Upto(p, n - 1 - (k + 1))).kind \in {"part", "several"}
    OBVIOUS
  <2>2. n - 1 - k \in 1..Len(p) /\ (n - 1 - k) - 1 = n - 1 - (k + 1)
    BY <2>1
  <2>3. FieldAtPath(Upto(p, n - 1 - k))
            = FieldBelow(FieldAtPath(Upto(p, n - 1 - (k + 1))), p[n - 1 - k])
    BY <2>2, FieldOneFurther
  <2> QED
    BY <1>2, <2>1, <2>3, KindBelow
<1> HIDE DEF S
<1>3. Nat \subseteq S
  BY <1>1, <1>2, Induct
<1>4. ASSUME NEW m \in 0..(n - 1) PROVE FieldAtPath(Upto(p, m)).kind \in {"part", "several"}
  <2>1. n - 1 - m \in Nat /\ n - 1 - m < n /\ n - 1 - (n - 1 - m) = m
    OBVIOUS
  <2> QED
    BY <1>3, <2>1 DEF S
<1> QED
  BY <1>4

-----------------------------------------------------------------------------
(* Invoices that are accepted.                                             *)

\* Trees that have, with every path, the way to it.
Rooted(tree) == \A p \in DOMAIN tree : p \in Seq(STRING) /\ Above(p) \subseteq DOMAIN tree

\* What is above a path is what it starts with.
LEMMA AboveIsUpto ==
    ASSUME NEW p \in Seq(STRING)
    PROVE  Above(p) = {Upto(p, n) : n \in 0..(Len(p) - 1)}
BY DEF Above, Upto

\* A path begins with another when its first keys are those of the other.
LEMMA PrefixIsUpto ==
    ASSUME NEW p \in Seq(STRING), NEW q \in Seq(STRING)
    PROVE  IsPrefix(p, q) <=> Len(p) <= Len(q) /\ Upto(q, Len(p)) = p
<1>1. SubSeq(p, 1, Len(p)) = p
  BY UptoIs DEF Upto
<1> QED
  BY <1>1 DEF IsPrefix, Upto

\* One key further, a path goes through where it was and what that goes through.
LEMMA OneFurtherIs ==
    ASSUME NEW p \in Seq(STRING), NEW key \in STRING
    PROVE  /\ Append(p, key) \in Seq(STRING) /\ Len(Append(p, key)) = Len(p) + 1
           /\ Append(p, key)[Len(p) + 1] = key
           /\ Upto(Append(p, key), Len(p)) = p
           /\ Above(Append(p, key)) = Above(p) \cup {p}
           /\ IsPrefix(p, Append(p, key))
<1> DEFINE q == Append(p, key)
<1>1. /\ q \in Seq(STRING) /\ Len(q) = Len(p) + 1 /\ q[Len(p) + 1] = key /\ Len(p) \in Nat
      /\ \A i \in 1..Len(p) : q[i] = p[i]
  <2>1. Len(p) \in Nat
    OBVIOUS
  <2>2. /\ q \in Seq(STRING) /\ Len(q) = Len(p) + 1 /\ q[Len(p) + 1] = key
        /\ \A i \in 1..Len(p) : q[i] = p[i]
    <3> HIDE DEF q
    <3>1. q = Append(p, key)
      BY DEF q
    <3>2. q \in Seq(STRING)
      BY <3>1, AppendProperties
    <3>3. Len(q) = Len(p) + 1
      BY <3>1, AppendProperties
    <3>4. q[Len(p) + 1] = key
      BY <3>1, AppendProperties
    <3>5. \A i \in 1..Len(p) : q[i] = p[i]
      BY <3>1, AppendProperties
    <3> QED
      BY <3>2, <3>3, <3>4, <3>5
  <2> HIDE DEF q
  <2> QED
    BY <2>1, <2>2
<1> HIDE DEF q
<1>2. ASSUME NEW m \in 0..Len(p) PROVE Upto(q, m) = Upto(p, m)
  BY <1>1 DEF Upto
<1>3. Upto(p, Len(p)) = p
  BY UptoIs
<1>4. Above(q) = Above(p) \cup {p}
  <2>1. (Len(p) + 1) - 1 = Len(p)
    BY <1>1
  <2>2. Above(q) = {Upto(q, m) : m \in 0..Len(p)}
    BY <1>1, <2>1, AboveIsUpto
  <2>3. Above(p) = {Upto(p, m) : m \in 0..(Len(p) - 1)}
    BY AboveIsUpto
  <2>4. 0..Len(p) = (0..(Len(p) - 1)) \cup {Len(p)}
    BY <1>1
  <2>5. {Upto(q, m) : m \in 0..Len(p)} = {Upto(p, m) : m \in 0..Len(p)}
    BY <1>2
  <2>6. {Upto(p, m) : m \in 0..Len(p)} = {Upto(p, m) : m \in 0..(Len(p) - 1)} \cup {Upto(p, Len(p))}
    BY <2>4
  <2> QED
    BY <1>3, <2>2, <2>3, <2>5, <2>6
<1>5. Len(p) \in 0..Len(p)
  BY <1>1
<1>6. IsPrefix(p, q)
  BY <1>1, <1>2, <1>3, <1>5, PrefixIsUpto
<1> QED
  BY <1>1, <1>2, <1>3, <1>4, <1>5, <1>6 DEF q

\* One key below a path, in the schema.
LEMMA FieldBelowIs ==
    ASSUME NEW p \in Seq(STRING), NEW key \in STRING
    PROVE  FieldAtPath(Append(p, key)) = FieldBelow(FieldAtPath(p), key)
<1> DEFINE q == Append(p, key)
<1>0. Len(p) \in Nat
  OBVIOUS
<1>1. q \in Seq(STRING) /\ Len(q) = Len(p) + 1 /\ q[Len(p) + 1] = key /\ Upto(q, Len(p)) = p
  BY OneFurtherIs, Zenon
<1> HIDE DEF q
<1>2. Len(q) \in 1..Len(q) /\ Len(q) - 1 = Len(p)
  BY <1>0, <1>1
<1>3. Upto(q, Len(q)) = q
  BY <1>1, UptoIs
<1>4. FieldAtPath(Upto(q, Len(q))) = FieldBelow(FieldAtPath(Upto(q, Len(q) - 1)), q[Len(q)])
  BY <1>0, <1>1, <1>2, FieldOneFurther
<1> QED
  BY <1>1, <1>2, <1>3, <1>4 DEF q

\* When nothing is found to be wrong, nothing is, at any depth: everything there is fits,
\* and everything required is there.
LEMMA EverythingFits ==
    ASSUME NEW tree, Rooted(tree), Misfits(tree) = {}
    PROVE  \A p \in DOMAIN tree :
              /\ FitsField(FieldAtPath(p), tree[p], IsFilled(tree, p))
              /\ tree[p].t = "object" =>
                    \A key \in RequiredBelow(FieldAtPath(p)) : Append(p, key) \in DOMAIN tree
<1> DEFINE Good(p) == FitsField(FieldAtPath(p), tree[p], IsFilled(tree, p))
           fits == {p \in DOMAIN tree : Good(p)}
           reached == {p \in DOMAIN tree : Above(p) \subseteq fits}
           needed(p) == {Append(p, key) : key \in RequiredBelow(FieldAtPath(p))} \ DOMAIN tree
<1>1. Misfits(tree) = (reached \ fits)
                      \cup UNION {needed(p) : p \in {q \in reached \cap fits : tree[q].t = "object"}}
  BY DEF Misfits
<1> HIDE DEF Good
<1>2. reached \subseteq fits
  BY <1>1
<1>3. ASSUME NEW p \in reached, tree[p].t = "object" PROVE needed(p) = {}
  <2>1. p \in {q \in reached \cap fits : tree[q].t = "object"}
    BY <1>2, <1>3
  <2> HIDE DEF needed, reached, fits
  <2> QED
    BY <1>1, <2>1
<1> HIDE DEF needed
<1>4. ASSUME NEW p \in DOMAIN tree PROVE p \in reached
  <2>1. p \in Seq(STRING) /\ Above(p) \subseteq DOMAIN tree /\ Len(p) \in Nat
    BY DEF Rooted
  <2> DEFINE S == {n \in Nat : n < Len(p) => \A m \in 0..n : Upto(p, m) \in fits}
  <2>2. ASSUME NEW n \in 0..(Len(p) - 1), \A m \in 0..(n - 1) : Upto(p, m) \in fits
        PROVE  Upto(p, n) \in fits
    <3>1. Upto(p, n) \in DOMAIN tree
      BY <2>1, AboveIsUpto
    <3>2. /\ Upto(p, n) \in Seq(STRING) /\ Len(Upto(p, n)) = n
          /\ \A m \in 0..n : Upto(Upto(p, n), m) = Upto(p, m)
      BY <2>1, UptoIs
    <3> HIDE DEF fits
    <3>3. Above(Upto(p, n)) \subseteq fits
      BY <2>2, <3>2, AboveIsUpto
    <3>4. Upto(p, n) \in reached
      BY <3>1, <3>3
    <3> QED
      BY <1>2, <3>4
  <2> HIDE DEF fits
  <2>3. 0 \in S
    BY <2>1, <2>2
  <2>4. ASSUME NEW n \in Nat, n \in S PROVE n + 1 \in S
    <3>1. SUFFICES ASSUME n + 1 < Len(p) PROVE \A m \in 0..(n + 1) : Upto(p, m) \in fits
      OBVIOUS
    <3>2. \A m \in 0..n : Upto(p, m) \in fits
      BY <2>1, <2>4, <3>1
    <3>3. Upto(p, n + 1) \in fits
      <4>1. n + 1 \in 0..(Len(p) - 1) /\ (n + 1) - 1 = n
        BY <2>1, <3>1
      <4> QED
        BY <2>2, <3>2, <4>1
    <3> QED
      BY <3>2, <3>3
  <2> HIDE DEF S
  <2>5. Nat \subseteq S
    BY <2>3, <2>4, Induct
  <2>6. \A m \in 0..(Len(p) - 1) : Upto(p, m) \in fits
    BY <2>1, <2>5 DEF S
  <2>7. Above(p) \subseteq fits
    BY <2>1, <2>6, AboveIsUpto
  <2> QED
    BY <2>7
<1>5. ASSUME NEW p \in DOMAIN tree PROVE FitsField(FieldAtPath(p), tree[p], IsFilled(tree, p))
  BY <1>2, <1>4 DEF Good
<1>6. ASSUME NEW p \in DOMAIN tree, tree[p].t = "object",
             NEW key \in RequiredBelow(FieldAtPath(p))
      PROVE  Append(p, key) \in DOMAIN tree
  BY <1>3, <1>4, <1>6 DEF needed
<1> QED
  BY <1>5, <1>6

\* What _invoice_of() works on, once the root is an object.
Theirs(answer) ==
    LET fields == _drop_unreadable(answer)
        popped == {p \in DOMAIN fields : p # <<>> /\ p[1] \in OURS_NOT_THE_MODELS}
    IN  [p \in DOMAIN fields \ popped |-> fields[p]]

Collapsed(tree) ==
    {p \in DOMAIN tree :
        /\ tree[p].t = "object"
        /\ Append(p, "value") \in DOMAIN tree
        /\ _means_nothing(tree[Append(p, "value")])}

\* What is left of an answer when the nothings have collapsed and ours is put in its place.
LEMMA TheirsIs ==
    ASSUME NEW answer
    PROVE  /\ \A p : p \in DOMAIN Theirs(answer) <=>
                        /\ p \in DOMAIN answer /\ Above(p) \cap Collapsed(answer) = {}
                        /\ ~(p # <<>> /\ p[1] \in OURS_NOT_THE_MODELS)
           /\ \A p \in DOMAIN Theirs(answer) :
                 Theirs(answer)[p] = IF p \in Collapsed(answer) THEN Null ELSE answer[p]
BY DEF Theirs, Collapsed, _drop_unreadable

\* An accepted invoice is that, and nothing is wrong with it.
LEMMA AcceptedIs ==
    ASSUME NEW answer, Accepted(_invoice_of(answer))
    PROVE  /\ _invoice_of(answer).invoice = Theirs(answer)
           /\ Misfits(Theirs(answer)) = {}
           /\ <<>> \in DOMAIN answer
<1> DEFINE theirs == Theirs(answer)
           misfits == Misfits(theirs)
           fields == _drop_unreadable(answer)
<1>1. _invoice_of(answer) =
        CASE <<>> \notin DOMAIN answer -> Refused("broken")
          [] <<>> \in DOMAIN answer /\ answer[<<>>].t # "object" -> Refused("not_object")
          [] <<>> \in DOMAIN answer /\ answer[<<>>].t = "object" /\ fields[<<>>] = Null ->
                Refused("collapsed")
          [] OTHER -> [shape |-> "object", problems |-> describe_errors("Invoice", misfits),
                       invoice |-> theirs]
  BY DEF _invoice_of, Theirs
<1> HIDE DEF theirs, misfits, fields
<1>2. _invoice_of(answer) = [shape |-> "object", problems |-> describe_errors("Invoice", misfits),
                             invoice |-> theirs] /\ <<>> \in DOMAIN answer
  <2>1. _invoice_of(answer).shape = "object"
    BY DEF Accepted
  <2>2. /\ Refused("broken").shape # "object" /\ Refused("not_object").shape # "object"
        /\ Refused("collapsed").shape # "object"
    BY DEF Refused
  <2> QED
    BY <1>1, <2>1, <2>2
<1>3. describe_errors("Invoice", misfits) = {}
  BY <1>2 DEF Accepted
<1>4. misfits = {}
  BY <1>3 DEF describe_errors
<1> QED
  BY <1>2, <1>4 DEF theirs, misfits

\* It is a tree still.
LEMMA TheirsIsRooted ==
    ASSUME NEW answer, IsTree(answer)
    PROVE  Rooted(Theirs(answer))
<1> SUFFICES ASSUME NEW p \in DOMAIN Theirs(answer)
             PROVE  p \in Seq(STRING) /\ Above(p) \subseteq DOMAIN Theirs(answer)
  BY DEF Rooted
<1>1. p \in DOMAIN answer /\ Above(p) \cap Collapsed(answer) = {}
      /\ ~(p # <<>> /\ p[1] \in OURS_NOT_THE_MODELS)
  BY TheirsIs
<1>2. p \in Seq(STRING) /\ Above(p) \subseteq DOMAIN answer
  BY <1>1 DEF IsTree
<1>3. ASSUME NEW q \in Above(p) PROVE q \in DOMAIN Theirs(answer)
  <2>1. PICK n \in 0..(Len(p) - 1) : q = Upto(p, n)
    BY <1>2, AboveIsUpto
  <2>2. q \in Seq(STRING) /\ Len(q) = n /\ \A i \in 1..n : q[i] = p[i]
    BY <1>2, <2>1, UptoIs
  <2>3. \A m \in 0..(n - 1) : Upto(q, m) = Upto(p, m)
    BY <1>2, <2>1, UptoIs
  <2>4. Above(q) \subseteq Above(p)
    BY <1>2, <2>2, <2>3, AboveIsUpto
  <2>5. ~(q # <<>> /\ q[1] \in OURS_NOT_THE_MODELS)
    <3>1. CASE n = 0
      BY <2>2, <3>1
    <3>2. CASE n > 0
      BY <1>1, <1>2, <2>2, <3>2
    <3> QED
      BY <3>1, <3>2
  <2> QED
    BY <1>1, <1>2, <2>4, <2>5, TheirsIs
<1> QED
  BY <1>2, <1>3

\* A part or a list is never null.
LEMMA PartsAreThere ==
    ASSUME NEW field, NEW filled, field.kind \in {"part", "several"}
    PROVE  ~FitsField(field, Null, filled)
BY DEF FitsField, Null

\* Nor is a value.
LEMMA ValuesAreThere ==
    ASSUME NEW field, NEW filled, field.kind = "value"
    PROVE  ~FitsField(field, Null, filled)
BY DEF FitsField, Null, Reads

\* Where nothing fits, nothing is.
LEMMA NothingFitsNowhere ==
    ASSUME NEW field, NEW node, NEW filled, field.kind = "none"
    PROVE  ~FitsField(field, node, filled)
BY DEF FitsField

\* An accepted invoice has nothing the schema does not have (extra="forbid"), and every
\* field it requires, in every part and every item of a list that is there.
THEOREM AcceptedFitsTheSchema ==
    ASSUME NEW answer, IsTree(answer), Accepted(_invoice_of(answer))
    PROVE  LET invoice == _invoice_of(answer).invoice
           IN  \A p \in DOMAIN invoice :
                  /\ FieldAtPath(p).kind # "none"
                  /\ invoice[p].t = "object" =>
                        \A key \in RequiredBelow(FieldAtPath(p)) : Append(p, key) \in DOMAIN invoice
<1> DEFINE invoice == Theirs(answer)
<1>1. _invoice_of(answer).invoice = invoice
  BY AcceptedIs
<1>2. Rooted(invoice) /\ Misfits(invoice) = {}
  BY AcceptedIs, TheirsIsRooted
<1> HIDE DEF invoice
<1>3. \A p \in DOMAIN invoice :
              /\ FitsField(FieldAtPath(p), invoice[p], IsFilled(invoice, p))
              /\ invoice[p].t = "object" =>
                    \A key \in RequiredBelow(FieldAtPath(p)) : Append(p, key) \in DOMAIN invoice
  BY <1>2, EverythingFits
<1> QED
  BY <1>1, <1>3, NothingFitsNowhere

\* What an answer says at a path: nothing, when it means nothing.
SaidAt(answer, path) ==
    IF _means_nothing(answer[Append(path, "value")]) THEN Null ELSE answer[Append(path, "value")]

\* A field that is read is a field of its part: not one of the two that are ours.
LEMMA FieldsAreTheirs ==
    ASSUME NEW p \in Seq(STRING), FieldAtPath(p).kind = "read"
    PROVE  p # <<>> /\ p[1] \notin OURS_NOT_THE_MODELS
<1>1. FieldAtPath(Upto(p, Len(p))).kind = "read" /\ Len(p) \in 0..Len(p)
  BY UptoIs
<1>2. Len(p) # 0
  BY <1>1, UptoIs, FieldAtTheRoot DEF Part
<1>3. Len(p) \in Nat /\ 1 \in 1..Len(p) /\ 1 \in 0..Len(p) /\ 0 \in 0..Len(p)
  BY <1>2
<1>4. FieldAtPath(Upto(p, 1)).kind \in {"read", "part", "several"}
  <2>1. CASE Len(p) = 1
    BY <1>1, <2>1
  <2>2. CASE Len(p) # 1
    <3>1. \A n \in Nat : n # 0 /\ n # 1 => 1 \in 0..(n - 1)
      OBVIOUS
    <3>2. 1 \in 0..(Len(p) - 1)
      BY <1>2, <1>3, <2>2, <3>1, Zenon
    <3> QED
      BY <1>1, <3>2, WayToAField
  <2> QED
    BY <2>1, <2>2
<1>5. FieldAtPath(Upto(p, 1)) = FieldBelow(Part("Invoice"), p[1])
  <2>1. Upto(p, 1 - 1) = <<>>
    BY <1>3, UptoIs
  <2> QED
    BY <1>3, <2>1, FieldOneFurther, FieldAtTheRoot
<1>6. p[1] \in DOMAIN Schema["Invoice"]
  BY <1>4, <1>5 DEF FieldBelow, Part, NoField
<1> QED
  BY <1>2, <1>6 DEF Schema, Invoice, OURS_NOT_THE_MODELS

\* The way to a field is there still when the nothings have collapsed, if nothing is wrong
\* with the invoice: its parts and its lists are no wrappers.
LEMMA WayIsThere ==
    ASSUME NEW answer, IsTree(answer), Misfits(Theirs(answer)) = {},
           NEW path \in Seq(STRING), FieldAtPath(path).kind = "read",
           Above(path) \subseteq DOMAIN answer
    PROVE  /\ Above(path) \cap Collapsed(answer) = {}
           /\ Above(path) \subseteq DOMAIN Theirs(answer)
<1> DEFINE invoice == Theirs(answer)
           C == Collapsed(answer)
<1>1. Rooted(invoice) /\ Misfits(invoice) = {}
  BY TheirsIsRooted
<1>2. /\ \A p : p \in DOMAIN invoice <=>
                  /\ p \in DOMAIN answer /\ Above(p) \cap C = {}
                  /\ ~(p # <<>> /\ p[1] \in OURS_NOT_THE_MODELS)
      /\ \A p \in DOMAIN invoice : invoice[p] = IF p \in C THEN Null ELSE answer[p]
  BY TheirsIs
<1> HIDE DEF invoice, C
<1>3. \A p \in DOMAIN invoice : FitsField(FieldAtPath(p), invoice[p], IsFilled(invoice, p))
  BY <1>1, EverythingFits
<1>4. Len(path) \in Nat
  OBVIOUS
<1>5. ASSUME NEW n \in 0..(Len(path) - 1), \A m \in 0..(n - 1) : Upto(path, m) \notin C
      PROVE  Upto(path, n) \notin C /\ Upto(path, n) \in DOMAIN invoice
  <2> DEFINE q == Upto(path, n)
  <2>1. /\ q \in Seq(STRING) /\ Len(q) = n /\ \A i \in 1..n : q[i] = path[i]
        /\ \A m \in 0..n : Upto(q, m) = Upto(path, m)
    BY <1>4, UptoIs
  <2>2. q \in Above(path)
    BY AboveIsUpto
  <2>3. FieldAtPath(q).kind \in {"part", "several"}
    <3>1. Upto(path, Len(path)) = path /\ Len(path) \in 0..Len(path)
      BY <1>4, UptoIs
    <3> QED
      BY <3>1, WayToAField
  <2> HIDE DEF q
  <2>4. Above(q) \cap C = {}
    BY <1>5, <2>1, AboveIsUpto
  <2>5. ~(q # <<>> /\ q[1] \in OURS_NOT_THE_MODELS)
    <3>1. path[1] \notin OURS_NOT_THE_MODELS
      BY FieldsAreTheirs
    <3>2. CASE n = 0
      BY <2>1, <3>2
    <3>3. CASE n > 0
      BY <2>1, <3>1, <3>3
    <3> QED
      BY <3>2, <3>3
  <2>6. q \in DOMAIN invoice
    BY <1>2, <2>2, <2>4, <2>5
  <2>7. q \notin C
    <3>1. SUFFICES ASSUME q \in C PROVE FALSE
      OBVIOUS
    <3>2. invoice[q] = Null
      BY <1>2, <2>6, <3>1
    <3> QED
      BY <1>3, <2>3, <2>6, <3>2, PartsAreThere
  <2> QED
    BY <2>6, <2>7 DEF q
<1> DEFINE S == {n \in Nat : n < Len(path) => \A m \in 0..n : Upto(path, m) \notin C}
<1>6. 0 \in S
  BY <1>4, <1>5
<1>7. ASSUME NEW n \in Nat, n \in S PROVE n + 1 \in S
  <2>1. SUFFICES ASSUME n + 1 < Len(path) PROVE \A m \in 0..(n + 1) : Upto(path, m) \notin C
    OBVIOUS
  <2>2. \A m \in 0..n : Upto(path, m) \notin C
    BY <1>4, <1>7, <2>1
  <2>3. n + 1 \in 0..(Len(path) - 1) /\ (n + 1) - 1 = n
    BY <1>4, <2>1
  <2>4. Upto(path, n + 1) \notin C
    BY <1>5, <2>2, <2>3
  <2> QED
    BY <2>2, <2>4
<1> HIDE DEF S
<1>8. Nat \subseteq S
  BY <1>6, <1>7, Induct
<1>9. ASSUME NEW n \in 0..(Len(path) - 1) PROVE Upto(path, n) \notin C
  <2>1. n \in Nat /\ n < Len(path) /\ n \in 0..n
    BY <1>4
  <2> QED
    BY <1>8, <2>1 DEF S
<1>10. ASSUME NEW n \in 0..(Len(path) - 1) PROVE Upto(path, n) \in DOMAIN invoice
  <2>1. \A m \in 0..(n - 1) : m \in 0..(Len(path) - 1)
    BY <1>4
  <2> QED
    BY <1>5, <1>9, <2>1
<1> QED
  BY <1>9, <1>10, AboveIsUpto DEF invoice, C

\* _drop_unreadable() and the schema together: wherever the schema has a field to read, an
\* accepted invoice has there what the answer said, or nothing where it said, in whichever
\* way, that it read nothing.  No other field and no wrapper around it changes that.
THEOREM InvoiceSaysWhatWasRead ==
    ASSUME NEW answer, IsTree(answer), Accepted(_invoice_of(answer)),
           NEW path \in Seq(STRING), FieldAtPath(path).kind = "read",
           Append(path, "value") \in DOMAIN answer
    PROVE  ValueAt(_invoice_of(answer).invoice, path) = SaidAt(answer, path)
<1> DEFINE invoice == Theirs(answer)
           v == Append(path, "value")
           C == Collapsed(answer)
<1>1. _invoice_of(answer).invoice = invoice /\ Rooted(invoice) /\ Misfits(invoice) = {}
  BY AcceptedIs, TheirsIsRooted
<1> HIDE DEF invoice
<1>2. \A p \in DOMAIN invoice : FitsField(FieldAtPath(p), invoice[p], IsFilled(invoice, p))
  BY <1>1, EverythingFits
<1>3. path \in DOMAIN answer /\ answer[path].t = "object"
  BY ValuesAreInObjects
<1>4. v \in Seq(STRING) /\ v # <<>> /\ v[1] = path[1]
  <2>1. Len(path) \in Nat /\ Len(path) # 0
    BY FieldsAreTheirs
  <2>2. Len(v) = Len(path) + 1 /\ \A i \in 1..Len(path) : v[i] = path[i]
    OBVIOUS
  <2>3. v \in Seq(STRING)
    BY NamesAreStrings
  <2> HIDE DEF v
  <2> QED
    BY <2>1, <2>2, <2>3
<1> HIDE DEF v
<1>5. path \in C <=> _means_nothing(answer[v])
  BY <1>3 DEF Collapsed, v
<1> HIDE DEF C
<1>6. /\ \A p : p \in DOMAIN invoice <=>
                  /\ p \in DOMAIN answer /\ Above(p) \cap C = {}
                  /\ ~(p # <<>> /\ p[1] \in OURS_NOT_THE_MODELS)
      /\ \A p \in DOMAIN invoice : invoice[p] = IF p \in C THEN Null ELSE answer[p]
  BY TheirsIs DEF invoice, C
<1>7. path \in Above(v)
  BY OneKeyAbove DEF v
<1>8. CASE path \in C
  <2>1. v \notin DOMAIN invoice
    BY <1>6, <1>7, <1>8
  <2> QED
    BY <1>1, <1>5, <1>8, <2>1 DEF ValueAt, SaidAt, v
<1>9. CASE path \notin C
  <2>1. Above(path) \subseteq DOMAIN answer
    BY <1>3 DEF IsTree
  <2>2. Above(path) \cap C = {}
    BY <1>1, <2>1, WayIsThere DEF invoice, C
  <2>3. Above(v) \cap C = {}
    BY <1>9, <2>2, NamesAreStrings, OneFurtherIs DEF v
  <2>4. v \in DOMAIN answer
    BY DEF v
  <2>5. v \in DOMAIN invoice
    BY <1>4, <1>6, <2>3, <2>4, FieldsAreTheirs
  <2>6. FieldAtPath(v).kind = "value"
    <3>1. FieldAtPath(v) = FieldBelow(FieldAtPath(path), "value")
      BY NamesAreStrings, FieldBelowIs DEF v
    <3> QED
      BY <3>1 DEF FieldBelow, Read
  <2>7. v \notin C
    BY <1>2, <1>6, <2>5, <2>6, ValuesAreThere
  <2>8. invoice[v] = answer[v]
    BY <1>6, <2>5, <2>7
  <2> QED
    BY <1>1, <1>5, <1>9, <2>5, <2>8 DEF ValueAt, SaidAt, v
<1> QED
  BY <1>8, <1>9

\* What was parsed is the answer of the last call, which has ended.
ParsedIsTheAnswer ==
    parsed # NotYet =>
        /\ phase = "idle" /\ outcome.kind = "answered" /\ outcome.text \in Texts
        /\ parsed = _invoice_of(Answer(outcome.text))

\* A call that was answered has one of the texts.
LEMMA AnswersAreTexts ==
    ASSUME TypeOK, outcome.kind = "answered"
    PROVE  outcome.text \in Texts
<1>1. PICK text \in Texts : outcome = Answered(text)
  BY DEF TypeOK, Pending, LlmRequestError
<1> QED
  BY <1>1 DEF Answered

\* No step changes what was parsed, but for parsing.
LEMMA ParsedKeeps ==
    ASSUME TypeOK, ParsedIsTheAnswer, [ModelNext]_ModelVars
    PROVE  ParsedIsTheAnswer'
<1> USE DEF ParsedIsTheAnswer
<1>1. CASE Ask
  BY <1>1 DEF Ask
<1>2. CASE OnTheWire /\ UNCHANGED parsed
  <2>1. phase # "idle"
    BY <1>2 DEF OnTheWire, Progress, Tick, Respond, TransportFails, TimesOut
  <2> QED
    BY <1>2, <2>1
<1>3. CASE Parse
  <2>1. phase = "idle"
    BY <1>3 DEF Parse, TypeOK, Pending
  <2>2. outcome' = outcome /\ phase' = phase /\ outcome.kind = "answered"
        /\ parsed' = _invoice_of(Answer(outcome.text))
    BY <1>3 DEF Parse, vars
  <2> QED
    BY <2>1, <2>2, AnswersAreTexts
<1>4. CASE UNCHANGED ModelVars
  BY <1>4 DEF ModelVars, vars
<1> QED
  BY <1>1, <1>2, <1>3, <1>4 DEF ModelNext

\* What extract() returns is the invoice of the last answer: at every field it says what that
\* answer said there, and nothing where the answer said it read nothing.
ReturnsWhatWasRead ==
    Accepted(parsed) =>
        \A path \in Seq(STRING) :
            /\ FieldAtPath(path).kind = "read"
            /\ Append(path, "value") \in DOMAIN Answer(outcome.text)
            => ValueAt(parsed.invoice, path) = SaidAt(Answer(outcome.text), path)

\* In every state, what was accepted says what the last answer said.
THEOREM ReturnsTheAnswer == ModelSpec => []ReturnsWhatWasRead
<1>1. ModelInit => ParsedIsTheAnswer
  BY DEF ModelInit, ParsedIsTheAnswer
<1>2. TypeOK /\ ParsedIsTheAnswer /\ [ModelNext]_ModelVars => ParsedIsTheAnswer'
  BY ParsedKeeps
<1>3. ParsedIsTheAnswer => ReturnsWhatWasRead
  <2> SUFFICES ASSUME ParsedIsTheAnswer, Accepted(parsed), NEW path \in Seq(STRING),
                      FieldAtPath(path).kind = "read",
                      Append(path, "value") \in DOMAIN Answer(outcome.text)
               PROVE  ValueAt(parsed.invoice, path) = SaidAt(Answer(outcome.text), path)
    BY DEF ReturnsWhatWasRead
  <2>1. parsed # NotYet
    <3>1. parsed.shape = "object"
      BY DEF Accepted
    <3>2. NotYet.shape = "not yet"
      BY DEF NotYet, Refused
    <3> QED
      BY <3>1, <3>2
  <2>2. outcome.text \in Texts /\ parsed = _invoice_of(Answer(outcome.text))
    BY <2>1 DEF ParsedIsTheAnswer
  <2>3. IsTree(Answer(outcome.text))
    BY <2>2, ModelAnswerAssumption
  <2> QED
    BY <2>2, <2>3, InvoiceSaysWhatWasRead
<1> QED
  BY <1>1, <1>2, <1>3, TypeCorrect, PTL DEF ModelSpec

-----------------------------------------------------------------------------
(* How what is wrong is named.                                             *)

SellersTerms == {"BT-27", "BT-31", "BT-34", "BT-34-1", "BT-35", "BT-36", "BT-37", "BT-38",
                 "BT-39", "BT-40"}
BuyersTerms == {"BT-44", "BT-48", "BT-49", "BT-49-1", "BT-50", "BT-51", "BT-52", "BT-53",
                "BT-54", "BT-55"}

\* The schema, model by model: the seller and the buyer are the parties of the invoice, an
\* address is a part of a party, and only parties and addresses have terms for either.
LEMMA FieldsOfTheInvoice ==
    ASSUME NEW key \in DOMAIN Schema["Invoice"]
    PROVE  LET field == Schema["Invoice"][key]
           IN  \/ field.kind = "part" /\ field.of = "Party" /\ field.bt = <<>> /\ key \in _ROLES
               \/ /\ field.kind \in {"part", "several"} /\ field.bt = <<>>
                  /\ field.of \in {"InvoiceLine", "VatBreakdown", "Totals"}
               \/ field.kind = "read" /\ Len(field.bt) = 1 /\ field.bt[1] \notin {"either", "none"}
<1>1. CASE key \in _ROLES
  BY <1>1 DEF Schema, Invoice, Part, _ROLES
<1>2. CASE key \in {"lines", "vat_breakdown", "totals"}
  BY <1>2 DEF Schema, Invoice, Part, Several
<1>3. CASE key \notin _ROLES /\ key \notin {"lines", "vat_breakdown", "totals"}
  <2>1. Schema["Invoice"][key].kind = "read"
    BY <1>3 DEF Schema, Invoice, Read, MayRead, _ROLES
  <2>2. Len(Schema["Invoice"][key].bt) = 1
    BY <1>3 DEF Schema, Invoice, Read, MayRead, _ROLES
  <2>3. Schema["Invoice"][key].bt[1] \notin {"either", "none"}
    BY <1>3 DEF Schema, Invoice, Read, MayRead, _ROLES
  <2> QED
    BY <2>1, <2>2, <2>3
<1> QED
  BY <1>1, <1>2, <1>3

\* Below a party a field has the seller's term first and the buyer's second.
LEMMA FieldsOfAParty ==
    ASSUME NEW key \in DOMAIN Schema["Party"]
    PROVE  LET field == Schema["Party"][key]
           IN  /\ key \notin _ROLES
               /\ \/ field.kind = "part" /\ field.of = "PostalAddress" /\ field.bt = <<>>
                  \/ /\ field.kind = "read" /\ Len(field.bt) = 2
                     /\ field.bt[1] \in SellersTerms /\ field.bt[2] \in BuyersTerms
BY DEF Schema, Party, Part, Read, MayRead, _ROLES, SellersTerms, BuyersTerms

\* So it has below an address.
LEMMA FieldsOfAnAddress ==
    ASSUME NEW key \in DOMAIN Schema["PostalAddress"]
    PROVE  LET field == Schema["PostalAddress"][key]
           IN  /\ key \notin _ROLES
               /\ field.kind = "read" /\ Len(field.bt) = 2
               /\ field.bt[1] \in SellersTerms /\ field.bt[2] \in BuyersTerms
BY DEF Schema, PostalAddress, Read, MayRead, _ROLES, SellersTerms, BuyersTerms

\* Everywhere else below the invoice it has one term.
LEMMA FieldsOfTheRest ==
    ASSUME NEW model \in {"InvoiceLine", "VatBreakdown", "Totals"},
           NEW key \in DOMAIN Schema[model]
    PROVE  LET field == Schema[model][key]
           IN  field.kind = "read" /\ Len(field.bt) = 1 /\ field.bt[1] \notin {"either", "none"}
<1>1. \A k \in DOMAIN Schema["InvoiceLine"] :
         LET field == Schema["InvoiceLine"][k]
         IN  field.kind = "read" /\ Len(field.bt) = 1 /\ field.bt[1] \notin {"either", "none"}
  BY DEF Schema, InvoiceLine, Read, MayRead
<1>2. \A k \in DOMAIN Schema["VatBreakdown"] :
         LET field == Schema["VatBreakdown"][k]
         IN  field.kind = "read" /\ Len(field.bt) = 1 /\ field.bt[1] \notin {"either", "none"}
  BY DEF Schema, VatBreakdown, Read, MayRead
<1>3. \A k \in DOMAIN Schema["Totals"] :
         LET field == Schema["Totals"][k]
         IN  field.kind = "read" /\ Len(field.bt) = 1 /\ field.bt[1] \notin {"either", "none"}
  BY DEF Schema, Totals, Read, MayRead
<1> QED
  BY <1>1, <1>2, <1>3

\* g[i] is what describe_errors() has found at the first i keys of loc.
OneFurther(seen, key) == Further(seen, key, IF key \in _ROLES THEN key ELSE seen.role)
TermsAlong(g, loc, n) ==
    g = [i \in 0..n |-> IF i = 0 THEN Seen("Invoice", "none", NoTerm)
                                 ELSE OneFurther(g[i - 1], loc[i])]

\* The walk of _bt_at() has a state at every key.
LEMMA TermsAlongExist ==
    ASSUME NEW loc
    PROVE  \A n \in Nat : \E g : TermsAlong(g, loc, n)
<1> DEFINE S == {n \in Nat : \E g : TermsAlong(g, loc, n)}
<1>1. 0 \in S
  <2>1. TermsAlong([i \in 0..0 |-> Seen("Invoice", "none", NoTerm)], loc, 0)
    BY DEF TermsAlong
  <2> QED
    BY <2>1
<1>2. ASSUME NEW n \in Nat, n \in S PROVE n + 1 \in S
  <2>1. PICK g : TermsAlong(g, loc, n)
    BY <1>2
  <2> DEFINE h == [i \in 0..(n + 1) |-> IF i = n + 1 THEN OneFurther(g[n], loc[n + 1]) ELSE g[i]]
  <2>2. ASSUME NEW i \in 0..(n + 1)
        PROVE  h[i] = IF i = 0 THEN Seen("Invoice", "none", NoTerm)
                               ELSE OneFurther(h[i - 1], loc[i])
    BY <2>1 DEF TermsAlong
  <2>3. TermsAlong(h, loc, n + 1)
    BY <2>2 DEF TermsAlong
  <2> QED
    BY <2>3
<1> HIDE DEF S
<1>3. Nat \subseteq S
  BY <1>1, <1>2, Induct
<1> QED
  BY <1>3 DEF S

\* And ends with the term _bt_at() returns.
LEMMA TermAtTheEnd ==
    ASSUME NEW loc, Len(loc) \in Nat
    PROVE  \E g : TermsAlong(g, loc, Len(loc)) /\ _bt_at("Invoice", loc) = g[Len(loc)].code
<1> DEFINE G == CHOOSE g : TermsAlong(g, loc, Len(loc))
<1>1. _bt_at("Invoice", loc) = G[Len(loc)].code
  BY DEF _bt_at, TermsAlong, OneFurther
<1>2. TermsAlong(G, loc, Len(loc))
  BY TermsAlongExist
<1> QED
  BY <1>1, <1>2

\* What one key does to the walk.
LEMMA OneKeyFurther ==
    ASSUME NEW seen, NEW key
    PROVE  LET field == Schema[seen.model][key]
               role == IF key \in _ROLES THEN key ELSE seen.role
               found == _bt_of(field, role)
           IN  IF seen.model # "none" /\ key \in DOMAIN Schema[seen.model]
               THEN /\ OneFurther(seen, key).model = (IF field.kind = "read" THEN "none" ELSE field.of)
                    /\ OneFurther(seen, key).role = role
                    /\ OneFurther(seen, key).code = (IF found = NoTerm THEN seen.code ELSE found)
               ELSE OneFurther(seen, key) = seen
BY DEF OneFurther, Further, Seen, _model_of

\* A term of two is that of the side it is for.
LEMMA TermOfASide ==
    ASSUME NEW field, NEW role \in _ROLES, Len(field.bt) = 2
    PROVE  _bt_of(field, role) = IF role = "seller" THEN field.bt[1] ELSE field.bt[2]
BY DEF _bt_of, _ROLES

\* Which term _bt_of() returns of one or none.
LEMMA TermOfOne ==
    ASSUME NEW field, NEW role
    PROVE  /\ Len(field.bt) = 1 => _bt_of(field, role) = field.bt[1]
           /\ field.bt = <<>> => _bt_of(field, role) = NoTerm
BY DEF _bt_of

Rest == {"InvoiceLine", "VatBreakdown", "Totals"}
Sides == {"Party", "PostalAddress"}

\* Wherever the way leads, a party and its address are somebody's.
IsSomebodys(seen) ==
    /\ seen.model \in {"none", "Invoice"} \cup Rest \cup Sides
    /\ seen.model \in Sides => seen.role \in _ROLES
    /\ seen.code # "either"

\* A key keeps it decided whose term is found.
LEMMA StaysSomebodys ==
    ASSUME NEW seen, NEW key, IsSomebodys(seen)
    PROVE  IsSomebodys(OneFurther(seen, key))
<1> DEFINE field == Schema[seen.model][key]
           role == IF key \in _ROLES THEN key ELSE seen.role
           next == OneFurther(seen, key)
<1> SUFFICES IsSomebodys(next)
  OBVIOUS
<1>1. CASE seen.model = "none" \/ key \notin DOMAIN Schema[seen.model]
  BY <1>1, OneKeyFurther
<1>2. CASE seen.model # "none" /\ key \in DOMAIN Schema[seen.model]
  <2>1. /\ next.model = (IF field.kind = "read" THEN "none" ELSE field.of)
        /\ next.role = role
        /\ next.code = (IF _bt_of(field, role) = NoTerm THEN seen.code ELSE _bt_of(field, role))
    BY <1>2, OneKeyFurther
  <2>2. CASE seen.model = "Invoice"
    <3>1. \/ field.kind = "part" /\ field.of = "Party" /\ field.bt = <<>> /\ key \in _ROLES
          \/ field.kind \in {"part", "several"} /\ field.bt = <<>> /\ field.of \in Rest
          \/ field.kind = "read" /\ Len(field.bt) = 1 /\ field.bt[1] \notin {"either", "none"}
      BY <1>2, <2>2, FieldsOfTheInvoice DEF Rest
    <3> HIDE DEF next, field
    <3> QED
      BY <2>1, <3>1, TermOfOne DEF IsSomebodys, Rest, Sides
  <2>3. CASE seen.model \in Sides
    <3>1. /\ key \notin _ROLES
          /\ \/ field.kind = "part" /\ field.of = "PostalAddress" /\ field.bt = <<>>
             \/ /\ field.kind = "read" /\ Len(field.bt) = 2
                /\ field.bt[1] \in SellersTerms /\ field.bt[2] \in BuyersTerms
      BY <1>2, <2>3, FieldsOfAParty, FieldsOfAnAddress DEF Sides
    <3>2. role = seen.role /\ role \in _ROLES
      BY <2>3, <3>1 DEF IsSomebodys
    <3> HIDE DEF next, field, role
    <3>3. _bt_of(field, role) # "either"
      <4>1. "either" \notin SellersTerms /\ "either" \notin BuyersTerms /\ NoTerm # "either"
        BY DEF SellersTerms, BuyersTerms, NoTerm
      <4> QED
        BY <3>1, <3>2, <4>1, TermOfASide, TermOfOne
    <3> QED
      BY <2>1, <3>1, <3>2, <3>3 DEF IsSomebodys, Rest, Sides
  <2>4. CASE seen.model \in Rest
    <3>1. field.kind = "read" /\ Len(field.bt) = 1 /\ field.bt[1] \notin {"either", "none"}
      BY <1>2, <2>4, FieldsOfTheRest DEF Rest
    <3> HIDE DEF next, field
    <3> QED
      BY <2>1, <3>1, TermOfOne DEF IsSomebodys, Rest, Sides
  <2> QED
    BY <1>2, <2>2, <2>3, <2>4 DEF IsSomebodys
<1> QED
  BY <1>1, <1>2

\* describe_errors(): whatever is wrong, however deep and below whatever keys, the term it is
\* named with is one term and never a choice of the seller's and the buyer's.
THEOREM TermsAreNotAmbiguous ==
    ASSUME NEW locs \in SUBSET Seq(STRING), NEW problem \in describe_errors("Invoice", locs)
    PROVE  problem.code # "either"
<1>1. PICK loc \in Seq(STRING) : problem = [where |-> loc, code |-> _bt_at("Invoice", loc)]
  BY DEF describe_errors
<1>2. Len(loc) \in Nat
  OBVIOUS
<1>3. PICK g : TermsAlong(g, loc, Len(loc)) /\ _bt_at("Invoice", loc) = g[Len(loc)].code
  BY <1>2, TermAtTheEnd
<1> DEFINE S == {i \in Nat : i <= Len(loc) => IsSomebodys(g[i])}
<1>4. 0 \in S
  <2>1. IsSomebodys(Seen("Invoice", "none", NoTerm))
    BY DEF IsSomebodys, Seen, NoTerm, Sides
  <2>2. g[0] = Seen("Invoice", "none", NoTerm)
    BY <1>2, <1>3 DEF TermsAlong
  <2> QED
    BY <2>1, <2>2
<1>5. ASSUME NEW i \in Nat, i \in S PROVE i + 1 \in S
  <2>1. SUFFICES ASSUME i + 1 <= Len(loc) PROVE IsSomebodys(g[i + 1])
    OBVIOUS
  <2>2. g[i + 1] = OneFurther(g[i], loc[i + 1])
    BY <1>2, <1>3, <2>1 DEF TermsAlong
  <2>3. IsSomebodys(g[i])
    BY <1>2, <1>5, <2>1
  <2> QED
    BY <2>2, <2>3, StaysSomebodys
<1> HIDE DEF S
<1>6. Nat \subseteq S
  BY <1>4, <1>5, Induct
<1>7. IsSomebodys(g[Len(loc)])
  BY <1>2, <1>6 DEF S
<1> QED
  BY <1>1, <1>3, <1>7 DEF IsSomebodys

TermsFor(side) == IF side = "seller" THEN SellersTerms ELSE BuyersTerms

\* Below the seller nothing is the buyer's, and the other way round.
IsOnTheSideOf(side, seen) ==
    /\ seen.model \in Sides \cup {"none"}
    /\ seen.model \in Sides => seen.role = side
    /\ seen.code \in TermsFor(side) \cup {NoTerm}

\* A key keeps the walk on its side.
LEMMA StaysOnTheSide ==
    ASSUME NEW side \in _ROLES, NEW seen, NEW key, IsOnTheSideOf(side, seen)
    PROVE  IsOnTheSideOf(side, OneFurther(seen, key))
<1> DEFINE field == Schema[seen.model][key]
           role == IF key \in _ROLES THEN key ELSE seen.role
           next == OneFurther(seen, key)
<1> SUFFICES IsOnTheSideOf(side, next)
  OBVIOUS
<1>1. CASE seen.model = "none" \/ key \notin DOMAIN Schema[seen.model]
  BY <1>1, OneKeyFurther
<1>2. CASE seen.model # "none" /\ key \in DOMAIN Schema[seen.model]
  <2>1. /\ next.model = (IF field.kind = "read" THEN "none" ELSE field.of)
        /\ next.role = role
        /\ next.code = (IF _bt_of(field, role) = NoTerm THEN seen.code ELSE _bt_of(field, role))
    BY <1>2, OneKeyFurther
  <2>2. seen.model \in Sides /\ seen.role = side
    BY <1>2 DEF IsOnTheSideOf
  <2>3. /\ key \notin _ROLES
        /\ \/ field.kind = "part" /\ field.of = "PostalAddress" /\ field.bt = <<>>
           \/ /\ field.kind = "read" /\ Len(field.bt) = 2
              /\ field.bt[1] \in SellersTerms /\ field.bt[2] \in BuyersTerms
    BY <1>2, <2>2, FieldsOfAParty, FieldsOfAnAddress DEF Sides
  <2>4. role = side
    BY <2>2, <2>3
  <2> HIDE DEF next, field, role
  <2>5. _bt_of(field, role) \in TermsFor(side) \cup {NoTerm}
    <3>1. CASE field.bt = <<>>
      BY <3>1, <2>4, TermOfOne
    <3>2. CASE field.bt # <<>>
      BY <2>3, <2>4, <3>2, TermOfASide DEF TermsFor
    <3> QED
      BY <3>1, <3>2
  <2> QED
    BY <2>1, <2>3, <2>4, <2>5 DEF IsOnTheSideOf, Sides
<1> QED
  BY <1>1, <1>2

\* The terms of the two sides are different ones.
LEMMA TwoSides == SellersTerms \cap BuyersTerms = {}
BY DEF SellersTerms, BuyersTerms

\* _bt_at(): what is wrong below the seller is named with a term of the seller's, below the
\* buyer with a term of the buyer's, or with none, however deep it is and whatever keys the
\* model made up on the way.
THEOREM EachSideHasItsTerms ==
    ASSUME NEW locs \in SUBSET Seq(STRING), NEW problem \in describe_errors("Invoice", locs),
           NEW side \in _ROLES, problem.where # <<>>, problem.where[1] = side
    PROVE  problem.code \in TermsFor(side) \cup {NoTerm}
<1>1. PICK loc \in Seq(STRING) : problem = [where |-> loc, code |-> _bt_at("Invoice", loc)]
  BY DEF describe_errors
<1>2. Len(loc) \in Nat /\ Len(loc) > 0 /\ loc[1] = side
  BY <1>1
<1>3. PICK g : TermsAlong(g, loc, Len(loc)) /\ _bt_at("Invoice", loc) = g[Len(loc)].code
  BY <1>2, TermAtTheEnd
<1>4. \A i \in 1..Len(loc) : g[i] = OneFurther(g[i - 1], loc[i])
  BY <1>2, <1>3 DEF TermsAlong
<1> DEFINE S == {i \in Nat : i + 1 <= Len(loc) => IsOnTheSideOf(side, g[i + 1])}
<1>5. 0 \in S
  <2> DEFINE root == Seen("Invoice", "none", NoTerm)
             field == Schema["Invoice"][side]
  <2>1. g[0] = root
    BY <1>2, <1>3 DEF TermsAlong
  <2>2. side \in DOMAIN Schema["Invoice"] /\ field = Part("Party")
    BY DEF Schema, Invoice, _ROLES
  <2>3. root.model = "Invoice" /\ root.code = NoTerm
    BY DEF Seen
  <2> HIDE DEF root
  <2>4. _bt_of(field, side) = NoTerm
    BY <2>2 DEF _bt_of, Part
  <2>5. /\ OneFurther(root, side).model = "Party" /\ OneFurther(root, side).role = side
        /\ OneFurther(root, side).code = NoTerm
    BY <2>2, <2>3, <2>4, OneKeyFurther DEF Part
  <2>6. g[0 + 1] = OneFurther(root, side)
    BY <1>2, <1>4, <2>1
  <2> QED
    BY <2>5, <2>6 DEF IsOnTheSideOf, Sides
<1>6. ASSUME NEW i \in Nat, i \in S PROVE i + 1 \in S
  <2>1. SUFFICES ASSUME i + 1 + 1 <= Len(loc) PROVE IsOnTheSideOf(side, g[i + 1 + 1])
    OBVIOUS
  <2>2. g[i + 1 + 1] = OneFurther(g[i + 1], loc[i + 1 + 1])
    BY <1>2, <1>4, <2>1
  <2>3. IsOnTheSideOf(side, g[i + 1])
    BY <1>2, <1>6, <2>1
  <2> QED
    BY <2>2, <2>3, StaysOnTheSide
<1> HIDE DEF S
<1>7. Nat \subseteq S
  BY <1>5, <1>6, Induct
<1>8. IsOnTheSideOf(side, g[Len(loc)])
  <2>1. Len(loc) - 1 \in Nat /\ (Len(loc) - 1) + 1 = Len(loc)
    BY <1>2
  <2>2. \A i \in Nat : i + 1 <= Len(loc) => IsOnTheSideOf(side, g[i + 1])
    BY <1>7 DEF S
  <2>3. Len(loc) <= Len(loc)
    BY <1>2
  <2> QED
    BY <2>1, <2>2, <2>3
<1> QED
  BY <1>1, <1>3, <1>8 DEF IsOnTheSideOf

\* On the way to a field that is read, what describe_errors() has found is the part the way
\* is in, and whose it is.
IsIn(field, seen, first) ==
    /\ seen.model = field.of /\ field.of \in Rest \cup Sides
    /\ field.of \in Sides => field.kind = "part" /\ first \in _ROLES /\ seen.role = first
    /\ field.of \in Rest => field.kind \in {"part", "several"}

\* A key that leads to a part leads the walk to its model.
LEMMA StaysIn ==
    ASSUME NEW field, NEW seen, NEW first, NEW key, IsIn(field, seen, first),
           FieldBelow(field, key).kind \in {"part", "several"},
           field.kind = "several" => key \notin DOMAIN Schema[field.of]
    PROVE  IsIn(FieldBelow(field, key), OneFurther(seen, key), first)
<1> DEFINE below == FieldBelow(field, key)
           next == OneFurther(seen, key)
<1> SUFFICES IsIn(below, next, first)
  OBVIOUS
<1>1. field.kind \in {"part", "several"}
  BY DEF IsIn
<1>2. CASE field.kind = "several"
  <2>1. below = Part(field.of)
    BY <1>2 DEF FieldBelow
  <2>2. next = seen
    BY <1>2, OneKeyFurther DEF IsIn
  <2> HIDE DEF below, next
  <2> QED
    BY <1>2, <2>1, <2>2 DEF IsIn, Part, Rest, Sides
<1>3. CASE field.kind = "part"
  <2>1. key \in DOMAIN Schema[field.of] /\ below = Schema[field.of][key]
    BY <1>3 DEF FieldBelow, NoField
  <2>2. field.of = "Party"
    BY <2>1, FieldsOfAnAddress, FieldsOfTheRest DEF IsIn, Rest, Sides
  <2>3. below.kind = "part" /\ below.of = "PostalAddress" /\ key \notin _ROLES
    BY <2>1, <2>2, FieldsOfAParty
  <2>4. seen.model = "Party" /\ seen.role = first /\ first \in _ROLES
    BY <2>2 DEF IsIn, Sides
  <2>5. next.model = "PostalAddress" /\ next.role = first
    BY <2>1, <2>2, <2>3, <2>4, OneKeyFurther
  <2> HIDE DEF below, next
  <2> QED
    BY <2>3, <2>4, <2>5 DEF IsIn, Rest, Sides
<1> QED
  BY <1>1, <1>2, <1>3

\* A key that leads to a field to read ends the walk at its term.
LEMMA ArrivesAt ==
    ASSUME NEW field, NEW seen, NEW first, NEW key, IsIn(field, seen, first),
           FieldBelow(field, key).kind = "read"
    PROVE  /\ OneFurther(seen, key).model = "none"
           /\ OneFurther(seen, key).code = _bt_of(FieldBelow(field, key), first)
<1> DEFINE below == FieldBelow(field, key)
           next == OneFurther(seen, key)
           role == IF key \in _ROLES THEN key ELSE seen.role
<1>1. field.kind = "part"
  BY KindBelow
<1>2. key \in DOMAIN Schema[field.of] /\ below = Schema[field.of][key]
  BY <1>1 DEF FieldBelow, NoField
<1>3. seen.model = field.of /\ seen.model # "none"
  BY DEF IsIn, Rest, Sides
<1>4. next.model = "none" /\ next.code = IF _bt_of(below, role) = NoTerm THEN seen.code
                                                                         ELSE _bt_of(below, role)
  BY <1>2, <1>3, OneKeyFurther
<1>5. _bt_of(below, role) # NoTerm /\ _bt_of(below, role) = _bt_of(below, first)
  <2>1. CASE field.of \in Rest
    <3>1. Len(below.bt) = 1 /\ below.bt[1] \notin {"either", "none"}
      BY <1>2, <2>1, FieldsOfTheRest DEF Rest
    <3> HIDE DEF below
    <3> QED
      BY <3>1, TermOfOne DEF NoTerm
  <2>2. CASE field.of \in Sides
    <3>1. /\ key \notin _ROLES /\ Len(below.bt) = 2
          /\ below.bt[1] \in SellersTerms /\ below.bt[2] \in BuyersTerms
      BY <1>2, <2>2, FieldsOfAParty, FieldsOfAnAddress DEF Sides
    <3>2. role = first /\ first \in _ROLES
      BY <2>2, <3>1 DEF IsIn
    <3>3. NoTerm \notin SellersTerms /\ NoTerm \notin BuyersTerms
      BY DEF NoTerm, SellersTerms, BuyersTerms
    <3> HIDE DEF below, role
    <3> QED
      BY <3>1, <3>2, <3>3, TermOfASide
  <2> QED
    BY <2>1, <2>2 DEF IsIn
<1> HIDE DEF below, role
<1> QED
  BY <1>4, <1>5 DEF below

\* From the root, at once or into a part.
LEMMA SetsOut ==
    ASSUME NEW key, NEW seen, seen = Seen("Invoice", "none", NoTerm)
    PROVE  LET field == FieldBelow(Part("Invoice"), key)
               next == OneFurther(seen, key)
           IN  /\ field.kind = "read" => next.model = "none" /\ next.code = _bt_of(field, key)
               /\ field.kind \in {"part", "several"} => IsIn(field, next, key)
<1> DEFINE field == FieldBelow(Part("Invoice"), key)
           next == OneFurther(seen, key)
           role == IF key \in _ROLES THEN key ELSE seen.role
<1> SUFFICES ASSUME field.kind \in {"read", "part", "several"}
             PROVE  /\ field.kind = "read" => next.model = "none" /\ next.code = _bt_of(field, key)
                    /\ field.kind \in {"part", "several"} => IsIn(field, next, key)
  OBVIOUS
<1>1. seen.model = "Invoice"
  BY DEF Seen
<1>2. key \in DOMAIN Schema["Invoice"] /\ field = Schema["Invoice"][key]
  BY DEF FieldBelow, NoField, Part
<1>3. \/ field.kind = "part" /\ field.of = "Party" /\ field.bt = <<>> /\ key \in _ROLES
      \/ field.kind \in {"part", "several"} /\ field.bt = <<>> /\ field.of \in Rest
      \/ field.kind = "read" /\ Len(field.bt) = 1 /\ field.bt[1] \notin {"either", "none"}
  BY <1>2, FieldsOfTheInvoice DEF Rest
<1>4. /\ next.model = (IF field.kind = "read" THEN "none" ELSE field.of)
      /\ next.role = role
      /\ next.code = (IF _bt_of(field, role) = NoTerm THEN seen.code ELSE _bt_of(field, role))
  BY <1>1, <1>2, OneKeyFurther
<1> HIDE DEF field, next
<1>5. field.kind = "read" => _bt_of(field, role) = _bt_of(field, key) /\ _bt_of(field, role) # NoTerm
  BY <1>3, TermOfOne DEF NoTerm
<1>6. CASE field.kind = "read"
  BY <1>4, <1>5, <1>6
<1>7. CASE field.kind # "read"
  BY <1>3, <1>4, <1>7 DEF IsIn, Rest, Sides
<1> QED
  BY <1>6, <1>7

\* _bt_at(): a problem at a field, or anywhere below one, is named with the term of that very
\* field: of its two terms, where it has two, that of the side the path starts with.
THEOREM ProblemsAreNamedByTheirField ==
    ASSUME NEW locs \in SUBSET Seq(STRING), NEW problem \in describe_errors("Invoice", locs),
           ItemsAreNumbered(problem.where),
           NEW n \in 1..Len(problem.where),
           FieldAtPath(Upto(problem.where, n)).kind = "read"
    PROVE  problem.code = _bt_of(FieldAtPath(Upto(problem.where, n)), problem.where[1])
<1>1. PICK loc \in Seq(STRING) : problem = [where |-> loc, code |-> _bt_at("Invoice", loc)]
  BY DEF describe_errors
<1>2. Len(loc) \in Nat /\ n \in 1..Len(loc) /\ n \in 0..Len(loc) /\ n \in Nat
  BY <1>1
<1>3. PICK g : TermsAlong(g, loc, Len(loc)) /\ _bt_at("Invoice", loc) = g[Len(loc)].code
  BY <1>2, TermAtTheEnd
<1>4. /\ g[0] = Seen("Invoice", "none", NoTerm)
      /\ \A i \in 1..Len(loc) : g[i] = OneFurther(g[i - 1], loc[i])
  BY <1>2, <1>3 DEF TermsAlong
<1> DEFINE F(i) == FieldAtPath(Upto(loc, i))
           first == loc[1]
<1>5. F(0) = Part("Invoice") /\ \A i \in 1..Len(loc) : F(i) = FieldBelow(F(i - 1), loc[i])
  <2>1. Upto(loc, 0) = <<>>
    BY <1>2, UptoIs
  <2>2. F(0) = Part("Invoice")
    BY <2>1, FieldAtTheRoot
  <2>3. \A i \in 1..Len(loc) : F(i) = FieldBelow(F(i - 1), loc[i])
    BY FieldOneFurther
  <2> QED
    BY <2>2, <2>3
<1>6. F(n).kind = "read"
  BY <1>1
<1>7. \A m \in 0..(n - 1) : F(m).kind \in {"part", "several"}
  BY <1>2, <1>6, WayToAField
<1>8. \A m \in 0..(Len(loc) - 1) :
         F(m).kind = "several" => loc[m + 1] \notin DOMAIN Schema[F(m).of]
  <2>1. ASSUME NEW m \in 0..(Len(loc) - 1) PROVE Upto(loc, m) \in Above(loc) /\ Len(Upto(loc, m)) = m
    BY <1>2, AboveIsUpto, UptoIs
  <2>2. problem.where = loc
    BY <1>1
  <2> QED
    BY <2>1, <2>2 DEF ItemsAreNumbered
<1> HIDE DEF F
<1>9. /\ F(1).kind = "read" => g[1].model = "none" /\ g[1].code = _bt_of(F(1), first)
      /\ F(1).kind \in {"part", "several"} => IsIn(F(1), g[1], first)
  <2>1. F(1) = FieldBelow(Part("Invoice"), first) /\ g[1] = OneFurther(g[0], first)
    BY <1>2, <1>4, <1>5
  <2> HIDE DEF first
  <2> QED
    BY <1>4, <2>1, SetsOut
<1> HIDE DEF first
<1> DEFINE S == {i \in Nat : i + 1 < n => IsIn(F(i + 1), g[i + 1], first)}
<1>10. 0 \in S
  BY <1>2, <1>7, <1>9
<1>11. ASSUME NEW i \in Nat, i \in S PROVE i + 1 \in S
  <2>1. SUFFICES ASSUME i + 1 + 1 < n PROVE IsIn(F(i + 1 + 1), g[i + 1 + 1], first)
    OBVIOUS
  <2>2. /\ F(i + 1 + 1) = FieldBelow(F(i + 1), loc[i + 1 + 1])
        /\ g[i + 1 + 1] = OneFurther(g[i + 1], loc[i + 1 + 1])
    BY <1>2, <1>4, <1>5, <2>1
  <2>3. IsIn(F(i + 1), g[i + 1], first)
    BY <1>2, <1>11, <2>1
  <2>4. F(i + 1 + 1).kind \in {"part", "several"}
    BY <1>2, <1>7, <2>1
  <2>5. F(i + 1).kind = "several" => loc[i + 1 + 1] \notin DOMAIN Schema[F(i + 1).of]
    BY <1>2, <1>8, <2>1
  <2> QED
    BY <2>2, <2>3, <2>4, <2>5, StaysIn
<1> HIDE DEF S
<1>12. Nat \subseteq S
  BY <1>10, <1>11, Induct
<1>13. g[n].model = "none" /\ g[n].code = _bt_of(F(n), first)
  <2>1. CASE n = 1
    BY <1>6, <1>9, <2>1
  <2>2. CASE n # 1
    <3>1. n - 2 \in Nat /\ (n - 2) + 1 = n - 1 /\ n - 1 < n
      BY <1>2, <2>2
    <3>2. \A i \in Nat : i + 1 < n => IsIn(F(i + 1), g[i + 1], first)
      BY <1>12 DEF S
    <3>3. IsIn(F(n - 1), g[n - 1], first)
      BY <3>1, <3>2
    <3>4. F(n) = FieldBelow(F(n - 1), loc[n]) /\ g[n] = OneFurther(g[n - 1], loc[n])
      BY <1>2, <1>4, <1>5
    <3> QED
      BY <1>6, <3>3, <3>4, ArrivesAt
  <2> QED
    BY <2>1, <2>2
<1> DEFINE T == {k \in Nat : n + k <= Len(loc) =>
                    g[n + k].model = "none" /\ g[n + k].code = _bt_of(F(n), first)}
<1>14. 0 \in T
  BY <1>2, <1>13
<1>15. ASSUME NEW k \in Nat, k \in T PROVE k + 1 \in T
  <2>1. SUFFICES ASSUME n + (k + 1) <= Len(loc)
                 PROVE  g[n + (k + 1)].model = "none" /\ g[n + (k + 1)].code = _bt_of(F(n), first)
    OBVIOUS
  <2>2. g[n + (k + 1)] = OneFurther(g[n + k], loc[n + (k + 1)])
    BY <1>2, <1>4, <2>1
  <2>3. g[n + k].model = "none" /\ g[n + k].code = _bt_of(F(n), first)
    BY <1>2, <1>15, <2>1
  <2> QED
    BY <2>2, <2>3, OneKeyFurther
<1> HIDE DEF T
<1>16. Nat \subseteq T
  BY <1>14, <1>15, Induct
<1>17. g[Len(loc)].code = _bt_of(F(n), first)
  <2>1. Len(loc) - n \in Nat /\ n + (Len(loc) - n) = Len(loc) /\ Len(loc) <= Len(loc)
    BY <1>2
  <2>2. \A k \in Nat : n + k <= Len(loc) => g[n + k].code = _bt_of(F(n), first)
    BY <1>16 DEF T
  <2> QED
    BY <2>1, <2>2
<1> QED
  BY <1>1, <1>3, <1>17 DEF F, first

-----------------------------------------------------------------------------
(* What is meant and what is named.  Several garblings of a page are each  *)
(* of them: what is wrong at one does not depend on the others.            *)

\* What a path goes through is what it begins with, but for itself.
LEMMA AboveIsPrefix ==
    ASSUME NEW p \in Seq(STRING), NEW q \in Above(p)
    PROVE  q \in Seq(STRING) /\ Len(q) < Len(p) /\ IsPrefix(q, p) /\ Above(q) \subseteq Above(p)
<1>1. PICK n \in 0..(Len(p) - 1) : q = Upto(p, n)
  BY AboveIsUpto
<1>2. n \in 0..Len(p) /\ Len(p) \in Nat
  OBVIOUS
<1>3. q \in Seq(STRING) /\ Len(q) = n /\ \A m \in 0..n : Upto(q, m) = Upto(p, m)
  BY <1>1, <1>2, UptoIs
<1>4. \A m \in 0..(n - 1) : m \in 0..n /\ m \in 0..(Len(p) - 1)
  BY <1>1
<1>5. Above(q) \subseteq Above(p)
  BY <1>3, <1>4, AboveIsUpto
<1> QED
  BY <1>1, <1>2, <1>3, <1>5, PrefixIsUpto

\* And the other way round.
LEMMA PrefixIsAbove ==
    ASSUME NEW p \in Seq(STRING), NEW q \in Seq(STRING), IsPrefix(q, p), q # p
    PROVE  q \in Above(p)
<1>1. Len(q) <= Len(p) /\ Upto(p, Len(q)) = q /\ Upto(p, Len(p)) = p
  BY PrefixIsUpto, UptoIs
<1>2. Len(q) \in 0..(Len(p) - 1)
  BY <1>1
<1> QED
  BY <1>1, <1>2, AboveIsUpto

\* Every path begins with itself, and with what those it begins with begin with.
LEMMA PrefixesOfPrefixes ==
    ASSUME NEW p \in Seq(STRING), NEW q \in Seq(STRING), NEW r \in Seq(STRING),
           IsPrefix(p, q), IsPrefix(q, r)
    PROVE  IsPrefix(p, r)
<1>1. Len(p) <= Len(q) /\ Len(q) <= Len(r) /\ Upto(q, Len(p)) = p /\ Upto(r, Len(q)) = q
  BY PrefixIsUpto
<1>2. Len(p) \in 0..Len(q) /\ Len(q) \in 0..Len(r)
  BY <1>1
<1>3. Upto(Upto(r, Len(q)), Len(p)) = Upto(r, Len(p))
  BY <1>2, UptoIs
<1>4. Len(p) \in Nat /\ Len(q) \in Nat /\ Len(r) \in Nat
  OBVIOUS
<1>5. Len(p) <= Len(r) /\ Upto(r, Len(p)) = p
  <2>1. \A i, j, k \in Nat : i <= j /\ j <= k => i <= k
    OBVIOUS
  <2>2. Len(p) <= Len(r)
    BY <1>1, <1>4, <2>1
  <2>3. Upto(r, Len(p)) = p
    BY <1>1, <1>3
  <2> QED
    BY <2>2, <2>3
<1> QED
  BY <1>5, PrefixIsUpto

\* Of two paths that one begins with, one begins with the other.
LEMMA PrefixesOfOne ==
    ASSUME NEW p \in Seq(STRING), NEW q \in Seq(STRING), NEW r \in Seq(STRING),
           IsPrefix(p, r), IsPrefix(q, r)
    PROVE  IsPrefix(p, q) \/ IsPrefix(q, p)
<1>1. /\ Len(p) <= Len(r) /\ Len(q) <= Len(r) /\ Upto(r, Len(p)) = p /\ Upto(r, Len(q)) = q
      /\ Len(p) \in Nat /\ Len(q) \in Nat
  BY PrefixIsUpto
<1>2. CASE Len(p) <= Len(q)
  <2>1. Upto(q, Len(p)) = p
    BY <1>1, <1>2, UptoIs
  <2> QED
    BY <1>2, <2>1, PrefixIsUpto
<1>3. CASE Len(q) <= Len(p)
  <2>1. Upto(p, Len(q)) = q
    BY <1>1, <1>3, UptoIs
  <2> QED
    BY <1>3, <2>1, PrefixIsUpto
<1> QED
  BY <1>1, <1>2, <1>3

\* What the longer path begins with, the shorter does, but for the longer itself.
LEMMA PrefixOfOneFurther ==
    ASSUME NEW p \in Seq(STRING), NEW key \in STRING, NEW h \in Seq(STRING),
           IsPrefix(h, Append(p, key)), h # Append(p, key)
    PROVE  IsPrefix(h, p)
<1>1. Append(p, key) \in Seq(STRING) /\ Above(Append(p, key)) = Above(p) \cup {p}
  BY OneFurtherIs
<1>2. h \in Above(p) \cup {p}
  BY <1>1, PrefixIsAbove
<1>3. IsPrefix(p, p)
  BY PrefixIsUpto, UptoIs
<1> QED
  BY <1>2, <1>3, AboveIsPrefix

\* The rest of a path after what it begins with.
After(path, p) == SubSeq(p, Len(path) + 1, Len(p))

\* A path is what it begins with and the rest.
LEMMA RestIs ==
    ASSUME NEW path \in Seq(STRING), NEW p \in Seq(STRING), IsPrefix(path, p)
    PROVE  After(path, p) \in Seq(STRING) /\ path \o After(path, p) = p
<1>1. /\ Len(path) <= Len(p) /\ Len(path) \in Nat /\ Len(p) \in Nat
      /\ \A i \in 1..Len(path) : p[i] = path[i]
  <2>1. Len(path) <= Len(p) /\ Upto(p, Len(path)) = path /\ Len(path) \in Nat /\ Len(p) \in Nat
    BY PrefixIsUpto
  <2>2. Len(path) \in 0..Len(p)
    BY <2>1
  <2> QED
    BY <2>1, <2>2, UptoIs
<1>2. /\ After(path, p) \in Seq(STRING) /\ Len(After(path, p)) = Len(p) - Len(path)
      /\ \A i \in 1..(Len(p) - Len(path)) : After(path, p)[i] = p[Len(path) + i]
  BY <1>1 DEF After
<1> DEFINE r == After(path, p)
<1> HIDE DEF r
<1>3. path \o r \in Seq(STRING) /\ Len(path \o r) = Len(p)
  BY <1>1, <1>2 DEF r
<1>4. ASSUME NEW i \in 1..Len(p) PROVE (path \o r)[i] = p[i]
  <2>1. CASE i <= Len(path)
    BY <1>1, <1>2, <2>1 DEF r
  <2>2. CASE ~(i <= Len(path))
    <3>1. i - Len(path) \in 1..(Len(p) - Len(path)) /\ Len(path) + (i - Len(path)) = i
      BY <1>1, <2>2
    <3>2. (path \o r)[i] = r[i - Len(path)]
      BY <1>1, <1>2, <2>2 DEF r
    <3> QED
      BY <1>2, <3>1, <3>2 DEF r
  <2> QED
    BY <2>1, <2>2
<1> QED
  BY <1>2, <1>3, <1>4, SeqEqual DEF r

\* And a rest put behind something is the rest after it.
LEMMA RestOfConcat ==
    ASSUME NEW path \in Seq(STRING), NEW q \in Seq(STRING)
    PROVE  path \o q \in Seq(STRING) /\ IsPrefix(path, path \o q) /\ After(path, path \o q) = q
<1> DEFINE p == path \o q
<1>1. /\ p \in Seq(STRING) /\ Len(p) = Len(path) + Len(q) /\ Len(path) \in Nat /\ Len(q) \in Nat
      /\ \A i \in 1..Len(path) : p[i] = path[i]
      /\ \A i \in 1..Len(q) : p[Len(path) + i] = q[i]
  OBVIOUS
<1> HIDE DEF p
<1>2. Upto(p, Len(path)) = path
  <2>1. /\ Upto(p, Len(path)) \in Seq(STRING) /\ Len(Upto(p, Len(path))) = Len(path)
        /\ \A i \in 1..Len(path) : Upto(p, Len(path))[i] = p[i]
    BY <1>1, UptoIs
  <2> QED
    BY <1>1, <2>1, SeqEqual
<1>3. IsPrefix(path, p)
  BY <1>1, <1>2, PrefixIsUpto
<1>4. /\ After(path, p) \in Seq(STRING) /\ Len(After(path, p)) = Len(q)
      /\ \A i \in 1..Len(q) : After(path, p)[i] = p[Len(path) + i]
  BY <1>1 DEF After
<1>5. After(path, p) = q
  BY <1>1, <1>4, SeqEqual
<1> QED
  BY <1>1, <1>3, <1>5 DEF p

-----------------------------------------------------------------------------
(* What garblings leave of a page.                                         *)

\* Where a cell is put, what a path leads to is what is in the cell.
LEMMA WithInside ==
    ASSUME NEW tree, NEW path \in Seq(STRING), NEW cell, DOMAIN cell \subseteq Seq(STRING),
           NEW p \in Seq(STRING), IsPrefix(path, p), NEW with, with = With(tree, path, cell)
    PROVE  /\ p \in DOMAIN with <=> After(path, p) \in DOMAIN cell
           /\ p \in DOMAIN with => with[p] = cell[After(path, p)]
<1> DEFINE D == {q \in DOMAIN tree : ~IsPrefix(path, q)} \cup {path \o q : q \in DOMAIN cell}
<1>1. with = [q \in D |-> IF IsPrefix(path, q) THEN cell[After(path, q)] ELSE tree[q]]
  BY DEF With, After
<1>2. ASSUME p \in D PROVE After(path, p) \in DOMAIN cell
  <2>1. PICK q \in DOMAIN cell : p = path \o q
    BY <1>2
  <2> QED
    BY <2>1, RestOfConcat
<1>3. ASSUME After(path, p) \in DOMAIN cell PROVE p \in D
  BY <1>3, RestIs
<1> HIDE DEF D
<1>4. DOMAIN with = D /\ (p \in D => with[p] = cell[After(path, p)])
  BY <1>1
<1> QED
  BY <1>2, <1>3, <1>4

\* Elsewhere what was there stays.
LEMMA WithOutside ==
    ASSUME NEW tree, NEW path \in Seq(STRING), NEW cell, DOMAIN cell \subseteq Seq(STRING),
           NEW p \in Seq(STRING), ~IsPrefix(path, p), NEW with, with = With(tree, path, cell)
    PROVE  /\ p \in DOMAIN with <=> p \in DOMAIN tree
           /\ p \in DOMAIN with => with[p] = tree[p]
<1> DEFINE D == {q \in DOMAIN tree : ~IsPrefix(path, q)} \cup {path \o q : q \in DOMAIN cell}
<1>1. with = [q \in D |-> IF IsPrefix(path, q) THEN cell[After(path, q)] ELSE tree[q]]
  BY DEF With, After
<1>2. p \in D <=> p \in DOMAIN tree
  BY RestOfConcat
<1> HIDE DEF D
<1>3. DOMAIN with = D /\ (p \in D => with[p] = tree[p])
  BY <1>1
<1> QED
  BY <1>2, <1>3

\* f[n] is the page with the first n garblings of a text.
Garbled(f, text, n) ==
    f = [m \in 0..n |-> IF m = 0 THEN Page ELSE With(f[m - 1], text[m].path, text[m].cell)]

\* The garblings can be made one after the other.
LEMMA GarbledExist ==
    ASSUME NEW text
    PROVE  \A n \in Nat : \E f : Garbled(f, text, n)
<1> DEFINE S == {n \in Nat : \E f : Garbled(f, text, n)}
<1>1. 0 \in S
  <2>1. Garbled([m \in 0..0 |-> Page], text, 0)
    BY DEF Garbled
  <2> QED
    BY <2>1
<1>2. ASSUME NEW n \in Nat, n \in S PROVE n + 1 \in S
  <2>1. PICK f : Garbled(f, text, n)
    BY <1>2
  <2> DEFINE g == [m \in 0..(n + 1) |->
                      IF m = n + 1 THEN With(f[n], text[n + 1].path, text[n + 1].cell) ELSE f[m]]
  <2>2. ASSUME NEW m \in 0..(n + 1)
        PROVE  g[m] = IF m = 0 THEN Page ELSE With(g[m - 1], text[m].path, text[m].cell)
    BY <2>1 DEF Garbled
  <2>3. Garbled(g, text, n + 1)
    BY <2>2 DEF Garbled
  <2> QED
    BY <2>3
<1> HIDE DEF S
<1>3. Nat \subseteq S
  BY <1>1, <1>2, Induct
<1> QED
  BY <1>3 DEF S

\* And the answer is the page with all of them.
LEMMA AnswerAtTheEnd ==
    ASSUME NEW text, Len(text) \in Nat
    PROVE  \E f : Garbled(f, text, Len(text)) /\ Answer(text) = f[Len(text)]
<1> DEFINE F == CHOOSE f : Garbled(f, text, Len(text))
<1>1. Answer(text) = F[Len(text)]
  BY DEF Answer, Garbled
<1>2. Garbled(F, text, Len(text))
  BY GarbledExist
<1> QED
  BY <1>1, <1>2

\* A tree that has at each of the garbled places what the garbling puts there, and elsewhere
\* what the page has.
IsGarbledBy(tree, garblings) ==
    \A p \in Seq(STRING) :
        /\ \A g \in garblings :
              IsPrefix(g.path, p) =>
                 /\ p \in DOMAIN tree <=> After(g.path, p) \in DOMAIN g.cell
                 /\ p \in DOMAIN tree => tree[p] = g.cell[After(g.path, p)]
        /\ (\A g \in garblings : ~IsPrefix(g.path, p)) =>
                 /\ p \in DOMAIN tree <=> p \in DOMAIN Page
                 /\ p \in DOMAIN tree => tree[p] = Page[p]

\* What there is to know of a text.
LEMMA TextIs ==
    ASSUME NEW text \in Texts
    PROVE  /\ Len(text) \in Nat /\ DOMAIN text = 1..Len(text)
           /\ Range(text) = {text[n] : n \in 1..Len(text)}
           /\ IsTree(Answer(text))
           /\ \A g \in Range(text) :
                 /\ g.path \in Seq(STRING) /\ DOMAIN g.cell \subseteq Seq(STRING) /\ IsTree(g.cell)
                 /\ InThePage(g) /\ <<g>> \in Texts
           /\ \A m, n \in 1..Len(text) :
                 m # n => /\ ~IsPrefix(text[m].path, text[n].path)
                          /\ ~IsPrefix(text[n].path, text[m].path)
<1>1. text \in Seq(Range(text))
  BY ModelAnswerAssumption
<1>2. Len(text) \in Nat /\ DOMAIN text = 1..Len(text)
  BY <1>1
<1>3. Range(text) = {text[n] : n \in 1..Len(text)}
  BY <1>2 DEF Range
<1>4. \A m, n \in 1..Len(text) : m # n => Apart(text[m], text[n])
  BY <1>2, ModelAnswerAssumption
<1>5. ASSUME NEW g \in Range(text)
      PROVE  /\ g.path \in Seq(STRING) /\ DOMAIN g.cell \subseteq Seq(STRING) /\ IsTree(g.cell)
             /\ InThePage(g) /\ <<g>> \in Texts
  <2>1. InThePage(g) /\ <<g>> \in Texts
    BY ModelAnswerAssumption
  <2>2. g.path \in Seq(STRING) /\ IsTree(g.cell)
    BY <2>1 DEF InThePage
  <2> QED
    BY <2>1, <2>2 DEF IsTree
<1> QED
  BY <1>2, <1>3, <1>4, <1>5, ModelAnswerAssumption DEF Apart

\* The garblings of a text are where they belong, whatever their order.
LEMMA AnswerIsGarbled ==
    ASSUME NEW text \in Texts
    PROVE  IsGarbledBy(Answer(text), Range(text))
<1> DEFINE First(n) == {text[m] : m \in 1..n}
<1>1. PICK f : Garbled(f, text, Len(text)) /\ Answer(text) = f[Len(text)]
  BY TextIs, AnswerAtTheEnd
<1>2. Len(text) \in Nat
  BY TextIs
<1>3. /\ f[0] = Page
      /\ \A n \in 1..Len(text) : f[n] = With(f[n - 1], text[n].path, text[n].cell)
  BY <1>1, <1>2 DEF Garbled
<1> DEFINE S == {n \in Nat : n <= Len(text) => IsGarbledBy(f[n], First(n))}
<1>4. 0 \in S
  <2>1. First(0) = {}
    OBVIOUS
  <2> HIDE DEF First
  <2>2. IsGarbledBy(f[0], First(0))
    BY <1>3, <2>1 DEF IsGarbledBy
  <2> QED
    BY <2>2
<1>5. ASSUME NEW n \in Nat, n \in S PROVE n + 1 \in S
  <2>1. SUFFICES ASSUME n + 1 <= Len(text) PROVE IsGarbledBy(f[n + 1], First(n + 1))
    OBVIOUS
  <2> DEFINE h == text[n + 1]
             before == f[n]
             tree == f[n + 1]
  <2>2. n + 1 \in 1..Len(text) /\ n <= Len(text) /\ (n + 1) - 1 = n
    BY <1>2, <2>1
  <2>3. tree = With(before, h.path, h.cell)
    BY <1>3, <2>2
  <2>4. IsGarbledBy(before, First(n))
    BY <1>5, <2>2
  <2>5. h \in Range(text) /\ h.path \in Seq(STRING) /\ DOMAIN h.cell \subseteq Seq(STRING)
    BY <2>2, TextIs
  <2>6. First(n + 1) = First(n) \cup {h}
    <3>1. 1..(n + 1) = (1..n) \cup {n + 1}
      OBVIOUS
    <3> QED
      BY <3>1
  <2>7. ASSUME NEW g \in First(n)
        PROVE  /\ g.path \in Seq(STRING)
               /\ ~IsPrefix(g.path, h.path) /\ ~IsPrefix(h.path, g.path)
    <3>1. PICK m \in 1..n : g = text[m]
      OBVIOUS
    <3>2. m \in 1..Len(text) /\ m # n + 1
      BY <1>2, <2>2
    <3>3. g \in Range(text)
      BY <3>1, <3>2, TextIs
    <3> QED
      BY <2>2, <3>1, <3>2, <3>3, TextIs
  <2> HIDE DEF First, h, before, tree
  <2>8. SUFFICES ASSUME NEW p \in Seq(STRING)
        PROVE  /\ \A g \in First(n + 1) :
                     IsPrefix(g.path, p) =>
                        /\ p \in DOMAIN tree <=> After(g.path, p) \in DOMAIN g.cell
                        /\ p \in DOMAIN tree => tree[p] = g.cell[After(g.path, p)]
               /\ (\A g \in First(n + 1) : ~IsPrefix(g.path, p)) =>
                        /\ p \in DOMAIN tree <=> p \in DOMAIN Page
                        /\ p \in DOMAIN tree => tree[p] = Page[p]
    BY DEF IsGarbledBy, tree
  <2>9. CASE IsPrefix(h.path, p)
    <3>1. \A g \in First(n) : ~IsPrefix(g.path, p)
      BY <2>5, <2>7, <2>9, PrefixesOfOne
    <3>2. /\ p \in DOMAIN tree <=> After(h.path, p) \in DOMAIN h.cell
          /\ p \in DOMAIN tree => tree[p] = h.cell[After(h.path, p)]
      BY <2>3, <2>5, <2>9, WithInside
    <3> QED
      BY <2>6, <2>9, <3>1, <3>2
  <2>10. CASE ~IsPrefix(h.path, p)
    <3>1. /\ p \in DOMAIN tree <=> p \in DOMAIN before
          /\ p \in DOMAIN tree => tree[p] = before[p]
      BY <2>3, <2>5, <2>10, WithOutside
    <3>2. /\ \A g \in First(n) :
                IsPrefix(g.path, p) =>
                   /\ p \in DOMAIN before <=> After(g.path, p) \in DOMAIN g.cell
                   /\ p \in DOMAIN before => before[p] = g.cell[After(g.path, p)]
          /\ (\A g \in First(n) : ~IsPrefix(g.path, p)) =>
                   /\ p \in DOMAIN before <=> p \in DOMAIN Page
                   /\ p \in DOMAIN before => before[p] = Page[p]
      BY <2>4 DEF IsGarbledBy
    <3> QED
      BY <2>6, <2>10, <3>1, <3>2
  <2> QED
    BY <2>9, <2>10
<1> HIDE DEF S, First
<1>6. Nat \subseteq S
  BY <1>4, <1>5, Induct
<1>7. IsGarbledBy(f[Len(text)], First(Len(text)))
  BY <1>2, <1>6 DEF S
<1> QED
  BY <1>1, <1>7, TextIs DEF First

-----------------------------------------------------------------------------
(* Trees that are alike somewhere.                                         *)

Alike(A, B, R) ==
    \A p \in R : /\ p \in DOMAIN A <=> p \in DOMAIN B
                 /\ p \in DOMAIN A => A[p] = B[p]

\* A set of paths with all they go through, and the values there.
Closed(R) ==
    /\ R \subseteq Seq(STRING)
    /\ \A p \in R : Above(p) \subseteq R /\ Append(p, "value") \in R

\* The paths that lead to no garbled place and to nothing in one.
Elsewhere(garblings) == {p \in Seq(STRING) : \A g \in garblings : ~IsPrefix(g.path, p)}

\* Outside of the garbled places is a closed set, as no garbling puts a value there.
LEMMA ElsewhereIsClosed ==
    ASSUME NEW garblings, \A g \in garblings : InThePage(g) /\ g.path # <<>>
    PROVE  Closed(Elsewhere(garblings))
<1> SUFFICES ASSUME NEW p \in Elsewhere(garblings)
             PROVE  Above(p) \subseteq Elsewhere(garblings)
                    /\ Append(p, "value") \in Elsewhere(garblings)
  BY DEF Closed, Elsewhere
<1>1. p \in Seq(STRING) /\ \A g \in garblings : g.path \in Seq(STRING) /\ ~IsPrefix(g.path, p)
  BY DEF Elsewhere, InThePage
<1>2. ASSUME NEW q \in Above(p) PROVE q \in Elsewhere(garblings)
  <2>1. q \in Seq(STRING) /\ IsPrefix(q, p)
    BY <1>1, AboveIsPrefix
  <2> QED
    BY <1>1, <2>1, PrefixesOfPrefixes DEF Elsewhere
<1>3. Append(p, "value") \in Elsewhere(garblings)
  <2> DEFINE v == Append(p, "value")
  <2>0. "value" \in STRING
    BY NamesAreStrings
  <2>1. v \in Seq(STRING) /\ Len(v) = Len(p) + 1 /\ v[Len(p) + 1] = "value"
    BY <1>1, <2>0, OneFurtherIs, Zenon
  <2>2. ASSUME NEW g \in garblings, IsPrefix(g.path, v) PROVE FALSE
    <3>1. g.path = v
      BY <1>1, <2>0, <2>2, PrefixOfOneFurther
    <3>2. g.path # <<>> /\ Last(g.path) # "value"
      BY DEF InThePage
    <3> QED
      BY <1>1, <2>1, <3>1, <3>2 DEF Last
  <2> HIDE DEF v
  <2>3. v \in Elsewhere(garblings)
    BY <2>1, <2>2 DEF Elsewhere
  <2> QED
    BY <2>3 DEF v
<1> QED
  BY <1>2, <1>3

\* The page is the text without garblings.
LEMMA ThePageIsAText == Answer(<<>>) = Page /\ IsTree(Page) /\ Range(<<>>) = {}
<1>1. PICK f : Garbled(f, <<>>, Len(<<>>)) /\ Answer(<<>>) = f[Len(<<>>)]
  BY AnswerAtTheEnd
<1>2. Answer(<<>>) = Page
  BY <1>1 DEF Garbled
<1>3. Range(<<>>) = {}
  BY DEF Range
<1> QED
  BY <1>2, <1>3, ModelAnswerAssumption

\* Elsewhere an answer is the page.
LEMMA AnswerIsThePage ==
    ASSUME NEW text \in Texts
    PROVE  Alike(Answer(text), Page, Elsewhere(Range(text)))
<1> DEFINE tree == Answer(text)
<1>1. IsGarbledBy(tree, Range(text))
  BY AnswerIsGarbled
<1> HIDE DEF tree
<1>2. ASSUME NEW p \in Elsewhere(Range(text))
      PROVE  /\ p \in DOMAIN tree <=> p \in DOMAIN Page
             /\ p \in DOMAIN tree => tree[p] = Page[p]
  BY <1>1 DEF IsGarbledBy, Elsewhere
<1> QED
  BY <1>2 DEF Alike, tree

\* At a garbled place it is the page with that garbling alone.
LEMMA AnswerIsTheAlone ==
    ASSUME NEW text \in Texts, NEW g \in Range(text)
    PROVE  Alike(Answer(text), Answer(<<g>>), Elsewhere(Range(text) \ {g}))
<1> DEFINE tree == Answer(text)
           alone == Answer(<<g>>)
<1>1. IsGarbledBy(tree, Range(text))
  BY AnswerIsGarbled
<1>2. IsGarbledBy(alone, {g})
  <2>1. <<g>> \in Texts
    BY TextIs
  <2>2. Range(<<g>>) = {g}
    BY DEF Range
  <2> QED
    BY <2>1, <2>2, AnswerIsGarbled
<1> HIDE DEF tree, alone
<1>3. ASSUME NEW p \in Elsewhere(Range(text) \ {g})
      PROVE  /\ p \in DOMAIN tree <=> p \in DOMAIN alone
             /\ p \in DOMAIN tree => tree[p] = alone[p]
  <2>1. p \in Seq(STRING) /\ \A h \in Range(text) \ {g} : ~IsPrefix(h.path, p)
    BY DEF Elsewhere
  <2>2. CASE IsPrefix(g.path, p)
    <3>1. /\ p \in DOMAIN tree <=> After(g.path, p) \in DOMAIN g.cell
          /\ p \in DOMAIN tree => tree[p] = g.cell[After(g.path, p)]
      BY <1>1, <2>1, <2>2 DEF IsGarbledBy
    <3>2. /\ p \in DOMAIN alone <=> After(g.path, p) \in DOMAIN g.cell
          /\ p \in DOMAIN alone => alone[p] = g.cell[After(g.path, p)]
      BY <1>2, <2>1, <2>2 DEF IsGarbledBy
    <3> QED
      BY <3>1, <3>2
  <2>3. CASE ~IsPrefix(g.path, p)
    <3>1. /\ p \in DOMAIN tree <=> p \in DOMAIN Page
          /\ p \in DOMAIN tree => tree[p] = Page[p]
      BY <1>1, <2>1, <2>3 DEF IsGarbledBy
    <3>2. /\ p \in DOMAIN alone <=> p \in DOMAIN Page
          /\ p \in DOMAIN alone => alone[p] = Page[p]
      BY <1>2, <2>1, <2>3 DEF IsGarbledBy
    <3> QED
      BY <3>1, <3>2
  <2> QED
    BY <2>2, <2>3
<1> QED
  BY <1>3 DEF Alike, tree, alone

\* What is alike there, the cleaning leaves alike there.
LEMMA TheirsAlike ==
    ASSUME NEW A, NEW B, NEW R, Closed(R), Alike(A, B, R)
    PROVE  /\ Alike(Theirs(A), Theirs(B), R)
           /\ \A p \in R : p \in Collapsed(A) <=> p \in Collapsed(B)
<1>1. ASSUME NEW p \in R PROVE p \in Collapsed(A) <=> p \in Collapsed(B)
  <2>1. Append(p, "value") \in R
    BY DEF Closed
  <2> QED
    BY <2>1 DEF Alike, Collapsed
<1>2. ASSUME NEW p \in R
      PROVE  /\ p \in DOMAIN Theirs(A) <=> p \in DOMAIN Theirs(B)
             /\ p \in DOMAIN Theirs(A) => Theirs(A)[p] = Theirs(B)[p]
  <2>1. Above(p) \subseteq R
    BY DEF Closed
  <2>2. Above(p) \cap Collapsed(A) = {} <=> Above(p) \cap Collapsed(B) = {}
    BY <1>1, <2>1
  <2>3. p \in DOMAIN A <=> p \in DOMAIN B
    BY DEF Alike
  <2>4. p \in DOMAIN A => A[p] = B[p]
    BY DEF Alike
  <2>5. p \in DOMAIN Theirs(A) <=> p \in DOMAIN Theirs(B)
    BY <2>2, <2>3, TheirsIs
  <2>6. ASSUME p \in DOMAIN Theirs(A) PROVE Theirs(A)[p] = Theirs(B)[p]
    <3>1. p \in DOMAIN A
      BY <2>6, TheirsIs
    <3>2. /\ Theirs(A)[p] = IF p \in Collapsed(A) THEN Null ELSE A[p]
          /\ Theirs(B)[p] = IF p \in Collapsed(B) THEN Null ELSE B[p]
      BY <2>5, <2>6, TheirsIs
    <3> QED
      BY <1>1, <2>4, <3>1, <3>2
  <2> QED
    BY <2>5, <2>6
<1> QED
  BY <1>1, <1>2 DEF Alike

\* The paths whose nodes fit what the schema has there.
Fits(tree) == {p \in DOMAIN tree : FitsField(FieldAtPath(p), tree[p], IsFilled(tree, p))}

Reached(tree, p) == p \in DOMAIN tree /\ Above(p) \subseteq Fits(tree)

\* What is missing at a path that fits.
IsMissing(tree, p, m) ==
    /\ Reached(tree, p) /\ p \in Fits(tree) /\ tree[p].t = "object"
    /\ \E key \in RequiredBelow(FieldAtPath(p)) : m = Append(p, key)
    /\ m \notin DOMAIN tree

\* What does not fit, or is missing, where everything above fits.
LEMMA MisfitIs ==
    ASSUME NEW tree, NEW m
    PROVE  m \in Misfits(tree) <=> \/ Reached(tree, m) /\ m \notin Fits(tree)
                                   \/ \E p \in DOMAIN tree : IsMissing(tree, p, m)
<1> DEFINE reached == {p \in DOMAIN tree : Above(p) \subseteq Fits(tree)}
           needed(p) == {Append(p, key) : key \in RequiredBelow(FieldAtPath(p))} \ DOMAIN tree
<1>1. Misfits(tree) = (reached \ Fits(tree))
                      \cup UNION {needed(p) : p \in {q \in reached \cap Fits(tree) :
                                                     tree[q].t = "object"}}
  BY DEF Misfits, Fits
<1>2. \A p : p \in reached <=> Reached(tree, p)
  BY DEF Reached
<1>3. \A p \in DOMAIN tree : IsMissing(tree, p, m) <=>
          p \in reached /\ p \in Fits(tree) /\ tree[p].t = "object" /\ m \in needed(p)
  BY <1>2 DEF IsMissing
<1> HIDE DEF reached, needed
<1>4. \A p : p \in reached => p \in DOMAIN tree
  BY <1>2 DEF Reached
<1> QED
  BY <1>1, <1>2, <1>3, <1>4

\* Only a list asks whether anything is in it.
LEMMA OnlyListsAreFilled ==
    ASSUME NEW field, NEW node, NEW a, NEW b, field.kind = "several" => (a <=> b)
    PROVE  FitsField(field, node, a) <=> FitsField(field, node, b)
BY DEF FitsField

\* What is alike there has the same misfits there, if its lists have something in both or in
\* neither.
LEMMA MisfitsWithin ==
    ASSUME NEW A, NEW B, NEW R, Rooted(A), Rooted(B), Closed(R), Alike(A, B, R),
           \A p \in R : p \in DOMAIN A /\ FieldAtPath(p).kind = "several" =>
                           (IsFilled(A, p) <=> IsFilled(B, p))
    PROVE  Misfits(A) \cap R \subseteq Misfits(B)
<1>1. ASSUME NEW p \in R
      PROVE  /\ p \in Fits(A) <=> p \in Fits(B)
             /\ p \in DOMAIN A <=> p \in DOMAIN B
             /\ p \in DOMAIN A => A[p] = B[p]
  <2>1. /\ p \in DOMAIN A <=> p \in DOMAIN B
        /\ p \in DOMAIN A => A[p] = B[p]
    BY DEF Alike
  <2>2. ASSUME p \in DOMAIN A PROVE p \in Fits(A) <=> p \in Fits(B)
    <3>1. A[p] = B[p]
      BY <2>1, <2>2
    <3>2. FitsField(FieldAtPath(p), A[p], IsFilled(A, p))
             <=> FitsField(FieldAtPath(p), A[p], IsFilled(B, p))
      BY <2>2, OnlyListsAreFilled
    <3> QED
      BY <2>1, <2>2, <3>1, <3>2 DEF Fits
  <2> QED
    BY <2>1, <2>2 DEF Fits
<1>2. ASSUME NEW p \in R PROVE Reached(A, p) <=> Reached(B, p)
  <2>1. Above(p) \subseteq R
    BY DEF Closed
  <2> QED
    BY <1>1, <2>1 DEF Reached
<1>3. SUFFICES ASSUME NEW m \in R, m \in Misfits(A) PROVE m \in Misfits(B)
  OBVIOUS
<1>4. CASE Reached(A, m) /\ m \notin Fits(A)
  BY <1>1, <1>2, <1>4, MisfitIs
<1>5. CASE \E p \in DOMAIN A : IsMissing(A, p, m)
  <2>1. PICK p \in DOMAIN A : IsMissing(A, p, m)
    BY <1>5
  <2>2. PICK key : key \in RequiredBelow(FieldAtPath(p)) /\ m = Append(p, key)
    BY <2>1 DEF IsMissing
  <2>3. p \in Seq(STRING) /\ m \in Seq(STRING)
    BY DEF Rooted, Closed
  <2>4. p \in R
    BY <2>2, <2>3, OneKeyAbove DEF Closed
  <2>5. IsMissing(B, p, m) /\ p \in DOMAIN B
    BY <1>1, <1>2, <2>1, <2>4 DEF IsMissing
  <2> QED
    BY <2>5, MisfitIs
<1> QED
  BY <1>3, <1>4, <1>5, MisfitIs

-----------------------------------------------------------------------------
(* Several garblings are each of them.                                     *)

\* A page without misfits fits everywhere, and has an object at its root that stays.
LEMMA PageFits ==
    ASSUME Accepted(_invoice_of(Page))
    PROVE  /\ Rooted(Theirs(Page)) /\ Misfits(Theirs(Page)) = {}
           /\ \A p \in DOMAIN Theirs(Page) : FitsField(FieldAtPath(p), Theirs(Page)[p],
                                                       IsFilled(Theirs(Page), p))
           /\ <<>> \in DOMAIN Page /\ <<>> \notin Collapsed(Page) /\ Page[<<>>].t = "object"
<1> DEFINE P == Theirs(Page)
<1>1. Rooted(P) /\ Misfits(P) = {} /\ <<>> \in DOMAIN Page
  BY AcceptedIs, TheirsIsRooted, ThePageIsAText
<1> HIDE DEF P
<1>2. \A p \in DOMAIN P : FitsField(FieldAtPath(p), P[p], IsFilled(P, p))
  BY <1>1, EverythingFits
<1>3. Above(<<>>) = {}
  <2>1. Len(<<>>) - 1 = -1 /\ 0..(-1) = {}
    OBVIOUS
  <2> QED
    BY <2>1 DEF Above
<1>4. <<>> \in DOMAIN P /\ P[<<>>] = IF <<>> \in Collapsed(Page) THEN Null ELSE Page[<<>>]
  BY <1>1, <1>3, TheirsIs DEF P
<1>5. FitsField(Part("Invoice"), P[<<>>], IsFilled(P, <<>>))
  BY <1>2, <1>4, FieldAtTheRoot
<1>6. P[<<>>].t = "object"
  BY <1>5 DEF FitsField, Part
<1>7. P[<<>>] # Null
  BY <1>6 DEF Null
<1> QED
  BY <1>1, <1>2, <1>4, <1>6, <1>7 DEF P

\* A path that two garbled places begin with is of one garbling.
LEMMA OnePlaceEach ==
    ASSUME NEW text \in Texts, NEW g \in Range(text), NEW p \in Seq(STRING), IsPrefix(g.path, p)
    PROVE  p \in Elsewhere(Range(text) \ {g})
<1> SUFFICES ASSUME NEW h \in Range(text) \ {g} PROVE ~IsPrefix(h.path, p)
  BY DEF Elsewhere
<1>1. PICK m \in 1..Len(text) : g = text[m]
  BY TextIs
<1>2. PICK n \in 1..Len(text) : h = text[n]
  BY TextIs
<1>3. m # n
  BY <1>1, <1>2
<1>4. ~IsPrefix(g.path, h.path) /\ ~IsPrefix(h.path, g.path)
  BY <1>1, <1>2, <1>3, TextIs
<1>5. g.path \in Seq(STRING) /\ h.path \in Seq(STRING)
  BY TextIs
<1> QED
  BY <1>4, <1>5, PrefixesOfOne

\* A list of the page has something in it still: no garbling takes an item away.
LEMMA ListsStayFilled ==
    ASSUME NEW text \in Texts, \A g \in Range(text) : g.path # <<>>,
           Accepted(_invoice_of(Page)),
           NEW p \in Elsewhere(Range(text)), FieldAtPath(p).kind = "several",
           p \in DOMAIN Theirs(Answer(text))
    PROVE  IsFilled(Theirs(Answer(text)), p) /\ IsFilled(Theirs(Page), p)
<1> DEFINE R == Elsewhere(Range(text))
           tree == Answer(text)
           T == Theirs(tree)
           P == Theirs(Page)
<1>1. Closed(R) /\ Alike(tree, Page, R)
  BY TextIs, ElsewhereIsClosed, AnswerIsThePage
<1>2. Alike(T, P, R)
  BY <1>1, TheirsAlike
<1>3. p \in DOMAIN P /\ T[p] = P[p] /\ p \in Seq(STRING) /\ p \in R
  BY <1>2 DEF Alike, Elsewhere
<1>4. FitsField(FieldAtPath(p), P[p], IsFilled(P, p)) /\ Rooted(P)
  BY <1>3, PageFits
<1>5. P[p].t = "list" /\ IsFilled(P, p)
  BY <1>4 DEF FitsField
<1>6. PICK q \in DOMAIN P : Len(q) = Len(p) + 1 /\ IsPrefix(p, q)
  BY <1>5 DEF IsFilled
<1>7. q \in Seq(STRING)
  BY <1>4 DEF Rooted
<1>8. CASE q \in R
  BY <1>2, <1>5, <1>6, <1>8 DEF Alike, IsFilled
<1>9. CASE q \notin R
  <2>1. PICK g \in Range(text) : IsPrefix(g.path, q)
    BY <1>7, <1>9 DEF Elsewhere
  <2>2. /\ g.path \in Seq(STRING) /\ InThePage(g) /\ DOMAIN g.cell \subseteq Seq(STRING)
        /\ ~IsPrefix(g.path, p)
    BY <1>3, TextIs DEF Elsewhere
  <2>3. g.path = q
    <3>1. IsPrefix(p, g.path)
      BY <1>3, <1>6, <1>7, <2>1, <2>2, PrefixesOfOne
    <3>2. /\ Len(p) <= Len(g.path) /\ Upto(g.path, Len(p)) = p
          /\ Len(g.path) <= Len(q) /\ Upto(q, Len(g.path)) = g.path
      BY <1>3, <1>7, <2>1, <2>2, <3>1, PrefixIsUpto
    <3>3. Len(p) \in Nat /\ Len(g.path) \in Nat /\ Len(q) \in Nat
      BY <1>3, <1>7, <2>2
    <3>4. Upto(g.path, Len(g.path)) = g.path /\ Upto(q, Len(q)) = q
      BY <1>7, <2>2, UptoIs
    <3>5. Len(g.path) # Len(p)
      <4>1. IsPrefix(p, p)
        BY <1>3, PrefixIsUpto, UptoIs
      <4> QED
        BY <2>2, <3>2, <3>4, <4>1
    <3>6. Len(g.path) = Len(q)
      BY <1>6, <3>2, <3>3, <3>5
    <3> QED
      BY <3>2, <3>4, <3>6
  <2>4. p \in Above(q) /\ Front(q) = p
    <3>1. p # q
      BY <2>1, <2>2
    <3>2. Len(q) - 1 = Len(p)
      BY <1>3, <1>6
    <3>3. Upto(q, Len(p)) = p
      BY <1>3, <1>6, <1>7, PrefixIsUpto
    <3> QED
      BY <1>3, <1>6, <1>7, <3>1, <3>2, <3>3, PrefixIsAbove DEF Front, Upto
  <2>5. <<>> \in DOMAIN g.cell
    BY <2>2, <2>3, <2>4 DEF InThePage
  <2>6. q \in DOMAIN tree
    <3>1. After(q, q) = <<>>
      BY <1>7 DEF After
    <3>2. q \in DOMAIN tree <=> After(g.path, q) \in DOMAIN g.cell
      BY <1>7, <2>1, AnswerIsGarbled DEF IsGarbledBy
    <3> QED
      BY <2>3, <2>5, <3>1, <3>2
  <2>7. Above(q) = Above(p) \cup {p}
    <3>1. Above(p) \cup {p} \subseteq Above(q)
      BY <1>7, <2>4, AboveIsPrefix
    <3>2. ASSUME NEW r \in Above(q), r # p PROVE r \in Above(p)
      <4>1. r \in Seq(STRING) /\ Len(r) < Len(q) /\ IsPrefix(r, q)
        BY <1>7, AboveIsPrefix
      <4>2. Len(r) <= Len(p)
        BY <1>3, <1>6, <4>1
      <4>3. Upto(q, Len(r)) = r /\ Upto(q, Len(p)) = p
        BY <1>3, <1>6, <1>7, <4>1, PrefixIsUpto
      <4>4. Len(r) \in 0..Len(p) /\ Len(p) \in 0..Len(q)
        BY <1>3, <1>6, <1>7, <4>1, <4>2
      <4>5. Upto(p, Len(r)) = r
        BY <1>7, <4>3, <4>4, UptoIs
      <4>6. IsPrefix(r, p)
        BY <1>3, <4>1, <4>2, <4>5, PrefixIsUpto
      <4> QED
        BY <1>3, <3>2, <4>1, <4>6, PrefixIsAbove
    <3> QED
      BY <3>1, <3>2
  <2>8. Above(q) \cap Collapsed(tree) = {}
    <3>1. Above(p) \cap Collapsed(tree) = {}
      BY TheirsIs
    <3>2. p \notin Collapsed(tree)
      <4>1. T[p] = IF p \in Collapsed(tree) THEN Null ELSE tree[p]
        BY TheirsIs
      <4> HIDE DEF T
      <4> QED
        BY <1>3, <1>5, <4>1 DEF Null
    <3> QED
      BY <2>7, <3>1, <3>2
  <2>9. ~(q # <<>> /\ q[1] \in OURS_NOT_THE_MODELS)
    <3>1. p # <<>>
      BY FieldAtTheRoot DEF Part
    <3>2. Len(p) \in Nat /\ Len(p) # 0
      BY <1>3, <3>1
    <3>3. p[1] \notin OURS_NOT_THE_MODELS
      BY <3>1, TheirsIs
    <3>4. q[1] = p[1]
      <4>1. Upto(q, Len(p)) = p /\ Len(p) \in 0..Len(q) /\ 1 \in 1..Len(p)
        BY <1>3, <1>6, <1>7, <3>2, PrefixIsUpto
      <4> QED
        BY <1>7, <4>1, UptoIs
    <3> QED
      BY <3>3, <3>4
  <2>10. q \in DOMAIN T
    BY <2>6, <2>8, <2>9, TheirsIs
  <2> QED
    BY <1>5, <1>6, <2>10 DEF IsFilled
<1> QED
  BY <1>8, <1>9

\* What _invoice_of() makes of an answer that is an object, and stays one.
LEMMA ObjectIs ==
    ASSUME NEW answer, <<>> \in DOMAIN answer, answer[<<>>].t = "object",
           <<>> \notin Collapsed(answer)
    PROVE  _invoice_of(answer) =
               [shape |-> "object",
                problems |-> describe_errors("Invoice", Misfits(Theirs(answer))),
                invoice |-> Theirs(answer)]
<1> DEFINE theirs == Theirs(answer)
           misfits == Misfits(theirs)
           fields == _drop_unreadable(answer)
<1>1. _invoice_of(answer) =
        CASE <<>> \notin DOMAIN answer -> Refused("broken")
          [] <<>> \in DOMAIN answer /\ answer[<<>>].t # "object" -> Refused("not_object")
          [] <<>> \in DOMAIN answer /\ answer[<<>>].t = "object" /\ fields[<<>>] = Null ->
                Refused("collapsed")
          [] OTHER -> [shape |-> "object", problems |-> describe_errors("Invoice", misfits),
                       invoice |-> theirs]
  BY DEF _invoice_of, Theirs
<1>2. fields[<<>>] # Null
  <2>1. Above(<<>>) = {}
    <3>1. 0..(Len(<<>>) - 1) = {}
      OBVIOUS
    <3> QED
      BY <3>1 DEF Above
  <2>2. fields[<<>>] = IF <<>> \in Collapsed(answer) THEN Null ELSE answer[<<>>]
    BY <2>1 DEF _drop_unreadable, Collapsed
  <2> HIDE DEF fields
  <2> QED
    BY <2>2 DEF Null
<1> HIDE DEF theirs, misfits, fields
<1>3. _invoice_of(answer) = [shape |-> "object", problems |-> describe_errors("Invoice", misfits),
                             invoice |-> theirs]
  BY <1>1, <1>2
<1> QED
  BY <1>3 DEF theirs, misfits

\* A model of the schema has every name that leads to a part or a list.
LEMMA ModelsBelow ==
    ASSUME NEW field, NEW key, FieldBelow(field, key).kind \in {"part", "several"},
           field.of \in DOMAIN Schema
    PROVE  FieldBelow(field, key).of \in DOMAIN Schema
<1>0. DOMAIN Schema = {"Invoice"} \cup Rest \cup Sides
  BY DEF Schema, Rest, Sides
<1>1. field.kind \in {"part", "several"}
  BY KindBelow
<1>2. CASE field.kind = "several"
  BY <1>2 DEF FieldBelow, Part
<1>3. CASE field.kind = "part"
  <2>1. key \in DOMAIN Schema[field.of] /\ FieldBelow(field, key) = Schema[field.of][key]
    BY <1>3 DEF FieldBelow, NoField
  <2>2. CASE field.of = "Invoice"
    <3>1. FieldBelow(field, key).of \in {"Party"} \cup Rest
      BY <2>1, <2>2, FieldsOfTheInvoice DEF Rest
    <3> QED
      BY <1>0, <3>1 DEF Sides
  <2>3. CASE field.of \in Rest
    BY <2>1, <2>3, FieldsOfTheRest DEF Rest
  <2>4. CASE field.of \in Sides
    <3>1. FieldBelow(field, key).of = "PostalAddress"
      BY <2>1, <2>4, FieldsOfAParty, FieldsOfAnAddress DEF Sides
    <3> QED
      BY <1>0, <3>1 DEF Sides
  <2> QED
    BY <1>0, <2>2, <2>3, <2>4
<1> QED
  BY <1>1, <1>2, <1>3

\* So wherever the schema has a part or a list, it is of one of its models.
LEMMA ModelsOfTheSchema ==
    ASSUME NEW p \in Seq(STRING), FieldAtPath(p).kind \in {"part", "several"}
    PROVE  FieldAtPath(p).of \in DOMAIN Schema
<1> DEFINE F(n) == FieldAtPath(Upto(p, n))
           S == {n \in Nat : n <= Len(p) /\ F(n).kind \in {"part", "several"}
                                => F(n).of \in DOMAIN Schema}
<1>1. Len(p) \in Nat /\ Upto(p, 0) = <<>> /\ Upto(p, Len(p)) = p
  BY UptoIs
<1>2. 0 \in S
  <2>1. F(0) = Part("Invoice")
    BY <1>1, FieldAtTheRoot
  <2> QED
    BY <2>1 DEF Part, Schema
<1>3. \A n \in 1..Len(p) : F(n) = FieldBelow(F(n - 1), p[n])
  BY FieldOneFurther
<1> HIDE DEF F
<1>4. ASSUME NEW n \in Nat, n \in S PROVE n + 1 \in S
  <2>1. SUFFICES ASSUME n + 1 <= Len(p), F(n + 1).kind \in {"part", "several"}
                 PROVE  F(n + 1).of \in DOMAIN Schema
    OBVIOUS
  <2>2. F(n + 1) = FieldBelow(F(n), p[n + 1])
    BY <1>1, <1>3, <2>1
  <2>3. F(n).kind \in {"part", "several"}
    BY <2>1, <2>2, KindBelow
  <2>4. F(n).of \in DOMAIN Schema
    BY <1>1, <1>4, <2>1, <2>3
  <2> QED
    BY <2>1, <2>2, <2>4, ModelsBelow
<1> HIDE DEF S
<1>5. Nat \subseteq S
  BY <1>2, <1>4, Induct
<1>6. Len(p) <= Len(p) /\ F(Len(p)).kind \in {"part", "several"}
  BY <1>1 DEF F
<1>7. F(Len(p)).of \in DOMAIN Schema
  BY <1>1, <1>5, <1>6 DEF S
<1> QED
  BY <1>1, <1>7 DEF F

\* What is wrong with an invoice is wrong at a path.
LEMMA MisfitsArePaths ==
    ASSUME NEW tree, Rooted(tree)
    PROVE  Misfits(tree) \subseteq Seq(STRING)
<1> SUFFICES ASSUME NEW m \in Misfits(tree) PROVE m \in Seq(STRING)
  OBVIOUS
<1>1. CASE Reached(tree, m)
  BY <1>1 DEF Reached, Rooted
<1>2. CASE \E p \in DOMAIN tree : IsMissing(tree, p, m)
  <2>1. PICK p \in DOMAIN tree : IsMissing(tree, p, m)
    BY <1>2
  <2>2. PICK key \in RequiredBelow(FieldAtPath(p)) : m = Append(p, key)
    BY <2>1 DEF IsMissing
  <2>3. p \in Seq(STRING)
    BY DEF Rooted
  <2>4. key \in STRING
    <3>1. CASE FieldAtPath(p).kind = "part"
      <4>1. key \in DOMAIN Schema[FieldAtPath(p).of]
        BY <2>2, <3>1 DEF RequiredBelow
      <4> QED
        BY <2>3, <3>1, <4>1, ModelsOfTheSchema, NamesAreStrings
    <3>2. CASE FieldAtPath(p).kind = "read"
      BY <2>2, <3>2, NamesAreStrings DEF RequiredBelow
    <3>3. CASE FieldAtPath(p).kind \notin {"part", "read"}
      BY <2>2, <3>3 DEF RequiredBelow
    <3> QED
      BY <3>1, <3>2, <3>3
  <2> QED
    BY <2>2, <2>3, <2>4, OneFurtherIs
<1> QED
  BY <1>1, <1>2, MisfitIs

\* A text that garbles fields and not the whole answer comes out as an invoice or what is
\* wrong with it.
LEMMA ObjectsStay ==
    ASSUME NEW text \in Texts, \A g \in Range(text) : g.path # <<>>,
           Accepted(_invoice_of(Page))
    PROVE  /\ Rooted(Theirs(Answer(text)))
           /\ _invoice_of(Answer(text)) =
                  [shape |-> "object",
                   problems |-> describe_errors("Invoice", Misfits(Theirs(Answer(text)))),
                   invoice |-> Theirs(Answer(text))]
<1> DEFINE R == Elsewhere(Range(text))
           tree == Answer(text)
<1>1. IsTree(tree) /\ Closed(R) /\ Alike(tree, Page, R)
  BY TextIs, ElsewhereIsClosed, AnswerIsThePage
<1>2. <<>> \in R
  <2>1. ASSUME NEW g \in Range(text), IsPrefix(g.path, <<>>) PROVE FALSE
    <3>1. g.path \in Seq(STRING) /\ g.path # <<>>
      BY TextIs
    <3> HIDE DEF tree, R
    <3>2. <<>> \in Seq(STRING)
      OBVIOUS
    <3>3. Len(g.path) <= Len(<<>>)
      BY <2>1, <3>1, <3>2, PrefixIsUpto
    <3> QED
      BY <3>1, <3>3
  <2>2. <<>> \in Seq(STRING)
    OBVIOUS
  <2> QED
    BY <2>1, <2>2 DEF Elsewhere
<1>3. \A p \in R : p \in Collapsed(tree) <=> p \in Collapsed(Page)
  BY <1>1, TheirsAlike
<1>4. <<>> \in DOMAIN tree /\ tree[<<>>].t = "object" /\ <<>> \notin Collapsed(tree)
  BY <1>1, <1>2, <1>3, PageFits DEF Alike
<1> HIDE DEF tree, R
<1>5. Rooted(Theirs(tree))
  BY <1>1, TheirsIsRooted
<1> QED
  BY <1>4, <1>5, ObjectIs DEF tree

\* Nothing is wrong outside of the garbled places.
LEMMA NoMisfitsElsewhere ==
    ASSUME NEW text \in Texts, \A g \in Range(text) : g.path # <<>>,
           Accepted(_invoice_of(Page))
    PROVE  Misfits(Theirs(Answer(text))) \cap Elsewhere(Range(text)) = {}
<1> DEFINE R == Elsewhere(Range(text))
           T == Theirs(Answer(text))
           P == Theirs(Page)
<1>1. Closed(R) /\ Alike(T, P, R)
  BY TextIs, ElsewhereIsClosed, AnswerIsThePage, TheirsAlike
<1>2. Rooted(T) /\ Rooted(P) /\ Misfits(P) = {}
  BY ObjectsStay, PageFits
<1>3. \A p \in R : p \in DOMAIN T /\ FieldAtPath(p).kind = "several" =>
                      (IsFilled(T, p) <=> IsFilled(P, p))
  BY ListsStayFilled
<1> HIDE DEF R, T, P
<1>4. Misfits(T) \cap R \subseteq Misfits(P)
  BY <1>1, <1>2, <1>3, MisfitsWithin
<1> QED
  BY <1>2, <1>4 DEF R, T

\* Where an answer is that of one garbling alone, its lists are as filled as there.
LEMMA FilledAsAlone ==
    ASSUME NEW text \in Texts, \A h \in Range(text) : h.path # <<>>,
           Accepted(_invoice_of(Page)), NEW g \in Range(text),
           NEW p \in Elsewhere(Range(text) \ {g}), FieldAtPath(p).kind = "several",
           p \in DOMAIN Theirs(Answer(text))
    PROVE  /\ Alike(Theirs(Answer(text)), Theirs(Answer(<<g>>)), Elsewhere(Range(text) \ {g}))
           /\ IsFilled(Theirs(Answer(text)), p) <=> IsFilled(Theirs(Answer(<<g>>)), p)
<1> DEFINE R == Elsewhere(Range(text) \ {g})
           T == Theirs(Answer(text))
           U == Theirs(Answer(<<g>>))
<1>1. <<g>> \in Texts /\ Range(<<g>>) = {g} /\ g.path # <<>> /\ g.path \in Seq(STRING)
  BY TextIs DEF Range
<1>2. Closed(R)
  BY TextIs, ElsewhereIsClosed
<1>3. Alike(T, U, R)
  BY <1>2, AnswerIsTheAlone, TheirsAlike
<1>4. Rooted(T) /\ Rooted(U)
  BY <1>1, ObjectsStay
<1>5. p \in R /\ p \in Seq(STRING) /\ p \in DOMAIN U
  BY <1>3 DEF Alike, Elsewhere
<1>6. CASE IsPrefix(g.path, p)
  <2>1. ASSUME NEW q \in Seq(STRING), IsPrefix(p, q) PROVE q \in DOMAIN T <=> q \in DOMAIN U
    <3>1. IsPrefix(g.path, q)
      BY <1>1, <1>5, <1>6, <2>1, PrefixesOfPrefixes
    <3>2. q \in R
      BY <3>1, OnePlaceEach
    <3> HIDE DEF T, U, R
    <3> QED
      BY <1>3, <3>2 DEF Alike
  <2> HIDE DEF T, U, R
  <2>2. IsFilled(T, p) <=> IsFilled(U, p)
    BY <1>4, <2>1 DEF Rooted, IsFilled
  <2> QED
    BY <1>3, <2>2 DEF T, U, R
<1>7. CASE ~IsPrefix(g.path, p)
  <2>1. p \in Elsewhere(Range(text)) /\ p \in Elsewhere(Range(<<g>>))
    BY <1>1, <1>5, <1>7 DEF Elsewhere
  <2>2. IsFilled(T, p)
    BY <2>1, ListsStayFilled
  <2>3. IsFilled(U, p)
    BY <1>1, <1>5, <2>1, ListsStayFilled
  <2> QED
    BY <1>3, <2>2, <2>3
<1> QED
  BY <1>6, <1>7

\* What is wrong at a garbled place, or missing, is what is wrong when it is the only one.
LEMMA MisfitsAreThoseAlone ==
    ASSUME NEW text \in Texts, \A h \in Range(text) : h.path # <<>>,
           Accepted(_invoice_of(Page)), NEW g \in Range(text),
           NEW m \in Elsewhere(Range(text) \ {g})
    PROVE  m \in Misfits(Theirs(Answer(text))) <=> m \in Misfits(Theirs(Answer(<<g>>)))
<1> DEFINE R == Elsewhere(Range(text) \ {g})
           T == Theirs(Answer(text))
           U == Theirs(Answer(<<g>>))
<1>1. <<g>> \in Texts /\ Range(<<g>>) = {g} /\ g.path # <<>>
  BY TextIs DEF Range
<1>2. Closed(R)
  BY TextIs, ElsewhereIsClosed
<1>3. Alike(T, U, R)
  BY <1>2, AnswerIsTheAlone, TheirsAlike
<1>4. Rooted(T) /\ Rooted(U)
  BY <1>1, ObjectsStay
<1>5. \A p \in R : p \in DOMAIN T /\ FieldAtPath(p).kind = "several" =>
                      (IsFilled(T, p) <=> IsFilled(U, p))
  BY FilledAsAlone
<1> HIDE DEF R, T, U
<1>6. Misfits(T) \cap R \subseteq Misfits(U)
  BY <1>2, <1>3, <1>4, <1>5, MisfitsWithin
<1>7. Alike(U, T, R)
  BY <1>3 DEF Alike
<1>8. \A p \in R : p \in DOMAIN U /\ FieldAtPath(p).kind = "several" =>
                      (IsFilled(U, p) <=> IsFilled(T, p))
  BY <1>5, <1>7 DEF Alike
<1>9. Misfits(U) \cap R \subseteq Misfits(T)
  BY <1>2, <1>4, <1>7, <1>8, MisfitsWithin
<1> QED
  BY <1>6, <1>9 DEF R, T, U

\* Every misfit of an answer is a misfit of one of its garblings alone, and the other way
\* round, at the place of that garbling or in it.
LEMMA MisfitsAreTheirs ==
    ASSUME NEW text \in Texts, \A h \in Range(text) : h.path # <<>>,
           Accepted(_invoice_of(Page)), NEW m
    PROVE  /\ m \in Misfits(Theirs(Answer(text))) <=>
                 \E g \in Range(text) : m \in Misfits(Theirs(Answer(<<g>>)))
           /\ \A g \in Range(text) :
                 m \in Misfits(Theirs(Answer(<<g>>))) => m \in Seq(STRING) /\ IsPrefix(g.path, m)
<1> DEFINE Wrongs == Misfits(Theirs(Answer(text)))
           Alone(g) == Misfits(Theirs(Answer(<<g>>)))
<1>1. ASSUME NEW g \in Range(text), m \in Alone(g)
      PROVE  m \in Seq(STRING) /\ IsPrefix(g.path, m) /\ m \in Wrongs
  <2>1. <<g>> \in Texts /\ Range(<<g>>) = {g} /\ g.path # <<>>
    BY TextIs DEF Range
  <2>2. m \in Seq(STRING)
    BY <1>1, <2>1, ObjectsStay, MisfitsArePaths
  <2>3. IsPrefix(g.path, m)
    <3>1. m \notin Elsewhere(Range(<<g>>))
      BY <1>1, <2>1, NoMisfitsElsewhere
    <3> QED
      BY <2>1, <2>2, <3>1 DEF Elsewhere
  <2>4. m \in Elsewhere(Range(text) \ {g})
    BY <2>2, <2>3, OnePlaceEach
  <2>5. m \in Wrongs
    BY <1>1, <2>4, MisfitsAreThoseAlone
  <2> QED
    BY <2>2, <2>3, <2>5
<1>2. ASSUME m \in Wrongs PROVE \E g \in Range(text) : m \in Alone(g)
  <2>1. m \in Seq(STRING)
    BY <1>2, ObjectsStay, MisfitsArePaths
  <2>2. m \notin Elsewhere(Range(text))
    BY <1>2, NoMisfitsElsewhere
  <2>3. PICK g \in Range(text) : IsPrefix(g.path, m)
    BY <2>1, <2>2 DEF Elsewhere
  <2>4. m \in Elsewhere(Range(text) \ {g})
    BY <2>1, <2>3, OnePlaceEach
  <2>5. m \in Alone(g)
    BY <1>2, <2>4, MisfitsAreThoseAlone
  <2> QED
    BY <2>5
<1> QED
  BY <1>1, <1>2

\* When each garbling comes out as it is meant when it is the only one, so they do together.
LEMMA SeveralAreEach ==
    ASSUME NEW text \in Texts, \A g \in Range(text) : g.path # <<>>,
           Accepted(_invoice_of(Page)),
           \A g \in Range(text) : /\ ReadsWell({g}, _invoice_of(Answer(<<g>>)))
                                  /\ NamesWell({g}, _invoice_of(Answer(<<g>>)))
    PROVE  /\ ReadsWell(Range(text), _invoice_of(Answer(text)))
           /\ NamesWell(Range(text), _invoice_of(Answer(text)))
<1> DEFINE T == Theirs(Answer(text))
           U(g) == Theirs(Answer(<<g>>))
           result == _invoice_of(Answer(text))
           alone(g) == _invoice_of(Answer(<<g>>))
           named(m) == [where |-> m, code |-> _bt_at("Invoice", m)]
<1>1. /\ result.shape = "object" /\ result.invoice = T
      /\ result.problems = {named(m) : m \in Misfits(T)}
  BY ObjectsStay DEF describe_errors
<1>2. ASSUME NEW g \in Range(text)
      PROVE  /\ alone(g).shape = "object" /\ alone(g).invoice = U(g)
             /\ alone(g).problems = {named(m) : m \in Misfits(U(g))}
  <2>1. <<g>> \in Texts /\ Range(<<g>>) = {g} /\ g.path # <<>>
    BY TextIs DEF Range
  <2> QED
    BY <2>1, ObjectsStay DEF describe_errors
<1>3. \A m : m \in Misfits(T) <=> \E g \in Range(text) : m \in Misfits(U(g))
  BY MisfitsAreTheirs
<1>4. ASSUME NEW g \in Range(text) PROVE ValueAt(T, g.path) = ValueAt(U(g), g.path)
  <2> DEFINE R == Elsewhere(Range(text) \ {g})
             v == Append(g.path, "value")
  <2>1. Closed(R)
    BY TextIs, ElsewhereIsClosed
  <2>2. Alike(T, U(g), R)
    BY <2>1, AnswerIsTheAlone, TheirsAlike
  <2>3. g.path \in Seq(STRING) /\ IsPrefix(g.path, g.path)
    <3>1. g.path \in Seq(STRING)
      BY TextIs
    <3>2. Len(g.path) <= Len(g.path)
      BY <3>1
    <3> QED
      BY <3>1, <3>2, PrefixIsUpto, UptoIs
  <2>4. v \in R
    BY <2>1, <2>3, OnePlaceEach DEF Closed
  <2> HIDE DEF R, T, U, v
  <2>5. v \in DOMAIN T <=> v \in DOMAIN U(g)
    BY <2>2, <2>4 DEF Alike
  <2>6. v \in DOMAIN T => T[v] = U(g)[v]
    BY <2>2, <2>4 DEF Alike
  <2> QED
    BY <2>5, <2>6 DEF ValueAt, v
<1> HIDE DEF T, U, result, alone, named
<1>5. \A g \in Range(text) : ReadsWell({g}, alone(g)) /\ NamesWell({g}, alone(g))
  BY DEF alone
<1>6. ASSUME NEW g \in Range(text)
      PROVE  /\ Usable(g) <=> Misfits(U(g)) = {}
             /\ Usable(g) => ValueAt(U(g), g.path) = g.means
             /\ \A m \in Misfits(U(g)) : ~Usable(g) /\ IsAbout(named(m), g)
             /\ ~Usable(g) => \E m \in Misfits(U(g)) : IsAbout(named(m), g)
  <2>1. Accepted(alone(g)) <=> Misfits(U(g)) = {}
    BY <1>2 DEF Accepted
  <2>2. ReadsWell({g}, alone(g)) /\ NamesWell({g}, alone(g))
    BY <1>5
  <2>3. Usable(g) <=> Misfits(U(g)) = {}
    BY <2>1, <2>2 DEF ReadsWell
  <2>4. Usable(g) => ValueAt(U(g), g.path) = g.means
    BY <1>2, <2>1, <2>2, <2>3 DEF ReadsWell
  <2>5. /\ \A p \in alone(g).problems : ~Usable(g) /\ IsAbout(p, g)
        /\ ~Usable(g) => \E p \in alone(g).problems : IsAbout(p, g)
    BY <1>2, <2>2 DEF NamesWell
  <2> QED
    BY <1>2, <2>3, <2>4, <2>5
<1>7. Accepted(result) <=> Misfits(T) = {}
  BY <1>1 DEF Accepted
<1>8. Misfits(T) = {} <=> \A g \in Range(text) : Usable(g)
  BY <1>3, <1>6
<1>9. ReadsWell(Range(text), result)
  BY <1>1, <1>4, <1>6, <1>7, <1>8 DEF ReadsWell
<1>10. ASSUME NEW p \in result.problems
       PROVE  \E g \in Range(text) : ~Usable(g) /\ IsAbout(p, g)
  <2>1. PICK m \in Misfits(T) : p = named(m)
    BY <1>1
  <2>2. PICK g \in Range(text) : m \in Misfits(U(g))
    BY <1>3
  <2> QED
    BY <1>6, <2>1, <2>2
<1>11. ASSUME NEW g \in Range(text), ~Usable(g)
       PROVE  \E p \in result.problems : IsAbout(p, g)
  <2>1. PICK m \in Misfits(U(g)) : IsAbout(named(m), g)
    BY <1>6, <1>11
  <2>2. m \in Misfits(T)
    BY <1>3
  <2> QED
    BY <1>1, <2>1, <2>2
<1>12. NamesWell(Range(text), result)
  BY <1>10, <1>11 DEF NamesWell
<1> QED
  BY <1>9, <1>12 DEF result

-----------------------------------------------------------------------------
(* One garbling of a field.                                                *)

\* A text of one garbling.
LEMMA OneGarblingIs ==
    ASSUME NEW g, <<g>> \in Texts
    PROVE  /\ Range(<<g>>) = {g} /\ g.path \in Seq(STRING) /\ InThePage(g)
           /\ IsTree(g.cell) /\ DOMAIN g.cell \subseteq Seq(STRING)
           /\ IsTree(Answer(<<g>>)) /\ IsGarbledBy(Answer(<<g>>), {g})
<1>1. Range(<<g>>) = {g}
  BY DEF Range
<1>2. g \in Range(<<g>>)
  BY <1>1
<1>3. /\ g.path \in Seq(STRING) /\ InThePage(g)
      /\ IsTree(g.cell) /\ DOMAIN g.cell \subseteq Seq(STRING)
  BY <1>2, TextIs
<1>4. IsTree(Answer(<<g>>)) /\ IsGarbledBy(Answer(<<g>>), {g})
  BY <1>1, AnswerIsGarbled, TextIs
<1> QED
  BY <1>1, <1>3, <1>4

\* What an answer has at the garbled place, and one key below it.
LEMMA InTheCell ==
    ASSUME NEW g, <<g>> \in Texts, NEW A, A = Answer(<<g>>)
    PROVE  /\ g.path \in DOMAIN A <=> <<>> \in DOMAIN g.cell
           /\ g.path \in DOMAIN A => A[g.path] = g.cell[<<>>]
           /\ \A key \in STRING :
                 /\ Append(g.path, key) \in DOMAIN A <=> <<key>> \in DOMAIN g.cell
                 /\ Append(g.path, key) \in DOMAIN A => A[Append(g.path, key)] = g.cell[<<key>>]
<1>1. g.path \in Seq(STRING) /\ IsGarbledBy(A, {g})
  BY OneGarblingIs
<1>2. ASSUME NEW q \in Seq(STRING)
      PROVE  /\ g.path \o q \in DOMAIN A <=> q \in DOMAIN g.cell
             /\ g.path \o q \in DOMAIN A => A[g.path \o q] = g.cell[q]
  <2> DEFINE p == g.path \o q
  <2>1. p \in Seq(STRING) /\ IsPrefix(g.path, p) /\ After(g.path, p) = q
    BY <1>1, RestOfConcat
  <2> HIDE DEF p
  <2>2. /\ p \in DOMAIN A <=> After(g.path, p) \in DOMAIN g.cell
        /\ p \in DOMAIN A => A[p] = g.cell[After(g.path, p)]
    BY <1>1, <2>1 DEF IsGarbledBy
  <2> QED
    BY <2>1, <2>2 DEF p
<1>3. <<>> \in Seq(STRING) /\ g.path \o <<>> = g.path
  BY <1>1
<1>4. ASSUME NEW key \in STRING
      PROVE  <<key>> \in Seq(STRING) /\ g.path \o <<key>> = Append(g.path, key)
  BY <1>1
<1> QED
  BY <1>2, <1>3, <1>4

\* A field to read is a field of a part, and required there or not.
LEMMA FieldIsOfAPart ==
    ASSUME NEW path \in Seq(STRING), FieldAtPath(path).kind = "read"
    PROVE  \E up \in Above(path), key \in STRING :
              /\ up \in Seq(STRING) /\ path = Append(up, key)
              /\ FieldAtPath(up).kind = "part"
              /\ key \in RequiredBelow(FieldAtPath(up)) <=> FieldAtPath(path).required
<1> DEFINE up == Front(path)
           key == Last(path)
<1>1. path # <<>> /\ Len(path) \in Nat
  BY FieldsAreTheirs
<1>2. up \in Seq(STRING) /\ key \in STRING /\ path = Append(up, key)
  BY <1>1 DEF Front, Last
<1> HIDE DEF up, key
<1>3. up \in Above(path)
  BY <1>2, OneFurtherIs
<1>4. FieldAtPath(path) = FieldBelow(FieldAtPath(up), key)
  BY <1>2, FieldBelowIs
<1>5. FieldAtPath(up).kind = "part"
  BY <1>4, KindBelow
<1>6. /\ key \in DOMAIN Schema[FieldAtPath(up).of]
      /\ FieldAtPath(path) = Schema[FieldAtPath(up).of][key]
  BY <1>4, <1>5 DEF FieldBelow, NoField
<1>7. key \in RequiredBelow(FieldAtPath(up)) <=> FieldAtPath(path).required
  BY <1>5, <1>6 DEF RequiredBelow
<1> QED
  BY <1>2, <1>3, <1>5, <1>7

\* The way to a garbled field is that of the page, and fits.
LEMMA WayStays ==
    ASSUME NEW g, <<g>> \in Texts, IsAtAField(g), Accepted(_invoice_of(Page))
    PROVE  /\ Above(g.path) \subseteq Fits(Theirs(Answer(<<g>>)))
           /\ Above(g.path) \cap Collapsed(Answer(<<g>>)) = {}
<1> DEFINE A == Answer(<<g>>)
           T == Theirs(A)
           P == Theirs(Page)
           R == Elsewhere(Range(<<g>>))
<1>1. Range(<<g>>) = {g} /\ g.path \in Seq(STRING) /\ InThePage(g)
  BY OneGarblingIs
<1>2. FieldAtPath(g.path).kind = "read" /\ g.path # <<>>
  BY <1>1, FieldsAreTheirs DEF IsAtAField
<1>3. Misfits(P) = {} /\ \A p \in DOMAIN P : FitsField(FieldAtPath(p), P[p], IsFilled(P, p))
  BY PageFits
<1>4. Above(g.path) \subseteq DOMAIN Page
  BY <1>1 DEF InThePage
<1>5. Above(g.path) \cap Collapsed(Page) = {} /\ Above(g.path) \subseteq DOMAIN P
  BY <1>1, <1>2, <1>3, <1>4, WayIsThere, ThePageIsAText
<1>6. Closed(R) /\ Alike(A, Page, R)
  BY <1>1, <1>2, ElsewhereIsClosed, AnswerIsThePage
<1>7. Alike(T, P, R) /\ \A p \in R : p \in Collapsed(A) <=> p \in Collapsed(Page)
  BY <1>6, TheirsAlike
<1>8. ASSUME NEW q \in Above(g.path) PROVE q \in R
  <2>1. q \in Seq(STRING) /\ Len(q) < Len(g.path)
    BY <1>1, AboveIsPrefix
  <2>2. ~IsPrefix(g.path, q)
    <3>1. Len(q) \in Nat /\ Len(g.path) \in Nat
      BY <1>1, <2>1
    <3>2. ~(Len(g.path) <= Len(q))
      BY <2>1, <3>1
    <3> QED
      BY <1>1, <2>1, <3>2, PrefixIsUpto
  <2> QED
    BY <1>1, <2>1, <2>2 DEF Elsewhere
<1>9. ASSUME NEW q \in Above(g.path) PROVE q \in Fits(T)
  <2>1. q \in R /\ q \in DOMAIN P
    BY <1>5, <1>8
  <2> HIDE DEF R
  <2>2. q \in DOMAIN T /\ T[q] = P[q]
    BY <1>7, <2>1 DEF Alike
  <2>3. FitsField(FieldAtPath(q), P[q], IsFilled(P, q))
    BY <1>3, <2>1
  <2>4. FieldAtPath(q).kind = "several" => IsFilled(T, q) /\ IsFilled(P, q)
    BY <1>1, <1>2, <2>1, <2>2, ListsStayFilled DEF R
  <2> HIDE DEF T, P
  <2>5. FitsField(FieldAtPath(q), P[q], IsFilled(T, q))
    BY <2>3, <2>4, OnlyListsAreFilled
  <2>6. FitsField(FieldAtPath(q), T[q], IsFilled(T, q))
    BY <2>2, <2>5
  <2> QED
    BY <2>2, <2>6 DEF Fits
<1> QED
  BY <1>5, <1>7, <1>8, <1>9

\* So what _drop_unreadable() leaves of the cell is the cell, or, of a wrapper with nothing
\* in it, a null.
LEMMA LeftOfTheCell ==
    ASSUME NEW g, <<g>> \in Texts, IsAtAField(g), Accepted(_invoice_of(Page)),
           NEW A, A = Answer(<<g>>), NEW T, T = Theirs(A)
    PROVE  /\ g.path \in DOMAIN T <=> g.path \in DOMAIN A
           /\ g.path \in DOMAIN T => T[g.path] = IF g.path \in Collapsed(A) THEN Null ELSE A[g.path]
           /\ \A p \in DOMAIN T : IsPrefix(g.path, p) /\ p # g.path => g.path \notin Collapsed(A)
           /\ \A key \in STRING :
                 LET q == Append(g.path, key)
                 IN  /\ q \in DOMAIN T <=> q \in DOMAIN A /\ g.path \notin Collapsed(A)
                     /\ q \in DOMAIN T => T[q] = IF q \in Collapsed(A) THEN Null ELSE A[q]
<1>1. g.path \in Seq(STRING) /\ FieldAtPath(g.path).kind = "read" /\ IsTree(A)
  BY OneGarblingIs DEF IsAtAField
<1>2. g.path # <<>> /\ g.path[1] \notin OURS_NOT_THE_MODELS
  BY <1>1, FieldsAreTheirs
<1>3. Above(g.path) \cap Collapsed(A) = {}
  BY WayStays
<1>4. /\ \A p : p \in DOMAIN T <=>
                  /\ p \in DOMAIN A /\ Above(p) \cap Collapsed(A) = {}
                  /\ ~(p # <<>> /\ p[1] \in OURS_NOT_THE_MODELS)
      /\ \A p \in DOMAIN T : T[p] = IF p \in Collapsed(A) THEN Null ELSE A[p]
  BY TheirsIs
<1>5. g.path \in DOMAIN T <=> g.path \in DOMAIN A
  BY <1>2, <1>3, <1>4
<1>6. ASSUME NEW p \in DOMAIN T, IsPrefix(g.path, p), p # g.path PROVE g.path \notin Collapsed(A)
  <2>1. p \in Seq(STRING)
    BY <1>1, <1>4 DEF IsTree
  <2>2. g.path \in Above(p)
    BY <1>1, <1>6, <2>1, PrefixIsAbove
  <2> QED
    BY <1>4, <2>2
<1>7. ASSUME NEW key \in STRING
      PROVE  LET q == Append(g.path, key)
             IN  /\ q \in DOMAIN T <=> q \in DOMAIN A /\ g.path \notin Collapsed(A)
                 /\ q \in DOMAIN T => T[q] = IF q \in Collapsed(A) THEN Null ELSE A[q]
  <2> DEFINE q == Append(g.path, key)
  <2>1. Above(q) = Above(g.path) \cup {g.path}
    BY <1>1, OneFurtherIs
  <2>2. q # <<>> /\ q[1] = g.path[1]
    <3>1. Len(g.path) \in Nat /\ Len(g.path) # 0
      BY <1>1, <1>2
    <3>2. Len(q) = Len(g.path) + 1 /\ \A i \in 1..Len(g.path) : q[i] = g.path[i]
      BY <1>1
    <3>3. 1 \in 1..Len(g.path) /\ Len(q) # 0
      BY <3>1, <3>2
    <3>4. Len(<<>>) = 0
      OBVIOUS
    <3> QED
      BY <3>2, <3>3, <3>4, Zenon
  <2> HIDE DEF q
  <2>3. q \in DOMAIN T <=> q \in DOMAIN A /\ g.path \notin Collapsed(A)
    BY <1>2, <1>3, <1>4, <2>1, <2>2
  <2>4. q \in DOMAIN T => T[q] = IF q \in Collapsed(A) THEN Null ELSE A[q]
    BY <1>4
  <2> QED
    BY <2>3, <2>4 DEF q
<1> QED
  BY <1>4, <1>5, <1>6, <1>7

\* A path is one key further than one path only.
LEMMA OneFurtherOnce ==
    ASSUME NEW p \in Seq(STRING), NEW q \in Seq(STRING), NEW k \in STRING, NEW l \in STRING,
           Append(p, k) = Append(q, l)
    PROVE  p = q /\ k = l
<1>1. Len(p) + 1 = Len(q) + 1 /\ Len(p) \in Nat /\ Len(q) \in Nat
  <2>1. Len(Append(p, k)) = Len(p) + 1 /\ Len(Append(q, l)) = Len(q) + 1
    OBVIOUS
  <2> QED
    BY <2>1
<1>2. Len(p) = Len(q)
  BY <1>1
<1>3. Upto(Append(p, k), Len(p)) = p /\ Upto(Append(q, l), Len(q)) = q
  BY OneFurtherIs
<1>4. Append(p, k)[Len(p) + 1] = k /\ Append(q, l)[Len(q) + 1] = l
  BY OneFurtherIs
<1>5. p = q
  BY <1>2, <1>3, Zenon
<1>6. k = l
  BY <1>2, <1>4, Zenon
<1> QED
  BY <1>5, <1>6

\* What can be wrong where one field is garbled: the field is missing and required, or what
\* is there does not fit, or something in it.
LEMMA MisfitsOfAField ==
    ASSUME NEW g, <<g>> \in Texts, IsAtAField(g), Accepted(_invoice_of(Page)),
           NEW T, T = Theirs(Answer(<<g>>)), NEW m
    PROVE  /\ m \in Misfits(T) =>
                 /\ m \in Seq(STRING) /\ IsPrefix(g.path, m)
                 /\ \/ m \in DOMAIN T /\ m \notin Fits(T)
                    \/ m = g.path /\ m \notin DOMAIN T /\ FieldAtPath(m).required
                    \/ \E p \in DOMAIN T : IsPrefix(g.path, p) /\ IsMissing(T, p, m)
           /\ m = g.path /\ m \notin DOMAIN T /\ FieldAtPath(m).required => m \in Misfits(T)
           /\ m = g.path /\ m \in DOMAIN T /\ m \notin Fits(T) => m \in Misfits(T)
<1>1. Range(<<g>>) = {g} /\ g.path \in Seq(STRING) /\ FieldAtPath(g.path).kind = "read"
  BY OneGarblingIs DEF IsAtAField
<1>2. g.path # <<>>
  BY <1>1, FieldsAreTheirs
<1>3. PICK up \in Above(g.path), key \in STRING :
          /\ up \in Seq(STRING) /\ g.path = Append(up, key)
          /\ FieldAtPath(up).kind = "part"
          /\ key \in RequiredBelow(FieldAtPath(up)) <=> FieldAtPath(g.path).required
  BY <1>1, FieldIsOfAPart
<1>4. Above(g.path) \subseteq Fits(T)
  BY WayStays
<1>5. Rooted(T)
  BY <1>1, <1>2, ObjectsStay
<1>6. ASSUME m \in Misfits(T) PROVE m \in Seq(STRING) /\ IsPrefix(g.path, m)
  BY <1>1, <1>2, <1>6, MisfitsAreTheirs
<1>7. ASSUME m \in Misfits(T), NEW p \in DOMAIN T, IsMissing(T, p, m)
      PROVE  \/ IsPrefix(g.path, p)
             \/ m = g.path /\ m \notin DOMAIN T /\ FieldAtPath(m).required
  <2>1. PICK k \in RequiredBelow(FieldAtPath(p)) : m = Append(p, k)
    BY <1>7 DEF IsMissing
  <2>2. p \in Seq(STRING) /\ m \in Seq(STRING) /\ IsPrefix(g.path, m)
    BY <1>5, <1>6, <1>7 DEF Rooted
  <2>3. k \in STRING
    <3>1. Len(p) \in Nat /\ Len(m) = Len(p) + 1 /\ m[Len(p) + 1] = k
      BY <2>1, <2>2
    <3>2. Len(p) + 1 \in 1..Len(m)
      BY <3>1
    <3> QED
      BY <2>2, <3>1, <3>2
  <2>4. CASE g.path # m
    BY <1>1, <2>1, <2>2, <2>3, <2>4, PrefixOfOneFurther
  <2>5. CASE g.path = m
    <3>1. up = p /\ key = k
      <4>1. Append(up, key) = Append(p, k) /\ up \in Seq(STRING)
        BY <1>3, <2>1, <2>5, Zenon
      <4> QED
        BY <2>2, <2>3, <4>1, OneFurtherOnce
    <3>2. m \notin DOMAIN T
      BY <1>7 DEF IsMissing
    <3> QED
      BY <1>3, <2>1, <2>5, <3>1, <3>2
  <2> QED
    BY <2>4, <2>5
<1>8. ASSUME m \in Misfits(T)
      PROVE  \/ m \in DOMAIN T /\ m \notin Fits(T)
             \/ m = g.path /\ m \notin DOMAIN T /\ FieldAtPath(m).required
             \/ \E p \in DOMAIN T : IsPrefix(g.path, p) /\ IsMissing(T, p, m)
  BY <1>7, <1>8, MisfitIs DEF Reached
<1>9. ASSUME m = g.path, m \notin DOMAIN T, FieldAtPath(m).required PROVE m \in Misfits(T)
  <2>1. up \in DOMAIN T /\ up \in Fits(T)
    BY <1>3, <1>4 DEF Fits
  <2>2. Reached(T, up)
    BY <1>1, <1>3, <1>4, <2>1, AboveIsPrefix DEF Reached
  <2>3. T[up].t = "object"
    <3>1. FitsField(FieldAtPath(up), T[up], IsFilled(T, up))
      BY <2>1 DEF Fits
    <3> QED
      BY <1>3, <3>1 DEF FitsField
  <2>4. IsMissing(T, up, m)
    BY <1>3, <1>9, <2>1, <2>2, <2>3 DEF IsMissing
  <2> QED
    BY <2>1, <2>4, MisfitIs
<1>10. ASSUME m = g.path, m \in DOMAIN T, m \notin Fits(T) PROVE m \in Misfits(T)
  BY <1>4, <1>10, MisfitIs DEF Reached
<1> QED
  BY <1>6, <1>8, <1>9, <1>10

\* The cells that say nothing, and those that say a value.
IsNothing(cell) ==
    \/ <<>> \notin DOMAIN cell
    \/ cell[<<>>].t = "null"
    \/ cell[<<>>].t = "object" /\ <<"value">> \in DOMAIN cell /\ SaysNothing(cell[<<"value">>])

IsReading(cell, type) ==
    /\ <<>> \in DOMAIN cell /\ cell[<<>>].t = "object" /\ <<"value">> \in DOMAIN cell
    /\ Reads(type, cell[<<"value">>]) /\ ~SaysNothing(cell[<<"value">>])
    /\ <<"confidence">> \in DOMAIN cell =>
          LET c == cell[<<"confidence">>] IN c.t \in {"int", "decimal"} /\ c.n \in 0..100
    /\ DOMAIN cell \subseteq {<<>>, <<"value">>, <<"confidence">>}

\* All others are no reading.
LEMMA SaysIs ==
    ASSUME NEW cell, NEW type
    PROVE  Says(cell, type) = IF IsNothing(cell) THEN Null
                              ELSE IF IsReading(cell, type) THEN cell[<<"value">>] ELSE Wrong
<1>1. CASE IsNothing(cell)
  BY <1>1 DEF Says, IsNothing
<1>2. CASE ~IsNothing(cell) /\ IsReading(cell, type)
  BY <1>2 DEF Says, IsNothing, IsReading
<1>3. CASE ~IsNothing(cell) /\ ~IsReading(cell, type)
  BY <1>3 DEF Says, IsNothing, IsReading
<1> QED
  BY <1>1, <1>2, <1>3

\* Where an invoice has a null for a field, or nothing, only a required field is wrong.
LEMMA NullAlone ==
    ASSUME NEW g, <<g>> \in Texts, IsAtAField(g), Accepted(_invoice_of(Page)),
           NEW T, T = Theirs(Answer(<<g>>)),
           \A p \in DOMAIN T : IsPrefix(g.path, p) => p = g.path /\ T[p].t = "null"
    PROVE  /\ Misfits(T) = {} <=> ~FieldAtPath(g.path).required
           /\ ValueAt(T, g.path) = Null
<1>1. g.path \in Seq(STRING) /\ FieldAtPath(g.path).kind = "read"
  BY OneGarblingIs DEF IsAtAField
<1>2. ValueAt(T, g.path) = Null
  <2>1. IsPrefix(g.path, Append(g.path, "value"))
    BY <1>1, NamesAreStrings, OneFurtherIs
  <2>2. Append(g.path, "value") # g.path
    <3>1. Len(Append(g.path, "value")) = Len(g.path) + 1 /\ Len(g.path) \in Nat
      BY <1>1
    <3> QED
      BY <3>1
  <2> QED
    BY <2>1, <2>2 DEF ValueAt
<1>3. IsPrefix(g.path, g.path)
  <2>1. Len(g.path) <= Len(g.path)
    BY <1>1
  <2> QED
    BY <1>1, <2>1, PrefixIsUpto, UptoIs
<1>4. g.path \in DOMAIN T => (g.path \in Fits(T) <=> ~FieldAtPath(g.path).required)
  <2>1. ASSUME g.path \in DOMAIN T
        PROVE  FitsField(FieldAtPath(g.path), T[g.path], IsFilled(T, g.path))
                  <=> ~FieldAtPath(g.path).required
    BY <1>1, <1>3, <2>1 DEF FitsField
  <2> QED
    BY <2>1 DEF Fits
<1>5. ASSUME FieldAtPath(g.path).required PROVE g.path \in Misfits(T)
  BY <1>4, <1>5, MisfitsOfAField
<1>6. ASSUME ~FieldAtPath(g.path).required, NEW m \in Misfits(T) PROVE FALSE
  <2>1. /\ m \in Seq(STRING) /\ IsPrefix(g.path, m)
        /\ \/ m \in DOMAIN T /\ m \notin Fits(T)
           \/ m = g.path /\ m \notin DOMAIN T /\ FieldAtPath(m).required
           \/ \E p \in DOMAIN T : IsPrefix(g.path, p) /\ IsMissing(T, p, m)
    BY MisfitsOfAField
  <2>2. ASSUME NEW p \in DOMAIN T, IsPrefix(g.path, p) PROVE ~IsMissing(T, p, m)
    BY <2>2 DEF IsMissing
  <2>3. ~(m \in DOMAIN T /\ m \notin Fits(T))
    BY <1>4, <1>6, <2>1
  <2> QED
    BY <1>6, <2>1, <2>2, <2>3
<1> QED
  BY <1>2, <1>5, <1>6

\* Nothing is left of a cell that says nothing, or a null.
LEMMA NothingIsLeft ==
    ASSUME NEW g, <<g>> \in Texts, IsAtAField(g), Accepted(_invoice_of(Page)),
           NEW T, T = Theirs(Answer(<<g>>)), IsNothing(g.cell)
    PROVE  \A p \in DOMAIN T : IsPrefix(g.path, p) => p = g.path /\ T[p].t = "null"
<1> DEFINE A == Answer(<<g>>)
<1>1. /\ g.path \in Seq(STRING) /\ IsTree(g.cell) /\ IsTree(A) /\ IsGarbledBy(A, {g})
  BY OneGarblingIs
<1>2. /\ g.path \in DOMAIN A <=> <<>> \in DOMAIN g.cell
      /\ g.path \in DOMAIN A => A[g.path] = g.cell[<<>>]
      /\ Append(g.path, "value") \in DOMAIN A <=> <<"value">> \in DOMAIN g.cell
      /\ Append(g.path, "value") \in DOMAIN A => A[Append(g.path, "value")] = g.cell[<<"value">>]
  BY InTheCell, NamesAreStrings
<1>3. /\ g.path \in DOMAIN T => T[g.path] = IF g.path \in Collapsed(A) THEN Null ELSE A[g.path]
      /\ \A p \in DOMAIN T : IsPrefix(g.path, p) /\ p # g.path => g.path \notin Collapsed(A)
  BY LeftOfTheCell
<1>4. \A p \in DOMAIN T : p \in DOMAIN A
  BY TheirsIs
<1> HIDE DEF A
<1> SUFFICES ASSUME NEW p \in DOMAIN T, IsPrefix(g.path, p)
             PROVE  p = g.path /\ T[p].t = "null"
  OBVIOUS
<1>5. p \in DOMAIN A /\ p \in Seq(STRING) /\ Above(p) \subseteq DOMAIN A
  BY <1>1, <1>4 DEF IsTree
<1>6. g.path \in DOMAIN A /\ (p # g.path => g.path \in Above(p))
  BY <1>1, <1>5, PrefixIsAbove
<1>7. CASE A[g.path].t = "null"
  <2>1. p = g.path
    <3>1. SUFFICES ASSUME p # g.path PROVE FALSE
      OBVIOUS
    <3> DEFINE q == Upto(p, Len(g.path) + 1)
    <3>2. Len(g.path) <= Len(p) /\ Upto(p, Len(g.path)) = g.path
      BY <1>1, <1>5, PrefixIsUpto
    <3>3. Len(g.path) \in Nat /\ Len(p) \in Nat /\ Len(g.path) < Len(p)
      BY <1>1, <1>5, <1>6, <3>1, AboveIsPrefix
    <3>4. Len(g.path) + 1 \in 0..Len(p) /\ Len(g.path) \in 0..(Len(g.path) + 1)
      BY <3>3
    <3>5. q \in Seq(STRING) /\ Len(q) = Len(g.path) + 1 /\ Upto(q, Len(g.path)) = g.path
      BY <1>5, <3>2, <3>4, UptoIs
    <3>6. q \in DOMAIN A
      <4>1. CASE Len(g.path) + 1 = Len(p)
        BY <1>5, <4>1, UptoIs
      <4>2. CASE Len(g.path) + 1 # Len(p)
        <5>1. Len(g.path) + 1 \in 0..(Len(p) - 1)
          BY <3>3, <4>2
        <5> QED
          BY <1>5, <5>1, AboveIsUpto
      <4> QED
        BY <4>1, <4>2
    <3> HIDE DEF q
    <3>7. q # <<>> /\ SubSeq(q, 1, Len(q) - 1) = g.path
      <4>1. Len(q) - 1 = Len(g.path) /\ Len(q) # 0
        BY <3>3, <3>5
      <4>2. q # <<>>
        BY <4>1
      <4> QED
        BY <3>5, <4>1, <4>2 DEF Upto
    <3>8. A[g.path].t \in {"object", "list"}
      BY <1>1, <3>6, <3>7 DEF IsTree
    <3> QED
      BY <1>7, <3>8
  <2> QED
    BY <1>3, <1>7, <2>1 DEF Null
<1>8. CASE A[g.path].t # "null"
  <2>1. g.path \in Collapsed(A)
    BY <1>2, <1>6, <1>8 DEF IsNothing, Collapsed, SaysNothing, _means_nothing
  <2> QED
    BY <1>3, <2>1 DEF Null
<1> QED
  BY <1>7, <1>8

\* What the schema has in a wrapper.
LEMMA InAWrapper ==
    ASSUME NEW field, field.kind = "read", NEW key
    PROVE  LET below == FieldBelow(field, key)
           IN  /\ key = "value" => below.kind = "value" /\ below.of = field.of
               /\ key = "confidence" => below.kind = "confidence"
               /\ key \notin {"value", "confidence"} => below.kind = "none"
<1>1. CASE key = "value"
  <2>1. FieldBelow(field, key) = [Read(field.of, field.bt) EXCEPT !.kind = "value"]
    BY <1>1 DEF FieldBelow
  <2> QED
    BY <1>1, <2>1 DEF Read
<1>2. CASE key = "confidence"
  BY <1>2 DEF FieldBelow, NoField
<1>3. CASE key \notin {"value", "confidence"}
  BY <1>3 DEF FieldBelow, NoField
<1> QED
  BY <1>1, <1>2, <1>3

\* A number or a text is no object.
LEMMA ReadsNoObject ==
    ASSUME NEW type, NEW node, Reads(type, node)
    PROVE  node.t \notin {"object", "list", "null", "wrong"}
BY DEF Reads

\* A reading is accepted, and stays what it is.
LEMMA ReadingFits ==
    ASSUME NEW g, <<g>> \in Texts, IsAtAField(g), Accepted(_invoice_of(Page)),
           NEW T, T = Theirs(Answer(<<g>>)), IsReading(g.cell, FieldAtPath(g.path).of)
    PROVE  Misfits(T) = {} /\ ValueAt(T, g.path) = g.cell[<<"value">>]
<1> DEFINE A == Answer(<<g>>)
           v == Append(g.path, "value")
           field == FieldAtPath(g.path)
<1>1. /\ g.path \in Seq(STRING) /\ field.kind = "read"
      /\ IsTree(A) /\ IsGarbledBy(A, {g})
  BY OneGarblingIs DEF IsAtAField
<1>2. /\ g.path \in DOMAIN A /\ A[g.path] = g.cell[<<>>]
      /\ v \in DOMAIN A /\ A[v] = g.cell[<<"value">>]
  BY InTheCell, NamesAreStrings DEF IsReading
<1>3. /\ A[g.path].t = "object" /\ Reads(field.of, A[v]) /\ ~SaysNothing(A[v])
      /\ A[v].t \notin {"object", "list", "null", "wrong"}
  BY <1>2, ReadsNoObject DEF IsReading
<1>4. g.path \notin Collapsed(A) /\ v \notin Collapsed(A)
  BY <1>3 DEF Collapsed, SaysNothing, _means_nothing
<1> HIDE DEF A
<1>5. /\ g.path \in DOMAIN T /\ T[g.path] = A[g.path]
      /\ v \in DOMAIN T /\ T[v] = A[v]
  BY <1>2, <1>4, LeftOfTheCell, NamesAreStrings DEF A
<1>6. g.path \in Fits(T)
  BY <1>1, <1>3, <1>5 DEF Fits, FitsField
<1>7. v \in Fits(T)
  <2>1. FieldAtPath(v) = FieldBelow(field, "value")
    BY <1>1, FieldBelowIs, NamesAreStrings
  <2> HIDE DEF field, v
  <2>2. FieldAtPath(v).kind = "value" /\ FieldAtPath(v).of = field.of
    BY <1>1, <2>1, InAWrapper
  <2>3. FitsField(FieldAtPath(v), T[v], IsFilled(T, v))
    BY <1>3, <1>5, <2>2 DEF FitsField
  <2> QED
    BY <1>5, <2>3 DEF Fits
<1>8. ASSUME NEW p \in DOMAIN T, IsPrefix(g.path, p), p # g.path, p # v
      PROVE  p \in Fits(T) /\ T[p].t # "object"
  <2>1. p \in DOMAIN A /\ p \in Seq(STRING)
    BY <1>1, TheirsIs DEF A, IsTree
  <2>2. After(g.path, p) \in DOMAIN g.cell /\ A[p] = g.cell[After(g.path, p)]
    BY <1>1, <1>8, <2>1 DEF IsGarbledBy
  <2>3. g.path \o After(g.path, p) = p
    BY <1>1, <1>8, <2>1, RestIs
  <2>4. After(g.path, p) = <<"confidence">>
    <3>1. g.path \o <<>> = g.path /\ g.path \o <<"value">> = v
      BY <1>1, NamesAreStrings
    <3>2. After(g.path, p) # <<>> /\ After(g.path, p) # <<"value">>
      BY <1>8, <2>3, <3>1, Zenon
    <3> QED
      BY <2>2, <3>2 DEF IsReading
  <2> DEFINE c == g.cell[<<"confidence">>]
  <2>5. c.t \in {"int", "decimal"} /\ c.n \in 0..100 /\ A[p] = c
    BY <2>2, <2>4 DEF IsReading
  <2>6. "confidence" \in STRING /\ p = Append(g.path, "confidence")
    <3>1. <<"confidence">> \in Seq(STRING)
      BY <1>1, <1>8, <2>1, <2>4, RestIs
    <3>2. "confidence" \in STRING
      BY <3>1
    <3> QED
      BY <1>1, <2>3, <2>4, <3>2
  <2> HIDE DEF c, field
  <2>7. p \notin Collapsed(A)
    BY <2>5 DEF Collapsed
  <2>8. T[p] = c
    BY <2>5, <2>6, <2>7, LeftOfTheCell DEF A
  <2>9. FieldAtPath(p).kind = "confidence"
    BY <1>1, <2>6, FieldBelowIs, InAWrapper DEF field
  <2>10. FitsField(FieldAtPath(p), T[p], IsFilled(T, p))
    BY <2>5, <2>8, <2>9 DEF FitsField
  <2> QED
    BY <2>5, <2>8, <2>10 DEF Fits
<1>9. ASSUME NEW m \in Misfits(T) PROVE FALSE
  <2>1. /\ m \in Seq(STRING) /\ IsPrefix(g.path, m)
        /\ \/ m \in DOMAIN T /\ m \notin Fits(T)
           \/ m = g.path /\ m \notin DOMAIN T /\ FieldAtPath(m).required
           \/ \E p \in DOMAIN T : IsPrefix(g.path, p) /\ IsMissing(T, p, m)
    BY MisfitsOfAField
  <2>2. ~(m \in DOMAIN T /\ m \notin Fits(T))
    BY <1>6, <1>7, <1>8, <2>1
  <2>3. ASSUME NEW p \in DOMAIN T, IsPrefix(g.path, p), IsMissing(T, p, m) PROVE FALSE
    <3>1. T[p].t = "object"
      BY <2>3 DEF IsMissing
    <3>2. p = g.path
      BY <1>3, <1>5, <1>8, <2>3, <3>1
    <3>3. RequiredBelow(field) = {"value"}
      BY <1>1 DEF RequiredBelow
    <3>4. m = v /\ m \notin DOMAIN T
      BY <2>3, <3>2, <3>3 DEF IsMissing
    <3> QED
      BY <1>5, <3>4
  <2> QED
    BY <1>5, <2>1, <2>2, <2>3
<1>10. ValueAt(T, g.path) = g.cell[<<"value">>]
  BY <1>2, <1>5 DEF ValueAt
<1> QED
  BY <1>9, <1>10

\* And what is accepted at a field and says something is a reading.
LEMMA OnlyReadingsFit ==
    ASSUME NEW g, <<g>> \in Texts, IsAtAField(g), Accepted(_invoice_of(Page)),
           NEW T, T = Theirs(Answer(<<g>>)), ~IsNothing(g.cell), Misfits(T) = {}
    PROVE  IsReading(g.cell, FieldAtPath(g.path).of)
<1> DEFINE A == Answer(<<g>>)
           v == Append(g.path, "value")
           field == FieldAtPath(g.path)
<1>1. /\ g.path \in Seq(STRING) /\ field.kind = "read"
      /\ IsTree(g.cell) /\ DOMAIN g.cell \subseteq Seq(STRING) /\ IsTree(A)
  BY OneGarblingIs DEF IsAtAField
<1>2. Rooted(T)
  BY <1>1, TheirsIsRooted
<1>3. \A p \in DOMAIN T :
         /\ FitsField(FieldAtPath(p), T[p], IsFilled(T, p))
         /\ T[p].t = "object" =>
               \A key \in RequiredBelow(FieldAtPath(p)) : Append(p, key) \in DOMAIN T
  BY <1>2, EverythingFits
<1>4. /\ g.path \in DOMAIN A /\ A[g.path] = g.cell[<<>>]
      /\ \A key \in STRING :
            /\ Append(g.path, key) \in DOMAIN A <=> <<key>> \in DOMAIN g.cell
            /\ Append(g.path, key) \in DOMAIN A => A[Append(g.path, key)] = g.cell[<<key>>]
  BY InTheCell DEF IsNothing
<1>5. g.path \notin Collapsed(A)
  <2>1. v \in DOMAIN A <=> <<"value">> \in DOMAIN g.cell
    BY <1>4, NamesAreStrings
  <2>2. v \in DOMAIN A => A[v] = g.cell[<<"value">>]
    BY <1>4, NamesAreStrings
  <2> QED
    BY <1>4, <2>1, <2>2 DEF IsNothing, Collapsed, SaysNothing, _means_nothing
<1> HIDE DEF A
<1>6. /\ g.path \in DOMAIN T /\ T[g.path] = A[g.path]
      /\ \A key \in STRING :
            LET q == Append(g.path, key)
            IN  /\ q \in DOMAIN T <=> q \in DOMAIN A
                /\ q \in DOMAIN T => T[q] = IF q \in Collapsed(A) THEN Null ELSE A[q]
  BY <1>4, <1>5, LeftOfTheCell DEF A
<1>7. g.cell[<<>>].t = "object" /\ <<>> \in DOMAIN g.cell
  <2>1. FitsField(field, T[g.path], IsFilled(T, g.path))
    BY <1>3, <1>6
  <2>2. T[g.path].t # "null"
    BY <1>4, <1>6 DEF IsNothing
  <2> HIDE DEF field
  <2>3. T[g.path].t = "object"
    BY <1>1, <2>1, <2>2 DEF FitsField
  <2> QED
    BY <1>4, <1>6, <2>3 DEF IsNothing
<1> HIDE DEF field
<1>8. ASSUME NEW key \in STRING, <<key>> \in DOMAIN g.cell
      PROVE  LET below == FieldBelow(field, key)
             IN  /\ key \in {"value", "confidence"}
                 /\ below.kind = "value" => Reads(field.of, g.cell[<<key>>])
                 /\ below.kind = "confidence" => /\ g.cell[<<key>>].t \in {"int", "decimal"}
                                                 /\ g.cell[<<key>>].n \in 0..100
                 /\ g.cell[<<key>>].t \notin {"object", "list"}
  <2> DEFINE q == Append(g.path, key)
             below == FieldBelow(field, key)
             node == g.cell[<<key>>]
  <2>1. q \in DOMAIN A /\ A[q] = node /\ q \in DOMAIN T
    BY <1>4, <1>6, <1>8
  <2>2. T[q] = IF q \in Collapsed(A) THEN Null ELSE node
    BY <1>6, <2>1
  <2>3. FieldAtPath(q) = below
    BY <1>1, FieldBelowIs DEF field
  <2>4. FitsField(below, T[q], IsFilled(T, q))
    BY <1>3, <2>1, <2>3
  <2>5. /\ key = "value" => below.kind = "value" /\ below.of = field.of
        /\ key = "confidence" => below.kind = "confidence"
        /\ key \notin {"value", "confidence"} => below.kind = "none"
    BY <1>1, InAWrapper
  <2> HIDE DEF q, below, node
  <2>6. key \in {"value", "confidence"}
    BY <2>4, <2>5, NothingFitsNowhere
  <2>7. below.kind = "value" => Reads(field.of, T[q])
    BY <2>4, <2>5, <2>6 DEF FitsField
  <2>8. below.kind = "confidence" => T[q].t \in {"int", "decimal"} /\ T[q].n \in 0..100
    BY <2>4, <2>5, <2>6 DEF FitsField
  <2>9. T[q].t \notin {"object", "list", "null"}
    <3>1. CASE below.kind = "value"
      BY <2>7, <3>1, ReadsNoObject
    <3>2. CASE below.kind = "confidence"
      BY <2>8, <3>2
    <3> QED
      BY <2>5, <2>6, <3>1, <3>2
  <2>10. T[q] = node
    BY <2>2, <2>9 DEF Null
  <2> QED
    BY <2>6, <2>7, <2>8, <2>9, <2>10 DEF below, node
<1>9. <<"value">> \in DOMAIN g.cell
  <2>1. "value" \in RequiredBelow(field)
    BY <1>1 DEF RequiredBelow
  <2>2. v \in DOMAIN T
    BY <1>3, <1>4, <1>6, <1>7, <2>1 DEF field
  <2> QED
    BY <1>4, <1>6, <2>2, NamesAreStrings
<1>10. Reads(field.of, g.cell[<<"value">>]) /\ ~SaysNothing(g.cell[<<"value">>])
  <2>1. FieldBelow(field, "value").kind = "value"
    BY <1>1, InAWrapper
  <2>2. Reads(field.of, g.cell[<<"value">>])
    BY <1>8, <1>9, <2>1, NamesAreStrings
  <2> QED
    BY <1>7, <1>9, <2>2 DEF IsNothing
<1>11. ASSUME <<"confidence">> \in DOMAIN g.cell
       PROVE  LET c == g.cell[<<"confidence">>] IN c.t \in {"int", "decimal"} /\ c.n \in 0..100
  <2>1. "confidence" \in STRING
    <3>1. <<"confidence">> \in Seq(STRING)
      BY <1>1, <1>11
    <3> QED
      BY <3>1
  <2>2. FieldBelow(field, "confidence").kind = "confidence"
    BY <1>1, InAWrapper
  <2> QED
    BY <1>8, <1>11, <2>1, <2>2
<1>12. ASSUME NEW r \in DOMAIN g.cell, r # <<>> PROVE r \in {<<"value">>, <<"confidence">>}
  <2> DEFINE first == Upto(r, 1)
  <2>1. r \in Seq(STRING) /\ Len(r) \in Nat /\ Len(r) # 0 /\ Above(r) \subseteq DOMAIN g.cell
    BY <1>1, <1>12 DEF IsTree
  <2>2. first = <<r[1]>> /\ r[1] \in STRING
    <3>1. 1 \in 0..Len(r) /\ 1 \in 1..Len(r) /\ 1 \in 1..1
      BY <2>1
    <3>2. r[1] \in STRING
      BY <2>1, <3>1
    <3>3. <<r[1]>> \in Seq(STRING) /\ Len(<<r[1]>>) = 1 /\ <<r[1]>>[1] = r[1]
      BY <3>2
    <3>4. first \in Seq(STRING) /\ Len(first) = 1 /\ first[1] = r[1]
      BY <2>1, <3>1, UptoIs, Zenon
    <3> HIDE DEF first
    <3>5. first = <<r[1]>>
      BY <3>3, <3>4, SeqEqual
    <3> QED
      BY <3>2, <3>5
  <2>3. Len(r) = 1 => r = first
    BY <2>1, UptoIs
  <2>4. first \in DOMAIN g.cell
    <3>1. CASE Len(r) = 1
      BY <2>3, <3>1
    <3>2. CASE Len(r) # 1
      <4>1. 1 \in 0..(Len(r) - 1)
        BY <2>1, <3>2
      <4> QED
        BY <2>1, <4>1, AboveIsUpto
    <3> QED
      BY <3>1, <3>2
  <2> HIDE DEF first
  <2>5. r[1] \in {"value", "confidence"} /\ g.cell[first].t \notin {"object", "list"}
    BY <1>8, <2>2, <2>4
  <2>6. Len(r) = 1
    <3>1. SUFFICES ASSUME Len(r) # 1 PROVE FALSE
      OBVIOUS
    <3> DEFINE q == Upto(r, 2)
    <3>2. 2 \in 0..Len(r) /\ 1 \in 0..2 /\ 2 \in Nat
      BY <2>1, <3>1
    <3>3. q \in Seq(STRING) /\ Len(q) = 2 /\ Upto(q, 1) = first
      BY <2>1, <3>2, UptoIs DEF first
    <3>4. q \in DOMAIN g.cell
      <4>1. CASE Len(r) = 2
        BY <2>1, <4>1, UptoIs
      <4>2. CASE Len(r) # 2
        <5>1. \A n \in Nat : n # 0 /\ n # 1 /\ n # 2 => 2 \in 0..(n - 1)
          OBVIOUS
        <5>2. 2 \in 0..(Len(r) - 1)
          BY <2>1, <3>1, <4>2, <5>1, Zenon
        <5> QED
          BY <2>1, <5>2, AboveIsUpto
      <4> QED
        BY <4>1, <4>2
    <3> HIDE DEF q
    <3>5. q # <<>> /\ SubSeq(q, 1, Len(q) - 1) = first
      <4>1. Len(q) - 1 = 1 /\ Len(q) # 0
        BY <3>3
      <4>2. q # <<>>
        BY <4>1
      <4> QED
        BY <3>3, <4>1, <4>2 DEF Upto
    <3>6. g.cell[first].t \in {"object", "list"}
      BY <1>1, <3>4, <3>5 DEF IsTree
    <3> QED
      BY <2>5, <3>6
  <2> QED
    BY <2>2, <2>3, <2>5, <2>6
<1>13. DOMAIN g.cell \subseteq {<<>>, <<"value">>, <<"confidence">>}
  BY <1>12
<1> QED
  BY <1>7, <1>9, <1>10, <1>11, <1>13 DEF IsReading, field

\* Below a field to read there is no part and no list.
LEMMA BelowAField ==
    ASSUME NEW p \in Seq(STRING), NEW n \in 0..Len(p), FieldAtPath(Upto(p, n)).kind = "read",
           NEW m \in n..Len(p)
    PROVE  FieldAtPath(Upto(p, m)).kind \notin {"part", "several"}
<1> DEFINE F(i) == FieldAtPath(Upto(p, i))
           S == {i \in Nat : n + i <= Len(p) => F(n + i).kind \notin {"part", "several"}}
<1>1. n \in Nat /\ m \in Nat /\ Len(p) \in Nat /\ n <= m /\ m <= Len(p)
  OBVIOUS
<1>2. F(n).kind = "read" /\ \A i \in 1..Len(p) : F(i) = FieldBelow(F(i - 1), p[i])
  BY FieldOneFurther
<1> HIDE DEF F
<1>3. 0 \in S
  BY <1>1, <1>2
<1>4. ASSUME NEW i \in Nat, i \in S PROVE i + 1 \in S
  <2>1. SUFFICES ASSUME n + (i + 1) <= Len(p) PROVE F(n + (i + 1)).kind \notin {"part", "several"}
    OBVIOUS
  <2>2. n + (i + 1) \in 1..Len(p) /\ (n + (i + 1)) - 1 = n + i /\ n + i <= Len(p)
    BY <1>1, <2>1
  <2>3. F(n + (i + 1)) = FieldBelow(F(n + i), p[n + (i + 1)])
    BY <1>2, <2>2
  <2>4. F(n + i).kind \notin {"part", "several"}
    BY <1>4, <2>2
  <2> QED
    BY <2>3, <2>4, KindBelow
<1> HIDE DEF S
<1>5. Nat \subseteq S
  BY <1>3, <1>4, Induct
<1>6. m - n \in Nat /\ n + (m - n) = m
  BY <1>1
<1>7. \A i \in Nat : n + i <= Len(p) => F(n + i).kind \notin {"part", "several"}
  BY <1>5 DEF S
<1> QED
  BY <1>1, <1>6, <1>7 DEF F

\* A problem at a field or in it is named with the term of the field.
LEMMA ProblemsInAField ==
    ASSUME NEW path \in Seq(STRING), FieldAtPath(path).kind = "read", ItemsAreNumbered(path),
           NEW m \in Seq(STRING), IsPrefix(path, m)
    PROVE  _bt_at("Invoice", m) = _bt_of(FieldAtPath(path), path[1])
<1> DEFINE n == Len(path)
           problem == [where |-> m, code |-> _bt_at("Invoice", m)]
<1>1. path # <<>> /\ n \in Nat /\ n # 0 /\ Len(m) \in Nat
  BY FieldsAreTheirs
<1>2. n <= Len(m) /\ Upto(m, n) = path
  BY PrefixIsUpto
<1> HIDE DEF n
<1>3. n \in 0..Len(m) /\ n \in 1..Len(m) /\ n \in 0..n /\ 1 \in 1..n
  BY <1>1, <1>2
<1>4. /\ \A i \in 1..n : path[i] = m[i]
      /\ \A i \in 0..n : Upto(path, i) = Upto(m, i)
  BY <1>2, <1>3, UptoIs
<1>5. ItemsAreNumbered(m)
  <2> SUFFICES ASSUME NEW above \in Above(m), FieldAtPath(above).kind = "several"
               PROVE  m[Len(above) + 1] \notin DOMAIN Schema[FieldAtPath(above).of]
    BY DEF ItemsAreNumbered
  <2>1. PICK k \in 0..(Len(m) - 1) : above = Upto(m, k)
    BY AboveIsUpto
  <2>2. k \in Nat /\ k \in 0..Len(m)
    BY <1>1, <2>1
  <2>3. Len(above) = k
    BY <2>1, <2>2, UptoIs
  <2>4. k < n
    <3>1. SUFFICES ASSUME ~(k < n) PROVE FALSE
      OBVIOUS
    <3>2. k \in n..Len(m)
      BY <1>1, <2>2, <3>1
    <3> QED
      BY <1>2, <1>3, <2>1, <3>2, BelowAField
  <2>5. k \in 0..n /\ k + 1 \in 1..n /\ k \in 0..(n - 1)
    BY <1>1, <2>2, <2>4
  <2>6. above = Upto(path, k) /\ m[k + 1] = path[k + 1]
    BY <1>4, <2>1, <2>5
  <2>7. above \in Above(path)
    BY <2>5, <2>6, AboveIsUpto DEF n
  <2> QED
    BY <2>3, <2>6, <2>7 DEF ItemsAreNumbered
<1>6. problem \in describe_errors("Invoice", {m})
  BY DEF describe_errors
<1>7. problem.where = m /\ problem.code = _bt_at("Invoice", m)
  OBVIOUS
<1> HIDE DEF problem
<1>8. problem.code = _bt_of(FieldAtPath(Upto(m, n)), m[1])
  <2>1. {m} \in SUBSET Seq(STRING)
    OBVIOUS
  <2> QED
    BY <1>2, <1>3, <1>5, <1>6, <1>7, <2>1, ProblemsAreNamedByTheirField
<1> QED
  BY <1>2, <1>3, <1>4, <1>7, <1>8

\* One garbling of a field comes out as it is meant: what the cell says, unless it says
\* nothing of a required field, or what is no reading of it; and then the field is named.
LEMMA OneFieldIsRightAlone ==
    ASSUME NEW g, <<g>> \in Texts, IsAtAField(g), IsMeantAsSaid(g), Accepted(_invoice_of(Page))
    PROVE  /\ ReadsWell({g}, _invoice_of(Answer(<<g>>)))
           /\ NamesWell({g}, _invoice_of(Answer(<<g>>)))
<1> DEFINE T == Theirs(Answer(<<g>>))
           result == _invoice_of(Answer(<<g>>))
           field == FieldAtPath(g.path)
           named(m) == [where |-> m, code |-> _bt_at("Invoice", m)]
<1>1. Range(<<g>>) = {g} /\ g.path \in Seq(STRING) /\ field.kind = "read"
  BY OneGarblingIs DEF IsAtAField
<1>2. g.path # <<>>
  BY <1>1, FieldsAreTheirs
<1>3. /\ result.shape = "object" /\ result.invoice = T
      /\ result.problems = {named(m) : m \in Misfits(T)}
  BY <1>1, <1>2, ObjectsStay DEF describe_errors
<1>4. /\ g.means = Says(g.cell, field.of)
      /\ g.path \in Optional <=> ~field.required
      /\ TermAt[g.path] = _bt_of(field, g.path[1])
      /\ ItemsAreNumbered(g.path)
  BY DEF IsMeantAsSaid
<1>5. /\ Usable(g) <=> Misfits(T) = {}
      /\ Usable(g) => ValueAt(T, g.path) = g.means
  <2>1. CASE IsNothing(g.cell)
    <3>1. g.means = Null
      BY <1>4, <2>1, SaysIs
    <3>2. (Misfits(T) = {} <=> ~field.required) /\ ValueAt(T, g.path) = Null
      BY <2>1, NothingIsLeft, NullAlone
    <3>3. Null # Wrong
      BY DEF Null, Wrong
    <3> QED
      BY <1>4, <3>1, <3>2, <3>3 DEF Usable
  <2>2. CASE ~IsNothing(g.cell) /\ IsReading(g.cell, field.of)
    <3>1. g.means = g.cell[<<"value">>]
      BY <1>4, <2>2, SaysIs
    <3>2. Misfits(T) = {} /\ ValueAt(T, g.path) = g.cell[<<"value">>]
      BY <2>2, ReadingFits
    <3>3. g.cell[<<"value">>].t \notin {"null", "wrong"}
      BY <2>2, ReadsNoObject DEF IsReading
    <3>4. g.means # Null /\ g.means # Wrong
      BY <3>1, <3>3 DEF Null, Wrong
    <3> QED
      BY <3>1, <3>2, <3>4 DEF Usable
  <2>3. CASE ~IsNothing(g.cell) /\ ~IsReading(g.cell, field.of)
    <3>1. g.means = Wrong
      BY <1>4, <2>3, SaysIs
    <3>2. Misfits(T) # {}
      BY <2>3, OnlyReadingsFit
    <3> QED
      BY <3>1, <3>2 DEF Usable
  <2> QED
    BY <2>1, <2>2, <2>3
<1>6. ASSUME NEW m \in Misfits(T) PROVE IsAbout(named(m), g)
  <2>1. m \in Seq(STRING) /\ IsPrefix(g.path, m)
    BY MisfitsOfAField
  <2>2. _bt_at("Invoice", m) = _bt_of(field, g.path[1])
    BY <1>1, <1>4, <2>1, ProblemsInAField
  <2> QED
    BY <1>4, <2>1, <2>2 DEF IsAbout
<1> HIDE DEF T, result, field, named
<1>7. Accepted(result) <=> Misfits(T) = {}
  BY <1>3 DEF Accepted
<1>8. ReadsWell({g}, result)
  BY <1>3, <1>5, <1>7 DEF ReadsWell
<1>9. NamesWell({g}, result)
  <2>1. ASSUME NEW p \in result.problems PROVE ~Usable(g) /\ IsAbout(p, g)
    <3>1. PICK m \in Misfits(T) : p = named(m)
      BY <1>3
    <3> QED
      BY <1>5, <1>6, <3>1
  <2>2. ASSUME ~Usable(g) PROVE \E p \in result.problems : IsAbout(p, g)
    <3>1. PICK m \in Misfits(T) : TRUE
      BY <1>5, <2>2
    <3> QED
      BY <1>3, <1>6, <3>1
  <2> QED
    BY <2>1, <2>2 DEF NamesWell
<1> QED
  BY <1>8, <1>9 DEF result

\* So every text does, however many fields it garbles.
LEMMA EveryTextIsRight ==
    ASSUME FieldsAreMeantAsSaid, OthersAreRightAlone, NEW text \in Texts
    PROVE  /\ ReadsWell(Range(text), _invoice_of(Answer(text)))
           /\ NamesWell(Range(text), _invoice_of(Answer(text)))
<1>1. Accepted(_invoice_of(Page))
  <2>1. ReadsWell(Range(<<>>), _invoice_of(Answer(<<>>)))
    <3>1. Len(<<>>) = 0 /\ <<>> \in Texts
      BY ModelAnswerAssumption
    <3> QED
      BY <3>1 DEF OthersAreRightAlone
  <2>2. Answer(<<>>) = Page /\ Range(<<>>) = {}
    BY ThePageIsAText
  <2> QED
    BY <2>1, <2>2 DEF ReadsWell
<1>2. CASE \A g \in Range(text) : g.path # <<>>
  <2>1. ASSUME NEW g \in Range(text)
        PROVE  /\ ReadsWell({g}, _invoice_of(Answer(<<g>>)))
               /\ NamesWell({g}, _invoice_of(Answer(<<g>>)))
    <3>1. <<g>> \in Texts /\ Range(<<g>>) = {g}
      BY TextIs DEF Range
    <3>2. CASE IsAtAField(g)
      <4>1. IsMeantAsSaid(g)
        BY <3>2 DEF FieldsAreMeantAsSaid
      <4> QED
        BY <1>1, <3>1, <3>2, <4>1, OneFieldIsRightAlone
    <3>3. CASE ~IsAtAField(g)
      <4>1. Len(<<g>>) = 1 /\ <<g>>[1] = g
        OBVIOUS
      <4>2. /\ ReadsWell(Range(<<g>>), _invoice_of(Answer(<<g>>)))
            /\ NamesWell(Range(<<g>>), _invoice_of(Answer(<<g>>)))
        BY <3>1, <3>3, <4>1 DEF OthersAreRightAlone
      <4> QED
        BY <3>1, <4>2
    <3> QED
      BY <3>2, <3>3
  <2> QED
    BY <1>1, <1>2, <2>1, SeveralAreEach
<1>3. CASE \E g \in Range(text) : g.path = <<>>
  <2>1. Len(text) \in Nat /\ Range(text) = {text[n] : n \in 1..Len(text)}
    BY TextIs
  <2>2. PICK n \in 1..Len(text) : text[n].path = <<>>
    BY <1>3, <2>1
  <2>3. ASSUME NEW k \in 1..Len(text), k # n PROVE FALSE
    <3>1. ~IsPrefix(text[n].path, text[k].path)
      BY <2>3, TextIs
    <3>2. text[k].path \in Seq(STRING) /\ <<>> \in Seq(STRING)
      <4>1. text[k] \in Range(text)
        BY <2>1
      <4>2. text[k].path \in Seq(STRING)
        BY <4>1, TextIs
      <4> QED
        BY <4>2
    <3>3. IsPrefix(<<>>, text[k].path)
      <4> DEFINE q == text[k].path
      <4> HIDE DEF q
      <4>1. Len(<<>>) <= Len(q) /\ Upto(q, Len(<<>>)) = <<>>
        <5>1. Len(<<>>) = 0 /\ Len(q) \in Nat /\ 0 \in 0..Len(q)
          BY <3>2 DEF q
        <5> QED
          BY <3>2, <5>1, UptoIs DEF q
      <4> QED
        BY <3>2, <4>1, PrefixIsUpto DEF q
    <3> QED
      BY <2>2, <3>1, <3>3
  <2>4. Len(text) = 1 /\ n = 1
    <3>1. 1 \in 1..Len(text) /\ Len(text) \in 1..Len(text)
      BY <2>1, <2>2
    <3> QED
      BY <2>3, <3>1
  <2>5. ~IsAtAField(text[1])
    BY <2>2, <2>4, FieldAtTheRoot DEF IsAtAField, Part
  <2> QED
    BY <2>4, <2>5 DEF OthersAreRightAlone
<1> QED
  BY <1>2, <1>3

\* In every state, what was parsed is what was meant, and what is wrong is named.
LEMMA ParsedIsRight ==
    ASSUME FieldsAreMeantAsSaid, OthersAreRightAlone, ParsedIsTheAnswer
    PROVE  ReadAsMeant /\ ProblemsNameTheTerm
BY EveryTextIsRight DEF ParsedIsTheAnswer, ReadAsMeant, ProblemsNameTheTerm

\* _invoice_of(): an answer becomes an invoice exactly when every field was read or may be
\* missing, and then says what was read; for every page and any number of garblings of it.
THEOREM AnswersAreReadAsMeant ==
    ASSUME FieldsAreMeantAsSaid, OthersAreRightAlone
    PROVE  ModelSpec => []ReadAsMeant
<1>1. ModelInit => ParsedIsTheAnswer
  BY DEF ModelInit, ParsedIsTheAnswer
<1>2. TypeOK /\ ParsedIsTheAnswer /\ [ModelNext]_ModelVars => ParsedIsTheAnswer'
  BY ParsedKeeps
<1>3. ParsedIsTheAnswer => ReadAsMeant
  BY ParsedIsRight
<1> QED
  BY <1>1, <1>2, <1>3, TypeCorrect, PTL DEF ModelSpec

\* describe_errors(): what the model is told to look at again is every field it got wrong,
\* by its term, and none that it got right.
THEOREM EveryProblemIsNamed ==
    ASSUME FieldsAreMeantAsSaid, OthersAreRightAlone
    PROVE  ModelSpec => []ProblemsNameTheTerm
<1>1. ModelInit => ParsedIsTheAnswer
  BY DEF ModelInit, ParsedIsTheAnswer
<1>2. TypeOK /\ ParsedIsTheAnswer /\ [ModelNext]_ModelVars => ParsedIsTheAnswer'
  BY ParsedKeeps
<1>3. ParsedIsTheAnswer => ProblemsNameTheTerm
  BY ParsedIsRight
<1> QED
  BY <1>1, <1>2, <1>3, TypeCorrect, PTL DEF ModelSpec
=============================================================================
