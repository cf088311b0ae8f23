---------------------------- MODULE ModelAnswer ----------------------------
(***************************************************************************)
(* What the extractor makes of one call to the model: complete() of the    *)
(* provider, and _invoice_of() on the text it returns.  A text is the      *)
(* answer of a model that reads the page well, garbled in a few places.    *)
(***************************************************************************)
EXTENDS OpenAIProvider, AnswerParsing

CONSTANTS
    Page,       \* the answer of a model that reads everything well
    Optional,   \* the paths where Null will do
    TermAt      \* TermAt[path]: the business term of a path, by the standard

\* A garbling is [path, cell, means]: a place of the page, what an answer has there
\* instead, and what that means: the value that is read, Null, or Wrong.
Wrong == [t |-> "wrong"]

\* The answer with these garblings.
Answer(garblings) ==
    LET upTo[n \in 0..Len(garblings)] ==
            IF n = 0 THEN Page ELSE With(upTo[n - 1], garblings[n].path, garblings[n].cell)
    IN  upTo[Len(garblings)]

\* Garblings do not overlap, and each is in some part or list of the page, of which it takes
\* no whole item away.  What it puts there is a tree, and makes no wrapper of what is none.
Apart(g, h) == ~IsPrefix(g.path, h.path) /\ ~IsPrefix(h.path, g.path)
InThePage(g) ==
    /\ g.path \in Seq(STRING) /\ IsTree(g.cell)
    /\ \A above \in Above(g.path) :
          /\ above \in DOMAIN Page /\ FieldAtPath(above).kind \in {"part", "several"}
          /\ above = Front(g.path) /\ FieldAtPath(above).kind = "several" => <<>> \in DOMAIN g.cell
    /\ g.path # <<>> => Last(g.path) # "value"

\* Each garbling of a text is one of another text alone, and the page is a text as it is.
ASSUME ModelAnswerAssumption ==
    /\ <<>> \in Texts
    /\ \A text \in Texts :
          /\ IsTree(Answer(text)) /\ text \in Seq(Range(text))
          /\ \A g \in Range(text) : InThePage(g) /\ <<g>> \in Texts
          /\ \A m, n \in DOMAIN text : m # n => Apart(text[m], text[n])

VARIABLE parsed     \* what _invoice_of() made of the answer, NotYet before

NotYet == Refused("not yet")

ModelVars == <<vars, parsed>>

ModelInit == Init /\ parsed = NotYet

\* The extractor asks once more only after it has looked at the answer.
Ask ==
    /\ outcome.kind = "answered" => parsed # NotYet
    /\ Begin
    /\ parsed' = NotYet

OnTheWire ==
    \/ Progress
    \/ Tick
    \/ \E status \in Statuses, envelope \in Envelopes : Respond(status, envelope)
    \/ TransportFails
    \/ TimesOut

Parse ==
    /\ outcome.kind = "answered" /\ parsed = NotYet
    /\ parsed' = _invoice_of(Answer(outcome.text))
    /\ UNCHANGED vars

ModelNext == Ask \/ (OnTheWire /\ UNCHANGED parsed) \/ Parse

ModelSpec == ModelInit /\ [][ModelNext]_ModelVars /\ Fairness

-----------------------------------------------------------------------------
Usable(g) == g.means # Wrong /\ (g.means = Null => g.path \in Optional)

\* What an invoice says at a path, out of the wrapper.
ValueAt(tree, path) ==
    IF Append(path, "value") \in DOMAIN tree THEN tree[Append(path, "value")] ELSE Null

ReadsWell(garblings, result) ==
    /\ Accepted(result) <=> \A g \in garblings : Usable(g)
    /\ Accepted(result) => \A g \in garblings : ValueAt(result.invoice, g.path) = g.means

\* Does a problem say what is wrong at a garbled place.
IsAbout(problem, g) == IsPrefix(g.path, problem.where) /\ problem.code = TermAt[g.path]

NamesWell(garblings, result) ==
    result.shape = "object" =>
        LET unusable == {g \in garblings : ~Usable(g)}
        IN  /\ \A p \in result.problems : \E g \in unusable : IsAbout(p, g)
            /\ \A g \in unusable : \E p \in result.problems : IsAbout(p, g)

\* An answer becomes an invoice exactly when every field was read or may be missing, and
\* then the invoice has what was read where it was read, and nothing where the model said
\* it read nothing, in whichever of its ways it said so: the word null is never a name.
ReadAsMeant == parsed # NotYet => ReadsWell(Range(outcome.text), parsed)

\* What the retry is told, and the caller after it, is all that is wrong and nothing
\* else: each unusable field is named with its term, the buyer's for the buyer's fields
\* and the seller's for the seller's, however deep in the answer the problem is.
ProblemsNameTheTerm == parsed # NotYet => NamesWell(Range(outcome.text), parsed)

-----------------------------------------------------------------------------
(* What the two rest on: what a garbling of a field means is what the cell   *)
(* there says, and the standard has the terms of the schema.                 *)

IsAtAField(g) == FieldAtPath(g.path).kind = "read"

SaysNothing(v) == v.t = "null" \/ (v.t = "text" /\ v.s \in {"", " ", "null", "None"})

\* What a cell says of a field: nothing at all, or a value of the field's type, with a
\* confidence or without, or what is no reading of it.
Says(cell, type) ==
    LET is(t) == <<>> \in DOMAIN cell /\ cell[<<>>].t = t
        has(key) == <<key>> \in DOMAIN cell
        isConfidence(c) == c.t \in {"int", "decimal"} /\ c.n \in 0..100
    IN  CASE \/ <<>> \notin DOMAIN cell \/ is("null")
             \/ is("object") /\ has("value") /\ SaysNothing(cell[<<"value">>]) -> Null
          [] /\ is("object") /\ has("value") /\ Reads(type, cell[<<"value">>])
             /\ ~SaysNothing(cell[<<"value">>])
             /\ has("confidence") => isConfidence(cell[<<"confidence">>])
             /\ DOMAIN cell \subseteq {<<>>, <<"value">>, <<"confidence">>} -> cell[<<"value">>]
          [] OTHER -> Wrong

\* The items of a list are numbered: no key of a path is an item by the name of a field.
ItemsAreNumbered(path) ==
    \A above \in Above(path) :
        FieldAtPath(above).kind = "several" =>
            path[Len(above) + 1] \notin DOMAIN Schema[FieldAtPath(above).of]

IsMeantAsSaid(g) ==
    LET field == FieldAtPath(g.path)
    IN  /\ g.means = Says(g.cell, field.of)
        /\ g.path \in Optional <=> ~field.required
        /\ TermAt[g.path] = _bt_of(field, g.path[1])
        /\ ItemsAreNumbered(g.path)

FieldsAreMeantAsSaid ==
    \A text \in Texts : \A g \in Range(text) : IsAtAField(g) => IsMeantAsSaid(g)

\* The page, and garblings of what is no field, come out as they are meant when they are the
\* only ones.
OthersAreRightAlone ==
    \A text \in Texts :
        Len(text) = 0 \/ (Len(text) = 1 /\ ~IsAtAField(text[1])) =>
            LET result == _invoice_of(Answer(text))
            IN  ReadsWell(Range(text), result) /\ NamesWell(Range(text), result)
=============================================================================
