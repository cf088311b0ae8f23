---------------------------- MODULE MCExtractor ----------------------------
(* A small instance of the extractor, with answers that were parsed.         *)
EXTENDS Extractor, MCAnswers

CONSTANTS j1, j2, scan, p1, p2, one, other

TwoJobs == {j1, j2}
OneSource == {scan}
TwoPrompts == {p1, p2}

\* Within a limit of 2, and longer than it.
AroundTheLimit == {2, 3}

\* Unset, and a number.
SomeRawLimits == {None, 1}

TwoContents == {one, other}

-----------------------------------------------------------------------------
(* Answers of the model, as the extractor sees them.                         *)

\* What parsing makes of an answer: its shape, and the terms that do not fit.
AsAnswer(json, says, spec) ==
    LET result == _invoice_of(json)
    IN  [shape |-> result.shape, misfits |-> {p.code : p \in result.problems},
         says |-> says, spec |-> spec]

\* The terms of the two fields that may be wrong in an answer.
Terms == {"BT-9", "BT-112"}

\* Not even JSON, no object, nothing readable in it, one field wrong, another field
\* wrong, and one that fits but claims another specification.
Parsed ==
    {AsAnswer(Nowhere, one, Theirs), AsAnswer(EmptyList, one, Theirs),
     AsAnswer(Wrapped(Text("null")), one, Theirs),
     AsAnswer(With(WellRead, <<"totals", "gross_total">>, Wrapped(Text("null"))), one, Theirs),
     AsAnswer(With(WellRead, <<"due_date">>, Wrapped(Text("odd"))), other, Ours),
     AsAnswer(With(WellRead, <<"customization_id">>, Leaf(Text("theirs"))), other, Theirs)}

\* By name: TLC evaluates a definition once, but the body of a constant's value wherever
\* the constant is used.
SomeAnswers == Parsed
=============================================================================
