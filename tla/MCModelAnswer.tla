--------------------------- MODULE MCModelAnswer ---------------------------
(* A small instance of a call and its answer.                                *)
EXTENDS ModelAnswer, MCAnswers

\* Paths by what they hold, with their terms as EN 16931 names them.
TextTerms == (<<"number">> :> "BT-1" @@ <<"type_code">> :> "BT-3"
    @@ <<"seller", "name">> :> "BT-27" @@ <<"buyer", "name">> :> "BT-44"
    @@ <<"seller", "address", "city">> :> "BT-37" @@ <<"buyer", "address", "city">> :> "BT-52"
    @@ <<"lines", "0", "quantity_unit_code">> :> "BT-130")
OddTerms == (<<"currency">> :> "BT-5" @@ <<"due_date">> :> "BT-9"
    @@ <<"buyer", "address", "country_code">> :> "BT-55")
MoneyTerms == (<<"lines", "1", "net_price">> :> "BT-146"
    @@ <<"lines", "0", "net_amount">> :> "BT-131" @@ <<"totals", "gross_total">> :> "BT-112"
    @@ <<"totals", "amount_due">> :> "BT-115")
\* Places that are no field of one term.
Places == {<<"seller">>, <<"buyer", "address">>, <<"lines">>, <<"lines", "1">>, <<"totals">>,
           <<"seller", "address">>, <<"seller", "fax">>, <<"seller", "address", "name">>,
           <<"customization_id">>}
AllTerms == TextTerms @@ OddTerms @@ MoneyTerms
    @@ (<<"seller", "vat_id">> :> "BT-31" @@ <<"issue_date">> :> "BT-2")
    @@ [p \in Places |-> "none"]

AreOptional == {<<"type_code">>, <<"seller", "address", "city">>, <<"buyer", "address", "city">>,
                <<"lines", "0", "quantity_unit_code">>, <<"due_date">>, <<"customization_id">>,
                <<"lines", "0", "net_amount">>, <<"totals", "amount_due">>, <<"seller", "vat_id">>}

Garbled(path, cell, means) == [path |-> path, cell |-> cell, means |-> means]

\* Nothing was read, in any of the ways of saying so; or something that fits nowhere.
NothingAt(path) ==
    {Garbled(path, cell, Null) :
        cell \in {Nowhere, Leaf(Null), Wrapped(Null), Wrapped(Text(" ")), Wrapped(Text("null"))}}
MisshapenAt(path) ==
    {Garbled(path, cell, Wrong) :
        cell \in {Leaf(Text("good")), Leaf(Text("null")), Around(Wrapped(Null)), EmptyList,
                  Wrapped(Number("float", 0)), Object([confidence |-> Confident(90)]),
                  Object([value |-> Leaf(Text("good")), confidence |-> Leaf(Null)]),
                  Object([value |-> Leaf(Text("good")), confidence |-> Confident(150)]),
                  Object([value |-> Leaf(Text("good")), page |-> Confident(1)])}}
AsRead(path, v) == Garbled(path, Wrapped(v), v)
AsWrong(path, v) == Garbled(path, Wrapped(v), Wrong)

\* Not one of the fields: a model that names its own specification is overruled.
Claim == Garbled(<<"customization_id">>, Leaf(Text("theirs")), Null)

AllGarblings ==
    UNION {NothingAt(path) \cup MisshapenAt(path) :
              path \in DOMAIN TextTerms \cup DOMAIN OddTerms \cup DOMAIN MoneyTerms}
    \cup {AsRead(path, Text("odd")) : path \in DOMAIN TextTerms}
    \cup {AsWrong(path, Number("int", 100)) : path \in DOMAIN TextTerms \cup DOMAIN OddTerms}
    \cup {AsWrong(path, Text("odd")) : path \in DOMAIN OddTerms \cup DOMAIN MoneyTerms}
    \cup {AsRead(path, Number("int", 100)) : path \in DOMAIN MoneyTerms}
    \cup {Garbled(path, Wrapped(Text("null")), Null) : path \in Places}
    \cup {Garbled(path, EmptyList, Wrong) : path \in Places \ {<<"customization_id">>}}
    \cup {Claim}

\* One of each way to be refused, one that is read and one that is nothing.
SomeCompanions ==
    {Claim, Garbled(<<"seller", "vat_id">>, Wrapped(Text("odd")), Text("odd")),
     Garbled(<<"issue_date">>, Wrapped(Text("odd")), Wrong),
     Garbled(<<"buyer", "name">>, Wrapped(Text("null")), Null),
     Garbled(<<"seller", "address">>, EmptyList, Wrong)}

\* No JSON, no object, a text that says null, and an object that does.
WholeAnswers ==
    {Garbled(<<>>, cell, Wrong) :
        cell \in {Nowhere, EmptyList, Leaf(Text("null")), Wrapped(Text("null"))}}

SomeTexts ==
    {<<>>} \cup {<<g>> : g \in AllGarblings \cup SomeCompanions \cup WholeAnswers}
    \cup {pair \in AllGarblings \X SomeCompanions : Apart(pair[1], pair[2])}

CONSTANTS inf, nan

\* Seconds, none at all, and what is no number of seconds.
SomeRawTimeouts == {0, 1, 2, inf, nan}
\* On both sides of 400.
SomeStatuses == {200, 302, 400, 503}

-----------------------------------------------------------------------------
(* The values of the constants, by name: TLC evaluates a definition once,    *)
(* but the body of a constant's value wherever the constant is used.         *)

ThePage == WellRead
TheTexts == SomeTexts
TheOptional == AreOptional
TheTerms == AllTerms

\* The meanings above, written down by hand, are those the cells have by the rule.
ASSUME MeaningsAgree == FieldsAreMeantAsSaid
=============================================================================
