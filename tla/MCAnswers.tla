----------------------------- MODULE MCAnswers -----------------------------
(* Answers of a model, for the small instances: one in which everything was  *)
(* read, and the pieces to garble it with.                                   *)
EXTENDS AnswerParsing

Leaf(node) == <<>> :> node
Nowhere == [p \in {} |-> Null]

\* The tree of an object or a list, from the trees below it.
Inner(t, at) ==
    [p \in UNION {{<<key>> \o q : q \in DOMAIN at[key]} : key \in DOMAIN at} |-> at[p[1]][Tail(p)]]
        @@ Leaf(Container(t))
Object(at) == Inner("object", at)
List(at) == Inner("list", at)
EmptyList == Leaf(Container("list"))

Confident(percent) == Leaf(Number("decimal", percent))
Around(tree) == Object([value |-> tree, confidence |-> Confident(90)])
Wrapped(v) == Around(Leaf(v))
Good == Wrapped(Text("good"))
Price == Wrapped(Number("decimal", 100))

Address == Object([city |-> Good, country_code |-> Good])
SomeParty == Object([name |-> Good, vat_id |-> Good, address |-> Address])
SomeLine == Object([name |-> Good, quantity |-> Price, quantity_unit_code |-> Good,
                    net_price |-> Price, net_amount |-> Good, vat_category_code |-> Good,
                    vat_rate |-> Price])
SomeEntry == Object([category_code |-> Good, rate |-> Price, taxable_amount |-> Price,
                     tax_amount |-> Price])
SomeTotals == Object([line_net_total |-> Price, net_total |-> Price, vat_total |-> Good,
                      gross_total |-> Price, amount_due |-> Price])
WellRead ==
    Object([number |-> Good, issue_date |-> Good, type_code |-> Good, currency |-> Good,
            due_date |-> Good, seller |-> SomeParty, buyer |-> SomeParty,
            lines |-> List("0" :> SomeLine @@ "1" :> SomeLine), vat_breakdown |-> List("0" :> SomeEntry),
            totals |-> SomeTotals])
=============================================================================
