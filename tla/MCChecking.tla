----------------------------- MODULE MCChecking -----------------------------
(* Invoices that are exact when printed, and the ways they are misread.      *)
EXTENDS Checking, TLC

Party(who) ==
    [name |-> who, vat_id |-> None, endpoint_id |-> None, endpoint_scheme_id |-> None,
     address |-> [line_one |-> None, line_two |-> None, city |-> "Town of " \o who,
                  post_code |-> "good", country_subdivision |-> None, country_code |-> "AT"]]

Line(quantity, price, rate) ==
    [identifier |-> "position", name |-> "good", vat_category_code |-> "S",
     quantity |-> quantity, quantity_unit_code |-> "HUR", net_price |-> price,
     net_amount |-> _rounded(quantity * price, PIECE), vat_rate |-> rate]

\* The invoice these lines make, one breakdown entry for each of the given rates.
Exact(lines, rates) ==
    LET shell == [lines |-> lines]
        entry(rate) == [rate |-> rate, taxable_amount |-> NetAtRate(shell, rate)]
        breakdown == [k \in 1..Len(rates) |->
                        [category_code |-> "S", rate |-> rates[k],
                         taxable_amount |-> entry(rates[k]).taxable_amount,
                         tax_amount |-> ExpectedTax(entry(rates[k]))]]
        net == _line_net_sum(shell)
        vat == VatSum([vat_breakdown |-> breakdown])
    IN  [number |-> "good", type_code |-> "good", currency |-> "good",
         issue_date |-> 2, due_date |-> 3, buyer_reference |-> None,
         seller |-> Party("Seller"), buyer |-> Party("Buyer"),
         lines |-> lines, vat_breakdown |-> breakdown,
         totals |-> [line_net_total |-> net, net_total |-> net, vat_total |-> vat,
                     gross_total |-> net + vat, amount_due |-> net + vat]]

OneLine == {Exact(<<Line(3, 333, 20)>>, <<20>>)}
TwoRates == {Exact(<<Line(2, 305, 20), Line(1, 71, 10)>>, <<20, 10>>)}
TwoRatesAndACredit ==
    TwoRates \cup {Exact(<<Line(2, 305, 20), Line(-1, 71, 20)>>, <<20>>),
                   Exact(<<Line(5, 25, 7)>>, <<7>>)}
WholeCents == {Exact(<<Line(2, 30, 20), Line(1, 70, 10)>>, <<20, 10>>)}
UnusedRate == {Exact(<<Line(1, 200, 20)>>, <<20, 10>>)}

TotalsOnly == {"net_total", "vat_total", "gross_total", "amount_due"}
AllAmounts ==
    {"quantity", "net_price", "net_amount", "taxable_amount", "tax_amount",
     "line_net_total", "net_total", "vat_total", "gross_total", "amount_due"}
Taxable == {"taxable_amount", "tax_amount", "vat_total", "gross_total", "amount_due"}

AroundOneCent == {-4, -3, -2, -1, 1, 2, 3, 4}
UpToFiveCents == {-10, -8, -6, -4, -2, 2, 4, 6, 8, 10}
TwoEuros == {100, 10, 110}

SomeMisreadings ==
    {<<<<"number">>, "blank">>, <<<<"type_code">>, None>>, <<<<"currency">>, "unknown">>,
     <<<<"due_date">>, 1>>, <<<<"buyer_reference">>, "blank">>, <<<<"due_date">>, None>>,
     <<<<"seller", "name">>, "blank">>, <<<<"buyer", "name">>, "blank">>,
     <<<<"seller", "vat_id">>, "misshaped">>, <<<<"buyer", "vat_id">>, "no_prefix">>,
     <<<<"seller", "endpoint_id">>, "good">>, <<<<"buyer", "endpoint_id">>, "good">>,
     <<<<"seller", "address", "city">>, "blank">>, <<<<"lines", 1, "identifier">>, None>>,
     <<<<"totals", "net_total">>, None>>, <<<<"totals", "amount_due">>, None>>,
     <<<<"lines", 1, "quantity_unit_code">>, None>>,
     <<<<"lines", 1, "net_amount">>, None>>, <<<<"lines", 1, "vat_rate">>, None>>,
     <<<<"lines", 1, "vat_rate">>, 10>>, <<<<"lines", 1, "quantity">>, 1000>>}

\* Two misreadings of any kind; all four totals at once by up to five cents; whole
\* cents, to be read back.
AllPages ==
    [amounts |-> Page(TwoRatesAndACredit, AllAmounts, AroundOneCent, SomeMisreadings, 2),
     totals |-> Page(OneLine, TotalsOnly, UpToFiveCents, {}, 4),
     cents |-> Page(WholeCents, AllAmounts, {-4, -2, 2, 4}, SomeMisreadings, 2)]
UnusedRatePage == [unused |-> Page(UnusedRate, Taxable, TwoEuros, {}, 5)]

\* What is misread was exact when printed, on every page.
ASSUME PagesAreExact == ExactPages

SomeAmounts == {0, 610, 7}
OneAmount == {0}
=============================================================================
