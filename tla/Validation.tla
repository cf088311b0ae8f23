----------------------------- MODULE Validation -----------------------------
(***************************************************************************)
(* The rules an invoice is checked against (src/src/validate/rules.py), as *)
(* a function from an invoice to the set of its violations.  Amounts are   *)
(* integers: CENT units of money make a cent, PIECE units of quantity make *)
(* one, PERCENT units of rate make a percent.  A text is reduced to what   *)
(* the rules tell apart: absent, blank, good, or wrong in a named way.     *)
(***************************************************************************)
EXTENDS Integers, Sequences

CONSTANTS
    CENT, PIECE, PERCENT,
    MaxCents,   \* quantize() raises from this many cents on (28 digits)
    None        \* a field nobody could read

ASSUME ValidationAssumption ==
    /\ CENT \in Nat \ {0} /\ PIECE \in Nat \ {0} /\ PERCENT \in Nat \ {0}
    /\ MaxCents \in Nat

TOLERANCE == CENT

\* One violation: the rule, the path of the field, the value it should have had when
\* the rule knows one, and the amount it has.
Violation(rule, field, expected, actual) ==
    [rule |-> rule, field |-> field, expected |-> expected, actual |-> actual]
Unknown == <<>>

\* Absent, or blank.
_empty(text) == text \in {None, "blank"}

_missing(absent, rule, field) == IF absent THEN {Violation(rule, field, Unknown, Unknown)} ELSE {}

Abs(n) == IF n < 0 THEN -n ELSE n

\* n/d to the nearest whole number, halves to the even one (quantize() by default).
HalfEven(n, d) ==
    LET whole == n \div d
        rest == n % d
    IN  IF 2 * rest > d \/ (2 * rest = d /\ whole % 2 = 1) THEN whole + 1 ELSE whole

\* An amount as it is printed, in a violation and in a rendering.
money(n) == CENT * HalfEven(n, CENT)

\* Mutants: a whole cent is already too much; nothing is tolerated.
_agreesStrictly(actual, expected, rule, field) ==
    IF Abs(actual - expected) < TOLERANCE THEN {}
    ELSE {Violation(rule, field, <<money(expected)>>, <<money(actual)>>)}
_agreesExactly(actual, expected, rule, field) ==
    IF actual = expected THEN {}
    ELSE {Violation(rule, field, <<money(expected)>>, <<money(actual)>>)}

_agrees(actual, expected, rule, field) ==
    IF Abs(actual - expected) <= TOLERANCE THEN {}
    ELSE {Violation(rule, field, <<money(expected)>>, <<money(actual)>>)}

\* n/d to the nearest whole number, halves away from zero (ROUND_HALF_UP).
HalfUp(n, d) == IF n >= 0 THEN (2 * n + d) \div (2 * d) ELSE -((2 * (-n) + d) \div (2 * d))

\* n/d units of money, rounded to cents.
_rounded(n, d) == CENT * HalfUp(n, d * CENT)

Total(s) ==
    LET upto[n \in 0..Len(s)] == IF n = 0 THEN 0 ELSE upto[n - 1] + s[n]
    IN  upto[Len(s)]

LineIndices(inv) == 1..Len(inv.lines)
Entries(inv) == 1..Len(inv.vat_breakdown)

EveryNetIsThere(inv) == \A i \in LineIndices(inv) : inv.lines[i].net_amount # None

\* Meaningful when EveryNetIsThere.
_line_net_sum(inv) == Total([i \in LineIndices(inv) |-> inv.lines[i].net_amount])

\* What the lines at one rate come to.
NetAtRate(inv, rate) ==
    Total([i \in LineIndices(inv) |->
             IF inv.lines[i].vat_rate = rate THEN inv.lines[i].net_amount ELSE 0])

VatSum(inv) == Total([k \in Entries(inv) |-> inv.vat_breakdown[k].tax_amount])

-----------------------------------------------------------------------------
(* Fields that have to be there.                                             *)

br_02_invoice_number(inv) == _missing(_empty(inv.number), "BR-02", <<"number">>)

br_04_invoice_type_code(inv) == _missing(_empty(inv.type_code), "BR-04", <<"type_code">>)

br_06_seller_name(inv) == _missing(_empty(inv.seller.name), "BR-06", <<"seller", "name">>)

br_07_buyer_name(inv) == _missing(_empty(inv.buyer.name), "BR-07", <<"buyer", "name">>)

\* Mutant: the rule is not run.
br_13_dropped(inv) == {}

br_13_net_total(inv) ==
    _missing(inv.totals.net_total = None, "BR-13", <<"totals", "net_total">>)

br_15_amount_due(inv) ==
    _missing(inv.totals.amount_due = None, "BR-15", <<"totals", "amount_due">>)

br_23_quantity_unit(inv) ==
    UNION {_missing(_empty(inv.lines[i].quantity_unit_code), "BR-23",
                    <<"lines", i, "quantity_unit_code">>) : i \in LineIndices(inv)}

br_24_line_net_amount(inv) ==
    UNION {_missing(inv.lines[i].net_amount = None, "BR-24",
                    <<"lines", i, "net_amount">>) : i \in LineIndices(inv)}

\* Mutant: a path that leads nowhere.
br_62_misplaced(inv) ==
    _missing(inv.seller.endpoint_id # None /\ _empty(inv.seller.endpoint_scheme_id),
             "BR-62", <<"seller_endpoint_scheme_id">>)

br_62_seller_endpoint_scheme(inv) ==
    _missing(inv.seller.endpoint_id # None /\ _empty(inv.seller.endpoint_scheme_id),
             "BR-62", <<"seller", "endpoint_scheme_id">>)

br_63_buyer_endpoint_scheme(inv) ==
    _missing(inv.buyer.endpoint_id # None /\ _empty(inv.buyer.endpoint_scheme_id),
             "BR-63", <<"buyer", "endpoint_scheme_id">>)

\* A VAT identifier is absent, has no country prefix, has the wrong shape for a
\* country whose shape is known, or passes.  A blank one has no prefix.
br_co_09_vat_identifiers(inv) ==
    {Violation("BR-CO-09", <<role, "vat_id">>, Unknown, Unknown) :
        role \in {r \in {"seller", "buyer"} :
                    inv[r].vat_id \in {"blank", "no_prefix", "misshaped"}}}

-----------------------------------------------------------------------------
(* The arithmetic.                                                           *)

br_co_10_line_total(inv) ==
    IF ~EveryNetIsThere(inv) THEN {}
    ELSE _agrees(inv.totals.line_net_total, _line_net_sum(inv),
                 "BR-CO-10", <<"totals", "line_net_total">>)

\* Mutant: the net is derived from the gross, which BR-CO-15 derives from the net.
br_co_13_from_gross(inv) ==
    IF ~EveryNetIsThere(inv) \/ inv.totals.net_total = None THEN {}
    ELSE _agrees(inv.totals.net_total, inv.totals.gross_total - inv.totals.vat_total,
                 "BR-CO-13", <<"totals", "net_total">>)

br_co_13_net_total(inv) ==
    IF ~EveryNetIsThere(inv) \/ inv.totals.net_total = None THEN {}
    ELSE _agrees(inv.totals.net_total, _line_net_sum(inv),
                 "BR-CO-13", <<"totals", "net_total">>)

br_co_14_vat_total(inv) ==
    _agrees(inv.totals.vat_total, VatSum(inv), "BR-CO-14", <<"totals", "vat_total">>)

br_co_15_gross_total(inv) ==
    IF inv.totals.net_total = None THEN {}
    ELSE _agrees(inv.totals.gross_total, inv.totals.net_total + inv.totals.vat_total,
                 "BR-CO-15", <<"totals", "gross_total">>)

\* Mutant: the rule is not run.
br_co_16_dropped(inv) == {}

br_co_16_amount_due(inv) ==
    IF inv.totals.amount_due = None THEN {}
    ELSE _agrees(inv.totals.amount_due, inv.totals.gross_total,
                 "BR-CO-16", <<"totals", "amount_due">>)

\* taxable amount x rate / 100
ExpectedTax(entry) == _rounded(entry.taxable_amount * entry.rate, 100 * PERCENT)

br_co_17_vat_per_rate(inv) ==
    UNION {_agrees(inv.vat_breakdown[k].tax_amount, ExpectedTax(inv.vat_breakdown[k]),
                   "BR-CO-17", <<"vat_breakdown", k, "tax_amount">>) : k \in Entries(inv)}

\* quantity x price
ExpectedNet(line) == _rounded(line.quantity * line.net_price, PIECE)

own_line_math(inv) ==
    UNION {IF inv.lines[i].net_amount = None THEN {}
           ELSE _agrees(inv.lines[i].net_amount, ExpectedNet(inv.lines[i]),
                        "OWN-LINE-MATH", <<"lines", i, "net_amount">>) : i \in LineIndices(inv)}

\* Gives up when a line lacks its amount or its rate, and skips a breakdown entry at
\* a rate no line has.
own_vat_base(inv) ==
    IF ~EveryNetIsThere(inv) \/ \E i \in LineIndices(inv) : inv.lines[i].vat_rate = None
    THEN {}
    ELSE UNION {_agrees(inv.vat_breakdown[k].taxable_amount,
                        NetAtRate(inv, inv.vat_breakdown[k].rate),
                        "OWN-VAT-BASE", <<"vat_breakdown", k, "taxable_amount">>) :
                k \in {e \in Entries(inv) : \E i \in LineIndices(inv) :
                          inv.lines[i].vat_rate = inv.vat_breakdown[e].rate}}

own_due_after_issue(inv) ==
    IF inv.due_date = None THEN {}
    ELSE IF inv.due_date >= inv.issue_date THEN {}
    ELSE {Violation("OWN-DUE-AFTER-ISSUE", <<"due_date">>, <<inv.issue_date>>, <<inv.due_date>>)}

own_currency_known(inv) ==
    IF inv.currency = "good" THEN {}
    ELSE {Violation("OWN-CURRENCY-KNOWN", <<"currency">>, Unknown, Unknown)}

-----------------------------------------------------------------------------
\* check(): every rule of RULES runs, and what they find is put together.
check(inv) ==
    UNION {br_02_invoice_number(inv), br_04_invoice_type_code(inv),
           br_06_seller_name(inv), br_07_buyer_name(inv),
           br_13_net_total(inv), br_15_amount_due(inv),
           br_23_quantity_unit(inv), br_24_line_net_amount(inv),
           br_62_seller_endpoint_scheme(inv), br_63_buyer_endpoint_scheme(inv),
           br_co_09_vat_identifiers(inv),
           br_co_10_line_total(inv), br_co_13_net_total(inv),
           br_co_14_vat_total(inv), br_co_15_gross_total(inv),
           br_co_16_amount_due(inv), br_co_17_vat_per_rate(inv),
           own_line_math(inv), own_vat_base(inv),
           own_due_after_issue(inv), own_currency_known(inv)}

\* An amount quantize() cannot hold in 28 digits: check() raises InvalidOperation.
Overflows(inv) ==
    \/ \E k \in Entries(inv) : Abs(ExpectedTax(inv.vat_breakdown[k])) >= MaxCents * CENT
    \/ \E i \in LineIndices(inv) :
          /\ inv.lines[i].net_amount # None
          /\ Abs(ExpectedNet(inv.lines[i])) >= MaxCents * CENT
=============================================================================
