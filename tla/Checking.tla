------------------------------ MODULE Checking ------------------------------
(***************************************************************************)
(* An invoice on its way through check(): it is misread in a few places,   *)
(* checked, corrected by somebody who follows the report field by field    *)
(* ("one sentence a person can act on", src/src/validate/report.py), and   *)
(* checked again.  The misreading is the model's, the correcting a         *)
(* person's; both are outside the code, the report between them is not.    *)
(***************************************************************************)
EXTENDS Rendering, FiniteSets

CONSTANTS
    Pages,      \* which invoices are misread, and how (see Page)
    Amounts     \* what a person may enter for an amount that is missing

\* invoices: as printed; fields: the amounts a misreading may change, and by which
\* deltas, in units; misreadings: <<path, value>>, what else may be misread, and as
\* what; slips: bound on the misreadings of one invoice.
Page(invoices, fields, deltas, misreadings, slips) ==
    [invoices |-> invoices, fields |-> fields, deltas |-> deltas,
     misreadings |-> misreadings, slips |-> slips]

\* The values of an invoice, by where they are.
OfInvoice == {"number", "type_code", "currency", "issue_date", "due_date", "buyer_reference"}
OfParty == {"name", "vat_id", "endpoint_id", "endpoint_scheme_id"}
OfAddress == {"line_one", "line_two", "city", "post_code", "country_subdivision", "country_code"}
OfLine == {"identifier", "name", "quantity", "quantity_unit_code", "net_price", "net_amount",
           "vat_category_code", "vat_rate"}
OfEntry == {"category_code", "rate", "taxable_amount", "tax_amount"}
OfTotals == {"line_net_total", "net_total", "vat_total", "gross_total", "amount_due"}

Roles == {"seller", "buyer"}
AmountNames == {"quantity", "net_price", "net_amount", "taxable_amount", "tax_amount"} \cup OfTotals

\* A number or a date may be missing only where the schema lets it; texts are not typed.
MayBeMissing == {"due_date", "net_amount", "vat_rate", "net_total", "amount_due"}
NeverMissing == (AmountNames \cup {"issue_date", "rate"}) \ MayBeMissing
Suits(name, value) ==
    /\ name \in NeverMissing => value \in Int
    /\ name \in MayBeMissing => value \in Int \cup {None}

\* A record of these values, and of these parts.
IsRecord(r, names, parts) ==
    /\ r = [n \in names \cup parts |-> r[n]]
    /\ \A n \in names : Suits(n, r[n])
IsList(s, names) ==
    /\ Len(s) \in Nat \ {0} /\ s = [i \in 1..Len(s) |-> s[i]]
    /\ \A i \in 1..Len(s) : IsRecord(s[i], names, {})

\* An Invoice as the schema lets it in.
IsInvoice(inv) ==
    /\ IsRecord(inv, OfInvoice, Roles \cup {"lines", "vat_breakdown", "totals"})
    /\ \A role \in Roles :
          /\ IsRecord(inv[role], OfParty, {"address"})
          /\ IsRecord(inv[role].address, OfAddress, {})
    /\ IsList(inv.lines, OfLine)
    /\ IsList(inv.vat_breakdown, OfEntry)
    /\ IsRecord(inv.totals, OfTotals, {})

Paths(inv) ==
    {<<name>> : name \in OfInvoice}
    \cup {<<role, name>> : role \in Roles, name \in OfParty}
    \cup {<<role, "address", name>> : role \in Roles, name \in OfAddress}
    \cup {<<"lines", i, name>> : i \in LineIndices(inv), name \in OfLine}
    \cup {<<"vat_breakdown", k, name>> : k \in Entries(inv), name \in OfEntry}
    \cup {<<"totals", name>> : name \in OfTotals}
NameOf(path) == path[Len(path)]

ASSUME CheckingAssumption ==
    /\ None \notin Int \cup {"good", "blank"}
    /\ Amounts \subseteq Int
    /\ \A p \in DOMAIN Pages :
          /\ Pages[p].deltas \subseteq Int /\ Pages[p].fields \subseteq AmountNames
          /\ Pages[p].slips \in Nat
          /\ \A inv \in Pages[p].invoices :
                /\ IsInvoice(inv)
                /\ \A m \in Pages[p].misreadings : m[1] \in Paths(inv) /\ Suits(NameOf(m[1]), m[2])

VARIABLES
    page,       \* the element of Pages at hand, by its name
    invoice,
    stage,      \* the invoice as it is was not checked yet, was checked, or broke check()
    report,     \* the violations the check found
    rounds,     \* history: how often the report was worked through
    slips       \* history: the misreadings; by: how far an amount is off, else None

vars == <<page, invoice, stage, report, rounds, slips>>

Checked == stage = "checked"
Clean == Checked /\ report = {}

AmountPaths == {path \in Paths(invoice) : NameOf(path) \in AmountNames}

FieldAt(inv, path) ==
    CASE Len(path) = 1 -> inv[path[1]]
      [] Len(path) = 2 -> inv[path[1]][path[2]]
      [] Len(path) = 3 -> inv[path[1]][path[2]][path[3]]

WithField(inv, path, value) ==
    CASE Len(path) = 1 -> [inv EXCEPT ![path[1]] = value]
      [] Len(path) = 2 -> [inv EXCEPT ![path[1]][path[2]] = value]
      [] Len(path) = 3 -> [inv EXCEPT ![path[1]][path[2]][path[3]] = value]

\* What a person enters where a violation points: the value it says, an amount off
\* the page when it can only say that one is missing, a good text otherwise.
Correction(v, entered) ==
    IF v.expected # Unknown THEN v.expected[1]
    ELSE IF NameOf(v.field) \in AmountNames THEN entered
    ELSE "good"

\* What is there instead of value once that is done.
CorrectedAt(found, path, value, entered) ==
    LET about == {v \in found : v.field = path}
    IN  IF about = {} THEN value ELSE Correction(CHOOSE v \in about : TRUE, entered)

Corrected(inv, found, entered) ==
    LET all(r, parent) ==
            [name \in DOMAIN r |-> CorrectedAt(found, Append(parent, name), r[name], entered)]
    IN  [name \in DOMAIN inv |->
            CASE name \in Roles \cup {"totals"} -> all(inv[name], <<name>>)
              [] name \in {"lines", "vat_breakdown"} ->
                    [i \in 1..Len(inv[name]) |-> all(inv[name][i], <<name, i>>)]
              [] OTHER -> CorrectedAt(found, <<name>>, inv[name], entered)]

Init ==
    /\ page \in DOMAIN Pages
    /\ invoice \in Pages[page].invoices
    /\ stage = "unchecked"
    /\ report = {}
    /\ rounds = 0
    /\ slips = {}

\* Misreadings come before the first check, a bounded number of them, one per field.
Misreadable(path) ==
    /\ stage = "unchecked" /\ rounds = 0
    /\ Cardinality(slips) < Pages[page].slips
    /\ \A s \in slips : s.path # path

\* An amount is misread by delta.
Slip(path, delta) ==
    /\ Misreadable(path)
    /\ FieldAt(invoice, path) # None
    /\ invoice' = WithField(invoice, path, FieldAt(invoice, path) + delta)
    /\ slips' = slips \cup {[path |-> path, by |-> delta]}
    /\ UNCHANGED <<page, stage, report, rounds>>

\* A field is not read at all, read as blank, or read as something else.
Misread(path, value) ==
    /\ Misreadable(path)
    /\ invoice' = WithField(invoice, path, value)
    /\ slips' = slips \cup {[path |-> path, by |-> None]}
    /\ UNCHANGED <<page, stage, report, rounds>>

Check ==
    /\ stage = "unchecked"
    /\ ~Overflows(invoice)
    /\ stage' = "checked"
    /\ report' = check(invoice)
    /\ UNCHANGED <<page, invoice, rounds, slips>>

CheckCrashes ==
    /\ stage = "unchecked"
    /\ Overflows(invoice)
    /\ stage' = "crashed"
    /\ UNCHANGED <<page, invoice, report, rounds, slips>>

\* Everything the report names is corrected as it says, and the result checked anew.
CorrectAll(entered) ==
    /\ Checked /\ report # {}
    /\ invoice' = Corrected(invoice, report, entered)
    /\ stage' = "unchecked"
    /\ report' = {}
    /\ rounds' = rounds + 1
    /\ UNCHANGED <<page, slips>>

Next ==
    \/ \E path \in {p \in AmountPaths : NameOf(p) \in Pages[page].fields},
          delta \in Pages[page].deltas : Slip(path, delta)
    \/ \E m \in Pages[page].misreadings : Misread(m[1], m[2])
    \/ Check
    \/ CheckCrashes
    \/ \E entered \in Amounts : CorrectAll(entered)

Spec == Init /\ [][Next]_vars

-----------------------------------------------------------------------------
\* The invoice stays one the schema lets in, and a report names fields that are there.
TypeOK ==
    /\ page \in DOMAIN Pages
    /\ IsInvoice(invoice)
    /\ stage \in {"unchecked", "checked", "crashed"}
    /\ \A v \in report : v.field \in Paths(invoice)
    /\ rounds \in Nat
    /\ Cardinality(slips) <= Pages[page].slips

\* An invoice that passes, and whose every amount is what the others come to.
IsExact(inv) ==
    LET totals == inv.totals
    IN  /\ check(inv) = {}
        /\ \A i \in LineIndices(inv) :
              /\ inv.lines[i].net_amount = ExpectedNet(inv.lines[i])
              /\ inv.lines[i].vat_rate # None
        /\ \A k \in Entries(inv) :
              /\ inv.vat_breakdown[k].rate \in 0..100 * PERCENT
              /\ inv.vat_breakdown[k].taxable_amount = NetAtRate(inv, inv.vat_breakdown[k].rate)
              /\ inv.vat_breakdown[k].tax_amount = ExpectedTax(inv.vat_breakdown[k])
        /\ totals.line_net_total = _line_net_sum(inv) /\ totals.net_total = totals.line_net_total
        /\ totals.vat_total = VatSum(inv)
        /\ totals.gross_total = totals.net_total + totals.vat_total
        /\ totals.amount_due = totals.gross_total
ExactPages == \A p \in DOMAIN Pages : \A inv \in Pages[p].invoices : IsExact(inv)

\* The amounts a rule compares: what quantity and price come to is compared, not they
\* themselves, and a base only if a line has its rate.
ComparedPaths ==
    {path \in AmountPaths :
        /\ NameOf(path) \notin {"quantity", "net_price"}
        /\ NameOf(path) = "taxable_amount" =>
              \E i \in LineIndices(invoice) :
                  invoice.lines[i].vat_rate = invoice.vat_breakdown[path[2]].rate}

\* "A cent is rounding, two cents is an error" (README.md:53), for every amount the
\* rules compare, of an invoice that was exact: one slip of up to a cent leaves the
\* report empty, although other rules compute with the amount, and a slip of more
\* never does.
ACentPassesMoreIsCaught ==
    Checked /\ rounds = 0 /\ Cardinality(slips) = 1 =>
        \A s \in slips :
            s.by # None /\ s.path \in ComparedPaths => (Clean <=> Abs(s.by) <= CENT)

\* The tolerances of rules that feed each other add up, and to no more than four: in an
\* invoice that passes, what is to be paid is within four cents of the lines and taxes.
FourCentsAtMost ==
    Clean =>
        Abs(invoice.totals.amount_due - (_line_net_sum(invoice) + VatSum(invoice)))
            <= 4 * TOLERANCE

\* No two violations of one report ask for the same field, so a report never asks for
\* two values at once.  And what a violation prints differs: rounded to the cent, the
\* value it asks for is neither the value that is there nor the one it says is there.
ReportAsksForOneValue ==
    Checked =>
        /\ \A v, w \in report : v.field = w.field => v = w
        /\ \A v \in report : v.expected # Unknown =>
              v.expected[1] # FieldAt(invoice, v.field) /\ v.expected # v.actual

\* Following the reports leads to an invoice that passes, and in seven rounds at
\* most (entering a missing line amount, then the line, its base and the net, the tax,
\* the total of the taxes, the gross, the amount due): correcting one field makes
\* others wrong, but never in a circle.
SevenRoundsAtMost == Checked /\ report # {} => rounds < 7

\* The invoice whoever receives the XML reads off it.
ReadBack(xml) ==
    LET party(p) == [name |-> p.RegistrationName, vat_id |-> p.CompanyID, address |-> p.PostalAddress,
                     endpoint_id |-> p.EndpointID, endpoint_scheme_id |-> p.schemeID]
        line(l) == [identifier |-> l.ID, name |-> l.Name, quantity |-> l.InvoicedQuantity,
                    quantity_unit_code |-> l.unitCode, net_price |-> l.PriceAmount,
                    net_amount |-> l.LineExtensionAmount, vat_category_code |-> l.TaxCategory,
                    vat_rate |-> l.Percent]
        entry(t) == [category_code |-> t.ID, rate |-> t.Percent,
                     taxable_amount |-> t.TaxableAmount, tax_amount |-> t.TaxAmount]
        total == xml.LegalMonetaryTotal
    IN  [number |-> xml.ID, type_code |-> xml.InvoiceTypeCode,
         currency |-> xml.DocumentCurrencyCode, issue_date |-> xml.IssueDate,
         due_date |-> xml.DueDate, buyer_reference |-> xml.BuyerReference,
         seller |-> party(xml.AccountingSupplierParty),
         buyer |-> party(xml.AccountingCustomerParty),
         lines |-> [i \in DOMAIN xml.InvoiceLine |-> line(xml.InvoiceLine[i])],
         vat_breakdown |-> [k \in DOMAIN xml.TaxTotal.TaxSubtotal |->
                              entry(xml.TaxTotal.TaxSubtotal[k])],
         totals |-> [line_net_total |-> total.LineExtensionAmount,
                     net_total |-> total.TaxExclusiveAmount,
                     vat_total |-> xml.TaxTotal.TaxAmount,
                     gross_total |-> total.TaxInclusiveAmount,
                     amount_due |-> total.PayableAmount]]

Rendered == Clean /\ ~Unprintable(invoice)

\* What the two documents say, both in the terms of the JSON.
FromJson == json_render(invoice)
FromXml == json_render(ReadBack(ubl_render(invoice)))

\* But for the lines the two say the same, and of a blank town only that it is none.
SameButForLines ==
    /\ \A key \in DOMAIN FromJson \ {"lines", "seller_city", "buyer_city"} :
          FromXml[key] = FromJson[key]
    /\ \A key \in {"seller_city", "buyer_city"} : FromXml[key] = _optional(FromJson[key])

\* A line that goes by no identifier of its own goes by its position, which JSON gives
\* beside the identifier.
Numbered(line) == [line EXCEPT !.identifier = OrElse(@, line.number)]

\* The gaps XML may not leave and fills (ubl.py:124, 166, 175, 181, 184, 209) are closed
\* to an invoice that passes, but for two: a line's identifier, and a line's rate, which
\* is none in the JSON and goes out at 0 % in the XML.  Only in a rate that is missing do
\* the documents of one invoice contradict each other.
RenderingsAgree ==
    Rendered =>
        /\ SameButForLines
        /\ \A i \in DOMAIN FromJson.lines :
              FromXml.lines[i] = [Numbered(FromJson.lines[i]) EXCEPT !.vat_rate = OrElse(@, 0)]

InWholeCents(inv) ==
    \A path \in AmountPaths :
        NameOf(path) # "quantity" /\ FieldAt(inv, path) # None => FieldAt(inv, path) % CENT = 0

\* What passed here passes at whoever receives the XML and runs the same rules on it, as
\* long as amounts, prices too, are in whole cents and every line has a rate.  (Without:
\* a price goes out rounded to the cent and no longer multiplies to its line, and a line
\* without a rate goes out at no tax and counts against the base of no tax.)
PassesWhenReadBack ==
    Rendered /\ InWholeCents(invoice)
        /\ (\A i \in LineIndices(invoice) : invoice.lines[i].vat_rate # None)
        => check(ReadBack(ubl_render(invoice))) = {}

-----------------------------------------------------------------------------
\* src/src/validate/rules.py:342: "a taxable amount equals the lines charged at that
\* rate"; the lines charged at a rate no line has come to nothing.
TaxableIsTheLinesAtThatRate ==
    Clean /\ (\A i \in LineIndices(invoice) : invoice.lines[i].vat_rate # None)
        => \A k \in Entries(invoice) :
              Abs(invoice.vat_breakdown[k].taxable_amount
                  - NetAtRate(invoice, invoice.vat_breakdown[k].rate)) <= TOLERANCE
=============================================================================
