----------------------------- MODULE Rendering -----------------------------
(***************************************************************************)
(* One invoice as UBL XML (src/src/render/ubl.py) and as flat JSON         *)
(* (src/src/render/json_out.py).  A document is a record of what its       *)
(* elements say, None where one is left out or null.  The order of the     *)
(* elements, and what every document says alike (the profile, the VAT      *)
(* scheme, the table of BT codes, the currency of an amount), is left out. *)
(***************************************************************************)
EXTENDS Validation

OrElse(value, otherwise) == IF value = None THEN otherwise ELSE value

-----------------------------------------------------------------------------
(* ubl.render()                                                              *)

\* An address says nothing about what nobody could read; the country is required.
_optional(text) == IF _empty(text) THEN None ELSE text
_address(address) ==
    [part \in DOMAIN address |->
        IF part = "country_code" THEN address[part] ELSE _optional(address[part])]

_party(party) ==
    [EndpointID |-> party.endpoint_id,
     schemeID |-> IF party.endpoint_id = None THEN None ELSE party.endpoint_scheme_id,
     Name |-> party.name, PostalAddress |-> _address(party.address),
     CompanyID |-> party.vat_id, RegistrationName |-> party.name]

_tax_total(inv) ==
    [TaxAmount |-> money(inv.totals.vat_total),
     TaxSubtotal |-> [k \in Entries(inv) |->
        [TaxableAmount |-> money(inv.vat_breakdown[k].taxable_amount),
         TaxAmount |-> money(inv.vat_breakdown[k].tax_amount),
         ID |-> inv.vat_breakdown[k].category_code,
         Percent |-> inv.vat_breakdown[k].rate]]]

\* Mutant: a missing amount due falls back to the net, and so does one that is there.
_totals_of_the_net(totals) ==
    LET without_vat == OrElse(totals.net_total, totals.line_net_total)
    IN  [LineExtensionAmount |-> money(totals.line_net_total),
         TaxExclusiveAmount |-> money(without_vat),
         TaxInclusiveAmount |-> money(totals.gross_total),
         PayableAmount |-> money(without_vat)]

\* A missing net falls back to the lines, a missing amount due to the gross.
_totals(totals) ==
    [LineExtensionAmount |-> money(totals.line_net_total),
     TaxExclusiveAmount |-> money(OrElse(totals.net_total, totals.line_net_total)),
     TaxInclusiveAmount |-> money(totals.gross_total),
     PayableAmount |-> money(OrElse(totals.amount_due, totals.gross_total))]

\* What a line comes to when the invoice did not say.
_line_net(line) == CENT * HalfEven(line.quantity * line.net_price, PIECE * CENT)

\* Every gap of a line is filled: its number, one piece, quantity x price, no tax.
_line(number, line) ==
    [ID |-> OrElse(line.identifier, number),
     InvoicedQuantity |-> line.quantity,
     unitCode |-> OrElse(line.quantity_unit_code, "C62"),
     LineExtensionAmount |-> money(OrElse(line.net_amount, _line_net(line))),
     Name |-> line.name,
     TaxCategory |-> line.vat_category_code,
     Percent |-> OrElse(line.vat_rate, 0),
     PriceAmount |-> money(line.net_price)]

ubl_render(inv) ==
    [ID |-> inv.number, IssueDate |-> inv.issue_date, DueDate |-> inv.due_date,
     InvoiceTypeCode |-> inv.type_code, DocumentCurrencyCode |-> inv.currency,
     BuyerReference |-> inv.buyer_reference,
     AccountingSupplierParty |-> _party(inv.seller),
     AccountingCustomerParty |-> _party(inv.buyer),
     TaxTotal |-> _tax_total(inv),
     LegalMonetaryTotal |-> _totals(inv.totals),
     InvoiceLine |-> [i \in LineIndices(inv) |-> _line(i, inv.lines[i])]]

\* quantize() raises on an amount that does not fit its 28 digits, and check() has
\* rounded only some of the amounts that are printed.
Unprintable(inv) ==
    LET lines == {inv.lines[i] : i \in LineIndices(inv)}
        entries == {inv.vat_breakdown[k] : k \in Entries(inv)}
        printed == {inv.totals[name] : name \in DOMAIN inv.totals}
                   \cup {line.net_price : line \in lines}
                   \cup {OrElse(line.net_amount, _line_net(line)) : line \in lines}
                   \cup {entry.taxable_amount : entry \in entries}
                   \cup {entry.tax_amount : entry \in entries}
    IN  \E n \in printed \ {None} : Abs(money(n)) >= MaxCents * CENT

-----------------------------------------------------------------------------
(* json_out.render()                                                         *)

\* Null stays null; no gap is filled.
_money(n) == IF n = None THEN None ELSE money(n)

json_render(inv) ==
    [number |-> inv.number, issue_date |-> inv.issue_date, due_date |-> inv.due_date,
     type_code |-> inv.type_code, currency |-> inv.currency,
     buyer_reference |-> inv.buyer_reference,
     seller_name |-> inv.seller.name, seller_vat_id |-> inv.seller.vat_id,
     seller_country |-> inv.seller.address.country_code,
     seller_city |-> inv.seller.address.city,
     buyer_name |-> inv.buyer.name, buyer_vat_id |-> inv.buyer.vat_id,
     buyer_country |-> inv.buyer.address.country_code,
     buyer_city |-> inv.buyer.address.city,
     totals_line_net |-> _money(inv.totals.line_net_total),
     totals_net |-> _money(inv.totals.net_total),
     totals_vat |-> _money(inv.totals.vat_total),
     totals_gross |-> _money(inv.totals.gross_total),
     totals_due |-> _money(inv.totals.amount_due),
     lines |-> [i \in LineIndices(inv) |->
        LET line == inv.lines[i]
        IN  [number |-> i, identifier |-> line.identifier, name |-> line.name,
             quantity |-> line.quantity, unit |-> line.quantity_unit_code,
             net_price |-> _money(line.net_price), net_amount |-> _money(line.net_amount),
             vat_category |-> line.vat_category_code, vat_rate |-> line.vat_rate]],
     vat_breakdown |-> [k \in Entries(inv) |->
        LET entry == inv.vat_breakdown[k]
        IN  [category |-> entry.category_code, rate |-> entry.rate,
             taxable_amount |-> _money(entry.taxable_amount),
             tax_amount |-> _money(entry.tax_amount)]]]
=============================================================================
