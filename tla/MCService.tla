----------------------------- MODULE MCService -----------------------------
(* A small instance of the service: a limit of four bytes read two at a time. *)
EXTENDS Service, TLC

CONSTANTS r1, r2, invoice_a, invoice_b, at_limit, over_limit, no_pdf, big_no_pdf, empty,
          t1, p1, total, sound, unsound, immense

TwoRequests == {r1, r2}
OneRequest == {r1}
OneTake == {t1}
OnePrompt == {p1}
OnlyDefault == {None}

\* Two invoices for the full path, and every file around the limit.
OneInvoice == {invoice_a}
AllFiles == {invoice_a, invoice_b, at_limit, over_limit, no_pdf, big_no_pdf, empty}

Sizes == (invoice_a :> 1 @@ invoice_b :> 2 @@ at_limit :> 4 @@ over_limit :> 5
            @@ no_pdf :> 4 @@ big_no_pdf :> 7 @@ empty :> 0)
Pdfs == (invoice_a :> TRUE @@ invoice_b :> TRUE @@ at_limit :> TRUE @@ over_limit :> TRUE
            @@ no_pdf :> FALSE @@ big_no_pdf :> FALSE @@ empty :> FALSE)

OneField == {total}
ThreeContents == {sound, unsound, immense}

Object(misfits, says) ==
    [shape |-> "object", misfits |-> misfits, says |-> says, spec |-> Theirs]

\* Answers that fit, with numbers that add up, do not, and cannot be rounded; and one
\* that does not fit.
AllAnswers == {Object({}, sound), Object({}, unsound), Object({}, immense), Object({total}, sound)}

Invoices == {Llm!InvoiceOf(a) : a \in {b \in AllAnswers : Llm!Fits(b)}}
SomeBroken == [i \in Invoices |-> IF i.says = unsound THEN {"BR-CO-15"} ELSE {}]
SomeUnroundable == {i \in Invoices : i.says = immense}
=============================================================================
