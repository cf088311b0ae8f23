-------------------------- MODULE Validation_proofs -------------------------
(***************************************************************************)
(* The arithmetic of the rules, for invoices of any size and any amounts:  *)
(* what sums and rounding do, what an invoice that passes guarantees, what *)
(* its two documents say, what a report says of an invoice, and what       *)
(* following it does to each field.                                        *)
(***************************************************************************)
EXTENDS Checking, SequenceTheorems, FiniteSetTheorems, WellFoundedInduction, TLAPS

-----------------------------------------------------------------------------
(* Induction, and what Total adds up.                                      *)

\* Every set of numbers that is not empty has a least one.
LEMMA LeastNumber ==
    ASSUME NEW S \in SUBSET Nat, S # {}
    PROVE  \E n \in S : \A m \in S : n <= m
<1> DEFINE Less == {pair \in Nat \X Nat : pair[1] < pair[2]}
<1>1. IsWellFoundedOn(Less, Nat)
  BY NatLessThanWellFounded DEF OpToRel
<1>2. PICK n \in S : \A m \in S : <<m, n>> \notin Less
  <2> HIDE DEF Less
  <2> QED
    BY <1>1, WFMin
<1>3. ASSUME NEW m \in S, m < n PROVE FALSE
  <2>1. <<m, n>> \in Less
    BY <1>3
  <2> QED
    BY <1>2, <2>1
<1> QED
  BY <1>2, <1>3

\* A set with 0 in it, and with every number the next, has every number in it.
LEMMA Induct ==
    ASSUME NEW S, 0 \in S, \A n \in Nat : n \in S => n + 1 \in S
    PROVE  Nat \subseteq S
<1> DEFINE Outside == {n \in Nat : n \notin S}
<1>1. SUFFICES ASSUME Outside # {} PROVE FALSE
  OBVIOUS
<1>2. PICK n \in Outside : \A m \in Outside : n <= m
  BY <1>1, LeastNumber
<1>3. n - 1 \in Nat /\ n - 1 \notin Outside
  BY <1>2
<1> QED
  BY <1>2, <1>3

\* f is the running total of s up to n.
Running(f, s, n) == f = [i \in 0..n |-> IF i = 0 THEN 0 ELSE f[i - 1] + s[i]]

\* The recursion has a value up to every number.
LEMMA RunningExists ==
    ASSUME NEW s
    PROVE  \A n \in Nat : \E f : Running(f, s, n)
<1> DEFINE S == {n \in Nat : \E f : Running(f, s, n)}
<1>1. 0 \in S
  <2>1. Running([i \in 0..0 |-> 0], s, 0)
    BY DEF Running
  <2> QED
    BY <2>1
<1>2. ASSUME NEW n \in Nat, n \in S PROVE n + 1 \in S
  <2>1. PICK f : Running(f, s, n)
    BY <1>2
  <2> DEFINE g == [i \in 0..(n + 1) |-> IF i = n + 1 THEN f[n] + s[n + 1] ELSE f[i]]
  <2>2. ASSUME NEW i \in 0..(n + 1) PROVE g[i] = IF i = 0 THEN 0 ELSE g[i - 1] + s[i]
    BY <2>1 DEF Running
  <2>3. Running(g, s, n + 1)
    BY <2>2 DEF Running
  <2> QED
    BY <2>3
<1> HIDE DEF S
<1>3. Nat \subseteq S
  BY <1>1, <1>2, Induct
<1> QED
  BY <1>3 DEF S

\* The recursion that Total is defined by.
LEMMA TotalIsRunning ==
    ASSUME NEW s, Len(s) \in Nat
    PROVE  \E f : Running(f, s, Len(s)) /\ Total(s) = f[Len(s)]
<1> DEFINE F == CHOOSE f : Running(f, s, Len(s))
<1>1. Total(s) = F[Len(s)]
  BY DEF Total, Running
<1>2. Running(F, s, Len(s))
  BY RunningExists
<1> QED
  BY <1>1, <1>2

\* Adding integers up gives integers all along.
LEMMA RunningIsInteger ==
    ASSUME NEW s, NEW f, NEW n \in Nat, Running(f, s, n), \A i \in 1..n : s[i] \in Int
    PROVE  \A i \in 0..n : f[i] \in Int
<1> DEFINE S == {i \in Nat : i <= n => f[i] \in Int}
<1>1. 0 \in S
  BY DEF Running
<1>2. ASSUME NEW i \in Nat, i \in S PROVE i + 1 \in S
  <2>1. SUFFICES ASSUME i + 1 <= n PROVE f[i + 1] \in Int
    OBVIOUS
  <2>2. f[i + 1] = f[i] + s[i + 1]
    BY <2>1 DEF Running
  <2> QED
    BY <1>2, <2>1, <2>2
<1> HIDE DEF S
<1>3. Nat \subseteq S
  BY <1>1, <1>2, Induct
<1> QED
  BY <1>3 DEF S

\* A sum of integers is an integer.
LEMMA TotalIsInteger ==
    ASSUME NEW s, Len(s) \in Nat, \A i \in 1..Len(s) : s[i] \in Int
    PROVE  Total(s) \in Int
  BY TotalIsRunning, RunningIsInteger

\* Adding d to one summand adds d to the sum.
Summands(s, n) == Len(s) = n /\ \A i \in 1..n : s[i] \in Int
Shifted(t, s, n, k, d) ==
    Len(t) = n /\ \A i \in 1..n : t[i] = IF i = k THEN s[i] + d ELSE s[i]

\* Adding d to one summand adds d to the sum.
LEMMA TotalShifts ==
    ASSUME NEW s, NEW t, NEW n \in Nat, Summands(s, n),
           NEW k \in 1..n, NEW d \in Int, Shifted(t, s, n, k, d)
    PROVE  Total(t) = Total(s) + d
<1>0. Len(s) = n /\ Len(t) = n /\ \A i \in 1..n : s[i] \in Int
  BY DEF Summands, Shifted
<1>1. PICK f : Running(f, s, n) /\ Total(s) = f[n]
  BY <1>0, TotalIsRunning
<1>2. PICK g : Running(g, t, n) /\ Total(t) = g[n]
  BY <1>0, TotalIsRunning
<1>3. \A i \in 0..n : f[i] \in Int
  BY <1>0, <1>1, RunningIsInteger
<1> DEFINE S == {i \in Nat : i <= n => g[i] = IF i < k THEN f[i] ELSE f[i] + d}
<1>4. 0 \in S
  BY <1>1, <1>2 DEF Running
<1>5. ASSUME NEW i \in Nat, i \in S PROVE i + 1 \in S
  <2>1. SUFFICES ASSUME i + 1 <= n PROVE g[i + 1] = IF i + 1 < k THEN f[i + 1] ELSE f[i + 1] + d
    OBVIOUS
  <2>2. f[i + 1] = f[i] + s[i + 1] /\ g[i + 1] = g[i] + t[i + 1]
    BY <1>1, <1>2, <2>1 DEF Running
  <2>3. f[i] \in Int /\ s[i + 1] \in Int /\ g[i] = IF i < k THEN f[i] ELSE f[i] + d
    BY <1>0, <1>3, <1>5, <2>1
  <2>4. t[i + 1] = IF i + 1 = k THEN s[i + 1] + d ELSE s[i + 1]
    BY <2>1 DEF Shifted
  <2> QED
    BY <2>1, <2>2, <2>3, <2>4
<1> HIDE DEF S
<1>6. Nat \subseteq S
  BY <1>4, <1>5, Induct
<1> QED
  BY <1>1, <1>2, <1>6 DEF S

-----------------------------------------------------------------------------
(* What the rules guarantee together, and what rounding does.              *)

\* Two amounts that agree are at most the tolerance apart.
LEMMA AgreesMeansClose ==
    ASSUME NEW a \in Int, NEW e \in Int, NEW rule, NEW field,
           _agrees(a, e, rule, field) = {}
    PROVE  Abs(a - e) <= TOLERANCE
  BY DEF _agrees

\* The amounts of the totals were read, or are missing where the schema allows it.
TotalsType(totals) ==
    /\ totals.line_net_total \in Int
    /\ totals.net_total \in Int \cup {None}
    /\ totals.vat_total \in Int
    /\ totals.gross_total \in Int
    /\ totals.amount_due \in Int \cup {None}

\* An invoice that passes has every line amount and both optional totals.
LEMMA PassingIsComplete ==
    ASSUME NEW inv, check(inv) = {}
    PROVE  /\ EveryNetIsThere(inv)
           /\ inv.totals.net_total # None
           /\ inv.totals.amount_due # None
<1>1. br_13_net_total(inv) = {} /\ br_15_amount_due(inv) = {} /\ br_24_line_net_amount(inv) = {}
  BY DEF check
<1>2. inv.totals.net_total # None
  BY <1>1 DEF br_13_net_total, _missing
<1>3. inv.totals.amount_due # None
  BY <1>1 DEF br_15_amount_due, _missing
<1>4. ASSUME NEW i \in LineIndices(inv), inv.lines[i].net_amount = None PROVE FALSE
  <2>1. _missing(inv.lines[i].net_amount = None, "BR-24", <<"lines", i, "net_amount">>) # {}
    BY <1>4 DEF _missing
  <2> QED
    BY <1>1, <2>1 DEF br_24_line_net_amount
<1> QED
  BY <1>2, <1>3, <1>4 DEF EveryNetIsThere

\* Rounding to whole numbers is off by half of one at most, in either direction.
LEMMA HalfUpIsNearest ==
    ASSUME NEW n \in Int, NEW d \in Nat \ {0}
    PROVE  /\ HalfUp(n, d) \in Int
           /\ 2 * (n - d * HalfUp(n, d)) <= d
           /\ 2 * (d * HalfUp(n, d) - n) <= d
<1> DEFINE m == IF n >= 0 THEN n ELSE -n
           q == (2 * m + d) \div (2 * d)
<1>1. m \in Nat
  OBVIOUS
<1> HIDE DEF m
<1>2. 2 * d \in Nat \ {0} /\ 2 * m + d \in Nat
  BY <1>1
<1>3. q \in Int /\ (2 * d) * q <= 2 * m + d /\ 2 * m + d < (2 * d) * q + 2 * d
  BY <1>2, Z3
<1>4. HalfUp(n, d) = IF n >= 0 THEN q ELSE -q
  BY DEF HalfUp, m
<1> HIDE DEF q
<1>5. d * q \in Int /\ (2 * d) * q = 2 * (d * q) /\ d * (-q) = -(d * q)
  BY <1>3
<1> QED
  BY <1>1, <1>3, <1>4, <1>5 DEF m

\* An amount is printed at most half a cent off.
LEMMA MoneyIsNearest ==
    ASSUME NEW n \in Int
    PROVE  /\ money(n) \in Int
           /\ 2 * (n - money(n)) <= CENT
           /\ 2 * (money(n) - n) <= CENT
<1> USE ValidationAssumption
<1> DEFINE q == n \div CENT
           r == n % CENT
<1>1. q \in Int /\ r \in Int /\ n = CENT * q + r /\ 0 <= r /\ r < CENT
  BY Z3
<1>2. money(n) = CENT * IF 2 * r > CENT \/ (2 * r = CENT /\ q % 2 = 1) THEN q + 1 ELSE q
  BY DEF money, HalfEven
<1> HIDE DEF q, r
<1>3. CENT * q \in Int /\ CENT * (q + 1) = CENT * q + CENT
  BY <1>1
<1>4. \/ money(n) = CENT * q /\ 2 * r <= CENT
      \/ money(n) = CENT * q + CENT /\ 2 * r >= CENT
  BY <1>1, <1>2, <1>3
<1> QED
  BY <1>1, <1>3, <1>4

\* A violation of an arithmetic rule never prints the same amount as what is there and
\* as what should be there: whoever reads it sees a difference, although the amounts
\* are compared before they are rounded and printed after.
THEOREM PrintedAmountsDiffer ==
    ASSUME NEW a \in Int, NEW e \in Int, NEW rule, NEW field,
           NEW v \in _agrees(a, e, rule, field)
    PROVE  v.expected # v.actual
<1> USE ValidationAssumption
<1>1. Abs(a - e) > CENT /\ v = Violation(rule, field, <<money(e)>>, <<money(a)>>)
  BY DEF _agrees, TOLERANCE, Abs
<1>2. money(a) # money(e)
  BY <1>1, MoneyIsNearest DEF Abs
<1>3. <<money(e)>> # <<money(a)>>
  BY <1>2
<1> QED
  BY <1>1, <1>3 DEF Violation

-----------------------------------------------------------------------------
(* What the two documents of an invoice that passes say.                   *)

\* A line of an invoice that passes has its unit and its amount.
LEMMA PassingLinesAreComplete ==
    ASSUME NEW inv, check(inv) = {}, NEW i \in LineIndices(inv)
    PROVE  inv.lines[i].net_amount # None /\ inv.lines[i].quantity_unit_code # None
<1>1. inv.lines[i].net_amount # None
  BY PassingIsComplete DEF EveryNetIsThere
<1>2. br_23_quantity_unit(inv) = {}
  BY DEF check
<1>3. SUFFICES ASSUME inv.lines[i].quantity_unit_code = None PROVE FALSE
  BY <1>1
<1>4. _empty(inv.lines[i].quantity_unit_code)
  BY <1>3 DEF _empty
<1>5. _missing(_empty(inv.lines[i].quantity_unit_code), "BR-23",
               <<"lines", i, "quantity_unit_code">>) # {}
  BY <1>4 DEF _missing
<1> QED
  BY <1>2, <1>5 DEF br_23_quantity_unit

\* Of an invoice that passes, XML and JSON carry the same total without VAT, the same
\* amount due, and the same unit and net amount of every line: those gaps that ubl.py would
\* fill and json_out.py would leave null are ones that a rule has refused.
THEOREM DocumentsSayTheSame ==
    ASSUME NEW inv, check(inv) = {}
    PROVE  LET xml == ubl_render(inv)
               flat == json_render(inv)
           IN  /\ xml.LegalMonetaryTotal.TaxExclusiveAmount = flat.totals_net
               /\ xml.LegalMonetaryTotal.PayableAmount = flat.totals_due
               /\ \A i \in LineIndices(inv) :
                     /\ xml.InvoiceLine[i].unitCode = flat.lines[i].unit
                     /\ xml.InvoiceLine[i].LineExtensionAmount = flat.lines[i].net_amount
<1> DEFINE xml == ubl_render(inv)
           flat == json_render(inv)
<1>1. inv.totals.net_total # None /\ inv.totals.amount_due # None
  BY PassingIsComplete
<1>2. xml.LegalMonetaryTotal = _totals(inv.totals)
  BY DEF ubl_render
<1>3. xml.LegalMonetaryTotal.TaxExclusiveAmount = flat.totals_net
  BY <1>1, <1>2 DEF _totals, OrElse, json_render, _money
<1>4. xml.LegalMonetaryTotal.PayableAmount = flat.totals_due
  BY <1>1, <1>2 DEF _totals, OrElse, json_render, _money
<1>5. ASSUME NEW i \in LineIndices(inv)
      PROVE  /\ xml.InvoiceLine[i].unitCode = flat.lines[i].unit
             /\ xml.InvoiceLine[i].LineExtensionAmount = flat.lines[i].net_amount
  <2>1. inv.lines[i].net_amount # None /\ inv.lines[i].quantity_unit_code # None
    BY PassingLinesAreComplete
  <2>2. xml.InvoiceLine[i] = _line(i, inv.lines[i])
    BY DEF ubl_render
  <2>3. /\ flat.lines[i].unit = inv.lines[i].quantity_unit_code
        /\ flat.lines[i].net_amount = _money(inv.lines[i].net_amount)
    BY DEF json_render
  <2> QED
    BY <2>1, <2>2, <2>3 DEF _line, OrElse, _money
<1> QED
  BY <1>3, <1>4, <1>5

\* A whole number of cents that is less than three cents is two at most.
LEMMA LessThanThreeCents ==
    ASSUME NEW k \in Int, 2 * (CENT * k) < 6 * CENT
    PROVE  CENT * k <= 2 * CENT
<1> USE ValidationAssumption
<1>1. CASE k <= 2
  BY <1>1, Z3
<1>2. CASE k >= 3
  <2>1. CENT * k >= CENT * 3
    BY <1>2, Z3
  <2> QED
    BY <2>1
<1> QED
  BY <1>1, <1>2

\* What is printed is a whole number of cents.
LEMMA MoneyIsCents ==
    ASSUME NEW n \in Int
    PROVE  \E k \in Int : money(n) = CENT * k
<1>1. HalfEven(n, CENT) \in Int
  BY ValidationAssumption, Z3 DEF HalfEven
<1> QED
  BY <1>1 DEF money

\* The totals of the XML add up to within two cents, although they were compared
\* before they were rounded: whoever checks the printed gross against the printed net and
\* tax, or the printed amount due against the gross, is never three cents off.
THEOREM PrintedTotalsAddUp ==
    ASSUME NEW inv, TotalsType(inv.totals), check(inv) = {}
    PROVE  LET total == ubl_render(inv).LegalMonetaryTotal
               vat == ubl_render(inv).TaxTotal.TaxAmount
           IN  /\ Abs(total.TaxInclusiveAmount - (total.TaxExclusiveAmount + vat)) <= 2 * CENT
               /\ Abs(total.PayableAmount - total.TaxInclusiveAmount) <= 2 * CENT
<1> USE ValidationAssumption
<1> DEFINE net == inv.totals.net_total
           vat == inv.totals.vat_total
           gross == inv.totals.gross_total
           due == inv.totals.amount_due
<1>1. net # None /\ due # None
  BY PassingIsComplete
<1>2. net \in Int /\ vat \in Int /\ gross \in Int /\ due \in Int
  BY <1>1 DEF TotalsType
<1>3. br_co_15_gross_total(inv) = {} /\ br_co_16_amount_due(inv) = {}
  BY DEF check
<1>4. Abs(gross - (net + vat)) <= CENT
  <2>1. net + vat \in Int
    BY <1>2
  <2>2. _agrees(gross, net + vat, "BR-CO-15", <<"totals", "gross_total">>) = {}
    BY <1>1, <1>3 DEF br_co_15_gross_total
  <2> QED
    BY <1>2, <2>1, <2>2, AgreesMeansClose DEF TOLERANCE
<1>5. Abs(due - gross) <= CENT
  BY <1>1, <1>2, <1>3, AgreesMeansClose DEF br_co_16_amount_due, TOLERANCE
<1>6. /\ ubl_render(inv).LegalMonetaryTotal.TaxInclusiveAmount = money(gross)
      /\ ubl_render(inv).LegalMonetaryTotal.TaxExclusiveAmount = money(net)
      /\ ubl_render(inv).LegalMonetaryTotal.PayableAmount = money(due)
      /\ ubl_render(inv).TaxTotal.TaxAmount = money(vat)
  BY <1>1 DEF ubl_render, _totals, _tax_total, OrElse
<1> HIDE DEF net, vat, gross, due
<1>7. PICK kn \in Int, kv \in Int, kg \in Int, kd \in Int :
         /\ money(net) = CENT * kn /\ money(vat) = CENT * kv
         /\ money(gross) = CENT * kg /\ money(due) = CENT * kd
  BY <1>2, MoneyIsCents
<1>8. /\ 2 * (net - money(net)) <= CENT /\ 2 * (money(net) - net) <= CENT
      /\ 2 * (vat - money(vat)) <= CENT /\ 2 * (money(vat) - vat) <= CENT
      /\ 2 * (gross - money(gross)) <= CENT /\ 2 * (money(gross) - gross) <= CENT
      /\ 2 * (due - money(due)) <= CENT /\ 2 * (money(due) - due) <= CENT
      /\ money(net) \in Int /\ money(vat) \in Int /\ money(gross) \in Int /\ money(due) \in Int
  BY <1>2, MoneyIsNearest
<1>9. Abs(money(gross) - (money(net) + money(vat))) <= 2 * CENT
  <2> DEFINE k == kg - (kn + kv)
  <2>1. money(gross) - (money(net) + money(vat)) = CENT * k /\ CENT * (-k) = -(CENT * k)
    BY <1>7, Z3
  <2>2. 2 * (money(gross) - (money(net) + money(vat))) < 6 * CENT
    BY <1>2, <1>4, <1>8 DEF Abs
  <2>3. 2 * (-(money(gross) - (money(net) + money(vat)))) < 6 * CENT
    BY <1>2, <1>4, <1>8 DEF Abs
  <2>4. k \in Int /\ -k \in Int
    OBVIOUS
  <2> HIDE DEF k
  <2>5. CENT * k <= 2 * CENT /\ CENT * (-k) <= 2 * CENT
    BY <2>1, <2>2, <2>3, <2>4, LessThanThreeCents
  <2> QED
    BY <1>8, <2>1, <2>4, <2>5 DEF Abs
<1>10. Abs(money(due) - money(gross)) <= 2 * CENT
  <2> DEFINE k == kd - kg
  <2>1. money(due) - money(gross) = CENT * k /\ CENT * (-k) = -(CENT * k)
    BY <1>7, Z3
  <2>2. 2 * (money(due) - money(gross)) < 6 * CENT
    BY <1>2, <1>5, <1>8 DEF Abs
  <2>3. 2 * (-(money(due) - money(gross))) < 6 * CENT
    BY <1>2, <1>5, <1>8 DEF Abs
  <2>4. k \in Int /\ -k \in Int
    OBVIOUS
  <2> HIDE DEF k
  <2>5. CENT * k <= 2 * CENT /\ CENT * (-k) <= 2 * CENT
    BY <2>1, <2>2, <2>3, <2>4, LessThanThreeCents
  <2> QED
    BY <1>8, <2>1, <2>4, <2>5 DEF Abs
<1> QED
  BY <1>6, <1>9, <1>10

-----------------------------------------------------------------------------
(* What the schema guarantees.                                             *)

\* The totals and the dates are numbers, or missing where the schema allows it.
LEMMA TotalsAreNumbers ==
    ASSUME NEW inv, IsInvoice(inv)
    PROVE  /\ TotalsType(inv.totals)
           /\ inv.issue_date \in Int /\ inv.due_date \in Int \cup {None}
  BY DEF IsInvoice, IsRecord, TotalsType, Suits, NeverMissing, MayBeMissing, AmountNames, OfTotals,
         OfInvoice

\* So are the amounts of every line, of which there is at least one.
LEMMA LinesAreNumbers ==
    ASSUME NEW inv, IsInvoice(inv)
    PROVE  /\ Len(inv.lines) \in Nat \ {0}
           /\ \A i \in LineIndices(inv) :
                 /\ inv.lines[i].quantity \in Int /\ inv.lines[i].net_price \in Int
                 /\ inv.lines[i].net_amount \in Int \cup {None}
                 /\ inv.lines[i].vat_rate \in Int \cup {None}
<1>1. IsList(inv.lines, OfLine)
  BY DEF IsInvoice
<1>2. ASSUME NEW i \in LineIndices(inv)
      PROVE  \A n \in OfLine : Suits(n, inv.lines[i][n])
  BY <1>1 DEF IsList, IsRecord, LineIndices
<1> QED
  BY <1>1, <1>2 DEF IsList, OfLine, Suits, NeverMissing, MayBeMissing, AmountNames, OfTotals

\* So are the amounts of every breakdown entry.
LEMMA EntriesAreNumbers ==
    ASSUME NEW inv, IsInvoice(inv)
    PROVE  /\ Len(inv.vat_breakdown) \in Nat \ {0}
           /\ \A k \in Entries(inv) :
                 /\ inv.vat_breakdown[k].rate \in Int
                 /\ inv.vat_breakdown[k].taxable_amount \in Int
                 /\ inv.vat_breakdown[k].tax_amount \in Int
<1>1. IsList(inv.vat_breakdown, OfEntry)
  BY DEF IsInvoice
<1>2. ASSUME NEW i \in Entries(inv)
      PROVE  \A n \in OfEntry : Suits(n, inv.vat_breakdown[i][n])
  BY <1>1 DEF IsList, IsRecord, Entries
<1> QED
  BY <1>1, <1>2 DEF IsList, OfEntry, Suits, NeverMissing, MayBeMissing, AmountNames, OfTotals

\* What the rules compute from numbers are numbers.
LEMMA RoundedIsInteger ==
    ASSUME NEW n \in Int, NEW d \in Nat \ {0}
    PROVE  _rounded(n, d) \in Int
<1>1. d * CENT \in Nat \ {0}
  BY ValidationAssumption, Z3
<1>2. HalfUp(n, d * CENT) \in Int
  BY <1>1, HalfUpIsNearest
<1> QED
  BY <1>2, ValidationAssumption, Z3 DEF _rounded

\* The sums over lines and entries are numbers, however many there are.
LEMMA SumsAreNumbers ==
    ASSUME NEW inv, IsInvoice(inv)
    PROVE  /\ EveryNetIsThere(inv) => _line_net_sum(inv) \in Int
           /\ EveryNetIsThere(inv) => \A rate : NetAtRate(inv, rate) \in Int
           /\ VatSum(inv) \in Int
<1>1. ASSUME EveryNetIsThere(inv) PROVE _line_net_sum(inv) \in Int
  <2> DEFINE s == [i \in LineIndices(inv) |-> inv.lines[i].net_amount]
  <2>1. Len(s) \in Nat /\ \A i \in 1..Len(s) : s[i] \in Int
    BY <1>1, LinesAreNumbers DEF EveryNetIsThere, LineIndices
  <2> HIDE DEF s
  <2>2. Total(s) \in Int
    BY <2>1, TotalIsInteger
  <2> QED
    BY <2>2 DEF _line_net_sum, s
<1>2. ASSUME EveryNetIsThere(inv), NEW rate PROVE NetAtRate(inv, rate) \in Int
  <2> DEFINE s == [i \in LineIndices(inv) |->
                     IF inv.lines[i].vat_rate = rate THEN inv.lines[i].net_amount ELSE 0]
  <2>1. Len(s) \in Nat /\ \A i \in 1..Len(s) : s[i] \in Int
    BY <1>2, LinesAreNumbers DEF EveryNetIsThere, LineIndices
  <2> HIDE DEF s
  <2>2. Total(s) \in Int
    BY <2>1, TotalIsInteger
  <2> QED
    BY <2>2 DEF NetAtRate, s
<1>3. VatSum(inv) \in Int
  <2> DEFINE s == [k \in Entries(inv) |-> inv.vat_breakdown[k].tax_amount]
  <2>1. Len(s) \in Nat /\ \A i \in 1..Len(s) : s[i] \in Int
    BY EntriesAreNumbers DEF Entries
  <2> HIDE DEF s
  <2>2. Total(s) \in Int
    BY <2>1, TotalIsInteger
  <2> QED
    BY <2>2 DEF VatSum, s
<1> QED
  BY <1>1, <1>2, <1>3

\* So is what a rule multiplies and rounds.
LEMMA ExpectationsAreNumbers ==
    ASSUME NEW inv, IsInvoice(inv)
    PROVE  /\ \A i \in LineIndices(inv) : ExpectedNet(inv.lines[i]) \in Int
           /\ \A k \in Entries(inv) : ExpectedTax(inv.vat_breakdown[k]) \in Int
<1> USE ValidationAssumption
<1>1. ASSUME NEW i \in LineIndices(inv) PROVE ExpectedNet(inv.lines[i]) \in Int
  <2>1. inv.lines[i].quantity * inv.lines[i].net_price \in Int
    BY LinesAreNumbers, Z3
  <2> QED
    BY <2>1, RoundedIsInteger DEF ExpectedNet
<1>2. ASSUME NEW k \in Entries(inv) PROVE ExpectedTax(inv.vat_breakdown[k]) \in Int
  <2>1. inv.vat_breakdown[k].taxable_amount * inv.vat_breakdown[k].rate \in Int
    BY EntriesAreNumbers, Z3
  <2>2. 100 * PERCENT \in Nat \ {0}
    BY Z3
  <2> QED
    BY <2>1, <2>2, RoundedIsInteger DEF ExpectedTax
<1> QED
  BY <1>1, <1>2

\* The rules compare each total with the one before it, each within the tolerance; an
\* invoice that passes all of them is off by four tolerances at most, whatever its lines.
THEOREM TolerancesAddUp ==
    ASSUME NEW inv, IsInvoice(inv), check(inv) = {}
    PROVE  Abs(inv.totals.amount_due - (_line_net_sum(inv) + VatSum(inv))) <= 4 * TOLERANCE
<1> DEFINE net == inv.totals.net_total
           vat == inv.totals.vat_total
           gross == inv.totals.gross_total
           due == inv.totals.amount_due
           lines == _line_net_sum(inv)
           taxes == VatSum(inv)
<1>1. EveryNetIsThere(inv) /\ net \in Int /\ due \in Int
  BY PassingIsComplete, TotalsAreNumbers DEF TotalsType
<1>2. vat \in Int /\ gross \in Int /\ lines \in Int /\ taxes \in Int
  BY <1>1, TotalsAreNumbers, SumsAreNumbers DEF TotalsType
<1>3. /\ br_co_13_net_total(inv) = {} /\ br_co_14_vat_total(inv) = {}
      /\ br_co_15_gross_total(inv) = {} /\ br_co_16_amount_due(inv) = {}
  BY DEF check
<1>4. net # None /\ due # None
  BY PassingIsComplete
<1>5. Abs(net - lines) <= TOLERANCE
  BY <1>1, <1>2, <1>3, <1>4, AgreesMeansClose DEF br_co_13_net_total
<1>6. Abs(vat - taxes) <= TOLERANCE
  BY <1>2, <1>3, AgreesMeansClose DEF br_co_14_vat_total
<1>7. Abs(gross - (net + vat)) <= TOLERANCE
  <2>1. net + vat \in Int
    BY <1>1, <1>2
  <2>2. _agrees(gross, net + vat, "BR-CO-15", <<"totals", "gross_total">>) = {}
    BY <1>3, <1>4 DEF br_co_15_gross_total
  <2> QED
    BY <1>2, <2>1, <2>2, AgreesMeansClose
<1>8. Abs(due - gross) <= TOLERANCE
  BY <1>1, <1>2, <1>3, <1>4, AgreesMeansClose DEF br_co_16_amount_due
<1>9. TOLERANCE \in Int
  BY ValidationAssumption DEF TOLERANCE
<1> HIDE DEF net, vat, gross, due, lines, taxes
<1>10. Abs(due - (lines + taxes)) <= 4 * TOLERANCE
  BY <1>1, <1>2, <1>5, <1>6, <1>7, <1>8, <1>9 DEF Abs
<1> QED
  BY <1>10 DEF net, vat, gross, due, lines, taxes

-----------------------------------------------------------------------------
(* What a report says: each violation names a field and what is wrong there. *)

\* A sequence with the same elements and one more is that sequence, appended to.
LEMMA Appended ==
    ASSUME NEW A, NEW s \in Seq(A), NEW t \in Seq(A), NEW b \in A,
           Len(t) = Len(s) + 1, \A i \in 1..Len(s) : t[i] = s[i], t[Len(t)] = b
    PROVE  Append(s, b) = t
<1>1. Append(s, b) \in Seq(A) /\ Len(Append(s, b)) = Len(t)
  OBVIOUS
<1>2. \A i \in 1..Len(Append(s, b)) : Append(s, b)[i] = t[i]
  OBVIOUS
<1> QED
  BY <1>1, <1>2, SeqEqual

\* A path of one name, extended.
LEMMA TwoAppended == ASSUME NEW a, NEW b PROVE Append(<<a>>, b) = <<a, b>>
<1> DEFINE A == {a, b}
           s == <<a>>
           t == <<a, b>>
<1>1. <<a>> \in Seq(A) /\ <<a, b>> \in Seq(A) /\ b \in A
  OBVIOUS
<1>2. Len(<<a>>) = 1 /\ Len(<<a, b>>) = 2 /\ <<a>>[1] = a /\ <<a, b>>[1] = a /\ <<a, b>>[2] = b
  OBVIOUS
<1> HIDE DEF A, s, t
<1>3. s \in Seq(A) /\ t \in Seq(A) /\ b \in A
  BY <1>1 DEF s, t
<1>4. Len(t) = Len(s) + 1 /\ (\A i \in 1..Len(s) : t[i] = s[i]) /\ t[Len(t)] = b
  BY <1>2 DEF s, t
<1>5. Append(s, b) = t
  BY <1>3, <1>4, Appended
<1> QED
  BY <1>5 DEF s, t

\* A path of two, extended.
LEMMA ThreeAppended == ASSUME NEW a, NEW b, NEW c PROVE Append(<<a, b>>, c) = <<a, b, c>>
<1> DEFINE A == {a, b, c}
           s == <<a, b>>
           t == <<a, b, c>>
<1>1. <<a, b>> \in Seq(A) /\ <<a, b, c>> \in Seq(A) /\ c \in A
  OBVIOUS
<1>2. /\ Len(<<a, b>>) = 2 /\ <<a, b>>[1] = a /\ <<a, b>>[2] = b
      /\ Len(<<a, b, c>>) = 3 /\ <<a, b, c>>[1] = a /\ <<a, b, c>>[2] = b /\ <<a, b, c>>[3] = c
  OBVIOUS
<1> HIDE DEF A, s, t
<1>3. s \in Seq(A) /\ t \in Seq(A) /\ c \in A
  BY <1>1 DEF s, t
<1>4. Len(t) = Len(s) + 1 /\ (\A i \in 1..Len(s) : t[i] = s[i]) /\ t[Len(t)] = c
  BY <1>2 DEF s, t
<1>5. Append(s, c) = t
  BY <1>3, <1>4, Appended
<1> QED
  BY <1>5 DEF s, t

\* What is at a path of one name.
LEMMA PathOfOne ==
    ASSUME NEW inv, NEW a
    PROVE  /\ Len(<<a>>) = 1 /\ <<a>>[1] = a
           /\ NameOf(<<a>>) = a /\ FieldAt(inv, <<a>>) = inv[a]
<1> DEFINE path == <<a>>
<1>1. Len(path) = 1 /\ path[1] = a
  OBVIOUS
<1> HIDE DEF path
<1>2. NameOf(path) = a /\ FieldAt(inv, path) = inv[a]
  BY <1>1 DEF NameOf, FieldAt
<1> QED
  BY <1>1, <1>2 DEF path

\* What is at a path of two.
LEMMA PathOfTwo ==
    ASSUME NEW inv, NEW a, NEW b
    PROVE  /\ Len(<<a, b>>) = 2 /\ <<a, b>>[1] = a /\ <<a, b>>[2] = b
           /\ NameOf(<<a, b>>) = b /\ FieldAt(inv, <<a, b>>) = inv[a][b]
           /\ Append(<<a>>, b) = <<a, b>>
<1> DEFINE path == <<a, b>>
<1>1. Len(path) = 2 /\ path[1] = a /\ path[2] = b
  OBVIOUS
<1> HIDE DEF path
<1>2. NameOf(path) = b /\ FieldAt(inv, path) = inv[a][b]
  BY <1>1 DEF NameOf, FieldAt
<1> QED
  BY <1>1, <1>2, TwoAppended DEF path

\* What is at a path of three.
LEMMA PathOfThree ==
    ASSUME NEW inv, NEW a, NEW b, NEW c
    PROVE  /\ Len(<<a, b, c>>) = 3 /\ <<a, b, c>>[1] = a /\ <<a, b, c>>[2] = b /\ <<a, b, c>>[3] = c
           /\ NameOf(<<a, b, c>>) = c /\ FieldAt(inv, <<a, b, c>>) = inv[a][b][c]
           /\ Append(<<a, b>>, c) = <<a, b, c>>
<1> DEFINE path == <<a, b, c>>
<1>1. Len(path) = 3 /\ path[1] = a /\ path[2] = b /\ path[3] = c
  OBVIOUS
<1> HIDE DEF path
<1>2. NameOf(path) = c /\ FieldAt(inv, path) = inv[a][b][c]
  BY <1>1 DEF NameOf, FieldAt
<1> QED
  BY <1>1, <1>2, ThreeAppended DEF path

\* The one thing a report can say about a path: that something is missing or wrong there,
\* or that an amount is not the one the others make.
Missing(rule, path) == Violation(rule, path, Unknown, Unknown)
Off(rule, path, expected, actual) == Violation(rule, path, <<money(expected)>>, <<money(actual)>>)

ToldOfLine(line, path) ==
    IF path[3] = "quantity_unit_code" THEN Missing("BR-23", path)
    ELSE IF line.net_amount = None THEN Missing("BR-24", path)
    ELSE Off("OWN-LINE-MATH", path, ExpectedNet(line), line.net_amount)

ToldOfEntry(inv, entry, path) ==
    IF path[3] = "tax_amount" THEN Off("BR-CO-17", path, ExpectedTax(entry), entry.tax_amount)
    ELSE Off("OWN-VAT-BASE", path, NetAtRate(inv, entry.rate), entry.taxable_amount)

ToldOfParty(path) ==
    CASE path[2] = "name" -> Missing(IF path[1] = "seller" THEN "BR-06" ELSE "BR-07", path)
      [] path[2] = "endpoint_scheme_id" ->
            Missing(IF path[1] = "seller" THEN "BR-62" ELSE "BR-63", path)
      [] path[2] = "vat_id" -> Missing("BR-CO-09", path)

ToldOfTotals(inv, path) ==
    LET totals == inv.totals
    IN  CASE path[2] = "line_net_total" ->
                Off("BR-CO-10", path, _line_net_sum(inv), totals.line_net_total)
          [] path[2] = "net_total" ->
                IF totals.net_total = None THEN Missing("BR-13", path)
                ELSE Off("BR-CO-13", path, _line_net_sum(inv), totals.net_total)
          [] path[2] = "vat_total" -> Off("BR-CO-14", path, VatSum(inv), totals.vat_total)
          [] path[2] = "gross_total" ->
                Off("BR-CO-15", path, totals.net_total + totals.vat_total, totals.gross_total)
          [] path[2] = "amount_due" ->
                IF totals.amount_due = None THEN Missing("BR-15", path)
                ELSE Off("BR-CO-16", path, totals.gross_total, totals.amount_due)

ToldOfInvoice(inv, path) ==
    CASE path[1] = "number" -> Missing("BR-02", path)
      [] path[1] = "type_code" -> Missing("BR-04", path)
      [] path[1] = "currency" -> Missing("OWN-CURRENCY-KNOWN", path)
      [] path[1] = "due_date" ->
            Violation("OWN-DUE-AFTER-ISSUE", path, <<inv.issue_date>>, <<inv.due_date>>)

Told(inv, path) ==
    CASE path[1] = "lines" -> ToldOfLine(inv.lines[path[2]], path)
      [] path[1] = "vat_breakdown" -> ToldOfEntry(inv, inv.vat_breakdown[path[2]], path)
      [] path[1] \in Roles -> ToldOfParty(path)
      [] path[1] = "totals" -> ToldOfTotals(inv, path)
      [] OTHER -> ToldOfInvoice(inv, path)

\* Whether a taxable amount is compared with anything.
Compared(inv, k) ==
    /\ EveryNetIsThere(inv)
    /\ \A i \in LineIndices(inv) : inv.lines[i].vat_rate # None
    /\ \E i \in LineIndices(inv) : inv.lines[i].vat_rate = inv.vat_breakdown[k].rate

\* What the amount at a path is compared with, if with nothing then itself.
ExpectedAt(inv, path) ==
    LET entry == inv.vat_breakdown[path[2]]
        totals == inv.totals
    IN  CASE path[1] = "lines" -> ExpectedNet(inv.lines[path[2]])
          [] path[1] = "vat_breakdown" ->
                IF path[3] = "tax_amount" THEN ExpectedTax(entry)
                ELSE IF Compared(inv, path[2]) THEN NetAtRate(inv, entry.rate)
                ELSE entry.taxable_amount
          [] path[1] = "totals" ->
                CASE path[2] \in {"line_net_total", "net_total"} -> _line_net_sum(inv)
                  [] path[2] = "vat_total" -> VatSum(inv)
                  [] path[2] = "gross_total" -> totals.net_total + totals.vat_total
                  [] path[2] = "amount_due" -> totals.gross_total

\* The values a report may ask for: amounts, and others.
AskedAmounts == {"net_amount", "taxable_amount", "tax_amount"} \cup OfTotals
AskedTexts == {"number", "type_code", "currency", "due_date", "name", "vat_id",
               "endpoint_scheme_id", "quantity_unit_code"}

\* A violation names a field there is, says what there is to say of it, and asks for
\* something else than is there, even as printed.
IsToTheField(inv, v) ==
    LET is == FieldAt(inv, v.field)
        name == NameOf(v.field)
    IN  /\ v.field \in Paths(inv) /\ v = Told(inv, v.field)
        /\ \/ name \in AskedTexts /\ v.expected = Unknown /\ name # "due_date"
           \/ /\ name = "due_date" /\ v.expected # Unknown
              /\ v.expected[1] \in Int /\ v.expected[1] # is /\ v.expected # v.actual
           \/ name \in AskedAmounts /\ v.expected = Unknown /\ is = None
           \/ /\ name \in AskedAmounts
              /\ v.expected = <<money(ExpectedAt(inv, v.field))>> /\ v.expected[1] \in Int
              /\ v.expected[1] # is /\ v.expected # v.actual
              /\ is \in Int /\ Abs(is - ExpectedAt(inv, v.field)) > TOLERANCE

\* A violation that only says that something is not right there.
LEMMA MissingIsToTheField ==
    ASSUME NEW inv, NEW path \in Paths(inv), NEW rule, NEW v, v = Missing(rule, path),
           Told(inv, path) = Missing(rule, path),
           \/ NameOf(path) \in AskedTexts \ {"due_date"}
           \/ NameOf(path) \in AskedAmounts /\ FieldAt(inv, path) = None
    PROVE  IsToTheField(inv, v)
<1>1. v.field = path /\ v.expected = Unknown
  BY DEF Missing, Violation
<1> QED
  BY <1>1 DEF IsToTheField

\* A violation of a rule that compares amounts.
LEMMA OffIsToTheField ==
    ASSUME NEW inv, NEW path \in Paths(inv), NameOf(path) \in AskedAmounts,
           NEW rule, NEW a \in Int,
           NEW e \in Int, FieldAt(inv, path) = a, ExpectedAt(inv, path) = e,
           Told(inv, path) = Off(rule, path, e, a),
           NEW v \in _agrees(a, e, rule, path)
    PROVE  IsToTheField(inv, v)
<1> USE ValidationAssumption
<1>1. Abs(a - e) > TOLERANCE /\ v = Off(rule, path, e, a)
  BY DEF _agrees, TOLERANCE, Abs, Off
<1>2. v.field = path /\ v.expected = <<money(e)>> /\ v.expected[1] = money(e)
  BY <1>1 DEF Off, Violation
<1>3. money(e) \in Int /\ money(e) # a
  BY <1>1, MoneyIsNearest DEF Abs, TOLERANCE
<1>4. v.expected # v.actual
  BY PrintedAmountsDiffer
<1> QED
  BY <1>1, <1>2, <1>3, <1>4 DEF IsToTheField

\* The paths, and what is at them.
LEMMA LinePath ==
    ASSUME NEW inv, NEW i \in LineIndices(inv), NEW name \in OfLine
    PROVE  LET path == <<"lines", i, name>>
           IN  /\ path \in Paths(inv) /\ NameOf(path) = name /\ path[3] = name
               /\ Told(inv, path) = ToldOfLine(inv.lines[i], path)
               /\ FieldAt(inv, path) = inv.lines[i][name]
               /\ ExpectedAt(inv, path) = ExpectedNet(inv.lines[i])
<1> DEFINE path == <<"lines", i, name>>
<1>1. path \in {<<"lines", j, n>> : j \in LineIndices(inv), n \in OfLine}
  OBVIOUS
<1>2. Len(path) = 3 /\ path[1] = "lines" /\ path[2] = i /\ path[3] = name
  OBVIOUS
<1> HIDE DEF path
<1>3. NameOf(path) = name /\ FieldAt(inv, path) = inv.lines[i][name]
  BY <1>2 DEF NameOf, FieldAt
<1>4. Told(inv, path) = ToldOfLine(inv.lines[i], path)
  BY <1>2 DEF Told, Roles
<1>5. ExpectedAt(inv, path) = ExpectedNet(inv.lines[i])
  BY <1>2 DEF ExpectedAt
<1> QED
  BY <1>1, <1>2, <1>3, <1>4, <1>5 DEF Paths, path

\* What is at the path of a value of a breakdown entry, and what a report may say of it.
LEMMA EntryPath ==
    ASSUME NEW inv, NEW k \in Entries(inv), NEW name \in OfEntry
    PROVE  LET path == <<"vat_breakdown", k, name>>
               entry == inv.vat_breakdown[k]
           IN  /\ path \in Paths(inv) /\ NameOf(path) = name /\ path[3] = name
               /\ Told(inv, path) = ToldOfEntry(inv, entry, path)
               /\ FieldAt(inv, path) = entry[name]
               /\ name = "tax_amount" => ExpectedAt(inv, path) = ExpectedTax(entry)
               /\ name = "taxable_amount" =>
                     ExpectedAt(inv, path) = IF Compared(inv, k) THEN NetAtRate(inv, entry.rate)
                                             ELSE entry.taxable_amount
<1> DEFINE path == <<"vat_breakdown", k, name>>
           entry == inv.vat_breakdown[k]
<1>1. path \in {<<"vat_breakdown", j, n>> : j \in Entries(inv), n \in OfEntry}
  OBVIOUS
<1>2. Len(path) = 3 /\ path[1] = "vat_breakdown" /\ path[2] = k /\ path[3] = name
  OBVIOUS
<1> HIDE DEF path
<1>3. NameOf(path) = name /\ FieldAt(inv, path) = entry[name]
  BY <1>2 DEF NameOf, FieldAt
<1>4. Told(inv, path) = ToldOfEntry(inv, entry, path)
  BY <1>2 DEF Told, Roles
<1>5. /\ name = "tax_amount" => ExpectedAt(inv, path) = ExpectedTax(entry)
      /\ name = "taxable_amount" =>
            ExpectedAt(inv, path) = IF Compared(inv, k) THEN NetAtRate(inv, entry.rate)
                                    ELSE entry.taxable_amount
  BY <1>2 DEF ExpectedAt
<1> QED
  BY <1>1, <1>2, <1>3, <1>4, <1>5 DEF Paths, path

\* The same of a total.
LEMMA TotalsPath ==
    ASSUME NEW inv, NEW name \in OfTotals
    PROVE  LET path == <<"totals", name>>
           IN  /\ path \in Paths(inv) /\ NameOf(path) = name /\ path[2] = name
               /\ Told(inv, path) = ToldOfTotals(inv, path)
               /\ FieldAt(inv, path) = inv.totals[name]
<1> DEFINE path == <<"totals", name>>
<1>1. path \in {<<"totals", n>> : n \in OfTotals}
  OBVIOUS
<1>2. Len(path) = 2 /\ path[1] = "totals" /\ path[2] = name
  OBVIOUS
<1> HIDE DEF path
<1>3. NameOf(path) = name /\ FieldAt(inv, path) = inv.totals[name]
  BY <1>2 DEF NameOf, FieldAt
<1>4. Told(inv, path) = ToldOfTotals(inv, path)
  BY <1>2 DEF Told, Roles
<1> QED
  BY <1>1, <1>2, <1>3, <1>4 DEF Paths, path

\* The same of a value of the seller or the buyer.
LEMMA PartyPath ==
    ASSUME NEW inv, NEW role \in Roles, NEW name \in OfParty
    PROVE  LET path == <<role, name>>
           IN  /\ path \in Paths(inv) /\ NameOf(path) = name
               /\ Told(inv, path) = ToldOfParty(path) /\ FieldAt(inv, path) = inv[role][name]
<1> DEFINE path == <<role, name>>
<1>1. path \in {<<r, n>> : r \in Roles, n \in OfParty}
  OBVIOUS
<1>2. Len(path) = 2 /\ path[1] = role /\ path[2] = name
  OBVIOUS
<1> HIDE DEF path
<1>3. NameOf(path) = name /\ FieldAt(inv, path) = inv[role][name]
  BY <1>2 DEF NameOf, FieldAt
<1>4. Told(inv, path) = ToldOfParty(path)
  BY <1>2 DEF Told, Roles
<1> QED
  BY <1>1, <1>3, <1>4 DEF Paths, path

\* The same of a value of the invoice itself.
LEMMA HeaderPath ==
    ASSUME NEW inv, NEW name \in OfInvoice
    PROVE  LET path == <<name>>
           IN  /\ path \in Paths(inv) /\ NameOf(path) = name /\ path[1] = name
               /\ Told(inv, path) = ToldOfInvoice(inv, path) /\ FieldAt(inv, path) = inv[name]
<1> DEFINE path == <<name>>
<1>1. path \in {<<n>> : n \in OfInvoice}
  OBVIOUS
<1>2. Len(path) = 1 /\ path[1] = name
  OBVIOUS
<1> HIDE DEF path
<1>3. NameOf(path) = name /\ FieldAt(inv, path) = inv[name]
  BY <1>2 DEF NameOf, FieldAt
<1>4. Told(inv, path) = ToldOfInvoice(inv, path)
  BY <1>2 DEF Told, Roles, OfInvoice
<1> QED
  BY <1>1, <1>2, <1>3, <1>4 DEF Paths, path

\* What the rules about lines report is to the field.
LEMMA LinesSayToTheField ==
    ASSUME NEW inv, IsInvoice(inv),
           NEW v \in br_23_quantity_unit(inv) \cup br_24_line_net_amount(inv)
             \cup own_line_math(inv)
    PROVE  IsToTheField(inv, v)
<1>2. CASE v \in br_23_quantity_unit(inv)
  <2>1. PICK i \in LineIndices(inv) :
           v \in _missing(_empty(inv.lines[i].quantity_unit_code), "BR-23",
                          <<"lines", i, "quantity_unit_code">>)
    BY <1>2 DEF br_23_quantity_unit
  <2> DEFINE path == <<"lines", i, "quantity_unit_code">>
  <2>2. v = Missing("BR-23", path)
    BY <2>1 DEF _missing, Missing
  <2>3. /\ path \in Paths(inv) /\ NameOf(path) = "quantity_unit_code"
        /\ Told(inv, path) = ToldOfLine(inv.lines[i], path) /\ path[3] = "quantity_unit_code"
    <3>1. "quantity_unit_code" \in OfLine /\ "net_amount" \in OfLine
      BY DEF OfLine
    <3> QED
      BY <3>1, LinePath
  <2> HIDE DEF path
  <2>4. Told(inv, path) = Missing("BR-23", path)
    BY <2>3 DEF ToldOfLine
  <2> QED
    BY <2>2, <2>3, <2>4, MissingIsToTheField DEF AskedTexts
<1>3. CASE v \in br_24_line_net_amount(inv)
  <2>1. PICK i \in LineIndices(inv) :
           v \in _missing(inv.lines[i].net_amount = None, "BR-24", <<"lines", i, "net_amount">>)
    BY <1>3 DEF br_24_line_net_amount
  <2> DEFINE path == <<"lines", i, "net_amount">>
  <2>2. v = Missing("BR-24", path) /\ inv.lines[i].net_amount = None
    BY <2>1 DEF _missing, Missing
  <2>3. /\ path \in Paths(inv) /\ NameOf(path) = "net_amount"
        /\ Told(inv, path) = ToldOfLine(inv.lines[i], path) /\ path[3] = "net_amount"
        /\ FieldAt(inv, path) = inv.lines[i].net_amount
    <3>1. "quantity_unit_code" \in OfLine /\ "net_amount" \in OfLine
      BY DEF OfLine
    <3> QED
      BY <3>1, LinePath
  <2> HIDE DEF path
  <2>4. Told(inv, path) = Missing("BR-24", path)
    BY <2>2, <2>3 DEF ToldOfLine
  <2> QED
    BY <2>2, <2>3, <2>4, MissingIsToTheField DEF AskedAmounts
<1>4. CASE v \in own_line_math(inv)
  <2>1. PICK i \in LineIndices(inv) :
           /\ inv.lines[i].net_amount # None
           /\ v \in _agrees(inv.lines[i].net_amount, ExpectedNet(inv.lines[i]),
                            "OWN-LINE-MATH", <<"lines", i, "net_amount">>)
    BY <1>4 DEF own_line_math
  <2> DEFINE path == <<"lines", i, "net_amount">>
             a == inv.lines[i].net_amount
             e == ExpectedNet(inv.lines[i])
  <2>2. a \in Int /\ e \in Int
    BY <2>1, LinesAreNumbers, ExpectationsAreNumbers
  <2>3. /\ path \in Paths(inv) /\ NameOf(path) = "net_amount"
        /\ Told(inv, path) = ToldOfLine(inv.lines[i], path) /\ path[3] = "net_amount"
        /\ FieldAt(inv, path) = a /\ ExpectedAt(inv, path) = e
    <3>1. "quantity_unit_code" \in OfLine /\ "net_amount" \in OfLine
      BY DEF OfLine
    <3> QED
      BY <3>1, LinePath
  <2>4. v \in _agrees(a, e, "OWN-LINE-MATH", path) /\ a # None
    BY <2>1
  <2> HIDE DEF path
  <2>5. Told(inv, path) = Off("OWN-LINE-MATH", path, e, a)
    BY <2>3, <2>4 DEF ToldOfLine
  <2> HIDE DEF a, e
  <2> QED
    BY <2>2, <2>3, <2>4, <2>5, OffIsToTheField DEF AskedAmounts
<1> QED
  BY <1>2, <1>3, <1>4

\* So is what the rules about the VAT breakdown report.
LEMMA EntriesSayToTheField ==
    ASSUME NEW inv, IsInvoice(inv), NEW v \in br_co_17_vat_per_rate(inv) \cup own_vat_base(inv)
    PROVE  IsToTheField(inv, v)
<1>2. CASE v \in br_co_17_vat_per_rate(inv)
  <2>1. PICK k \in Entries(inv) :
           v \in _agrees(inv.vat_breakdown[k].tax_amount, ExpectedTax(inv.vat_breakdown[k]),
                         "BR-CO-17", <<"vat_breakdown", k, "tax_amount">>)
    BY <1>2 DEF br_co_17_vat_per_rate
  <2> DEFINE path == <<"vat_breakdown", k, "tax_amount">>
             a == inv.vat_breakdown[k].tax_amount
             e == ExpectedTax(inv.vat_breakdown[k])
  <2>2. a \in Int /\ e \in Int
    BY EntriesAreNumbers, ExpectationsAreNumbers
  <2>3. /\ path \in Paths(inv) /\ NameOf(path) = "tax_amount"
        /\ Told(inv, path) = ToldOfEntry(inv, inv.vat_breakdown[k], path) /\ path[3] = "tax_amount"
        /\ FieldAt(inv, path) = a /\ ExpectedAt(inv, path) = e
    BY EntryPath DEF OfEntry
  <2>4. v \in _agrees(a, e, "BR-CO-17", path)
    BY <2>1
  <2> HIDE DEF path
  <2>5. Told(inv, path) = Off("BR-CO-17", path, e, a)
    BY <2>3 DEF ToldOfEntry
  <2> HIDE DEF a, e
  <2> QED
    BY <2>2, <2>3, <2>4, <2>5, OffIsToTheField DEF AskedAmounts
<1>3. CASE v \in own_vat_base(inv)
  <2>1. EveryNetIsThere(inv)
    BY <1>3 DEF own_vat_base
  <2>2. PICK k \in Entries(inv) : Compared(inv, k) /\
           v \in _agrees(inv.vat_breakdown[k].taxable_amount,
                         NetAtRate(inv, inv.vat_breakdown[k].rate),
                         "OWN-VAT-BASE", <<"vat_breakdown", k, "taxable_amount">>)
    BY <1>3 DEF own_vat_base, Compared
  <2> DEFINE path == <<"vat_breakdown", k, "taxable_amount">>
             a == inv.vat_breakdown[k].taxable_amount
             e == NetAtRate(inv, inv.vat_breakdown[k].rate)
  <2>3. a \in Int /\ e \in Int
    BY <2>1, EntriesAreNumbers, SumsAreNumbers
  <2>4. /\ path \in Paths(inv) /\ NameOf(path) = "taxable_amount"
        /\ Told(inv, path) = ToldOfEntry(inv, inv.vat_breakdown[k], path)
        /\ path[3] = "taxable_amount"
        /\ FieldAt(inv, path) = a /\ ExpectedAt(inv, path) = e
    BY <2>2, EntryPath DEF OfEntry
  <2>5. v \in _agrees(a, e, "OWN-VAT-BASE", path)
    BY <2>2
  <2> HIDE DEF path
  <2>6. Told(inv, path) = Off("OWN-VAT-BASE", path, e, a)
    BY <2>4 DEF ToldOfEntry
  <2> HIDE DEF a, e
  <2> QED
    BY <2>3, <2>4, <2>5, <2>6, OffIsToTheField DEF AskedAmounts
<1> QED
  BY <1>2, <1>3

\* So is what the rules about seller and buyer report.
LEMMA PartiesSayToTheField ==
    ASSUME NEW inv, IsInvoice(inv),
           NEW v \in UNION {br_06_seller_name(inv), br_07_buyer_name(inv),
                            br_62_seller_endpoint_scheme(inv), br_63_buyer_endpoint_scheme(inv),
                            br_co_09_vat_identifiers(inv)}
    PROVE  IsToTheField(inv, v)
<1>1. \E role \in Roles, name \in {"name", "endpoint_scheme_id", "vat_id"} : \E rule :
         /\ v = Missing(rule, <<role, name>>)
         /\ ToldOfParty(<<role, name>>) = Missing(rule, <<role, name>>)
  <2>1. CASE v \in br_06_seller_name(inv)
    BY <2>1 DEF br_06_seller_name, _missing, Missing, ToldOfParty, Roles
  <2>2. CASE v \in br_07_buyer_name(inv)
    BY <2>2 DEF br_07_buyer_name, _missing, Missing, ToldOfParty, Roles
  <2>3. CASE v \in br_62_seller_endpoint_scheme(inv)
    BY <2>3 DEF br_62_seller_endpoint_scheme, _missing, Missing, ToldOfParty, Roles
  <2>4. CASE v \in br_63_buyer_endpoint_scheme(inv)
    BY <2>4 DEF br_63_buyer_endpoint_scheme, _missing, Missing, ToldOfParty, Roles
  <2>5. CASE v \in br_co_09_vat_identifiers(inv)
    BY <2>5 DEF br_co_09_vat_identifiers, Missing, ToldOfParty, Roles
  <2> QED
    BY <2>1, <2>2, <2>3, <2>4, <2>5
<1>4. PICK role \in Roles, name \in {"name", "endpoint_scheme_id", "vat_id"} : \E rule :
         /\ v = Missing(rule, <<role, name>>)
         /\ ToldOfParty(<<role, name>>) = Missing(rule, <<role, name>>)
  BY <1>1
<1>5. PICK rule :
         /\ v = Missing(rule, <<role, name>>)
         /\ ToldOfParty(<<role, name>>) = Missing(rule, <<role, name>>)
  BY <1>4
<1> DEFINE path == <<role, name>>
<1>2. /\ path \in Paths(inv) /\ NameOf(path) = name /\ Told(inv, path) = ToldOfParty(path)
  BY PartyPath DEF OfParty
<1>3. v = Missing(rule, path) /\ ToldOfParty(path) = Missing(rule, path)
  BY <1>5
<1> HIDE DEF path
<1> QED
  BY <1>2, <1>3, MissingIsToTheField DEF AskedTexts

\* So is what the rules about totals report.
LEMMA TotalsSayToTheField ==
    ASSUME NEW inv, IsInvoice(inv),
           NEW v \in UNION {br_13_net_total(inv), br_15_amount_due(inv),
                            br_co_10_line_total(inv), br_co_13_net_total(inv),
                            br_co_14_vat_total(inv), br_co_15_gross_total(inv),
                            br_co_16_amount_due(inv)}
    PROVE  IsToTheField(inv, v)
<1> DEFINE totals == inv.totals
           At(name) == <<"totals", name>>
<1>2. TotalsType(totals)
  BY TotalsAreNumbers
<1>3. ASSUME NEW name \in OfTotals, NEW rule, v = Missing(rule, At(name)), totals[name] = None,
             ToldOfTotals(inv, At(name)) = Missing(rule, At(name))
      PROVE  IsToTheField(inv, v)
  <2>0. /\ At(name) \in Paths(inv) /\ NameOf(At(name)) = name
        /\ FieldAt(inv, At(name)) = totals[name]
        /\ Told(inv, At(name)) = ToldOfTotals(inv, At(name))
    BY TotalsPath
  <2> HIDE DEF At, totals
  <2> QED
    BY <2>0, <1>3, MissingIsToTheField DEF AskedAmounts
<1>4. ASSUME NEW name \in OfTotals, NEW rule, NEW a \in Int, NEW e \in Int,
             v \in _agrees(a, e, rule, At(name)), totals[name] = a, ExpectedAt(inv, At(name)) = e,
             ToldOfTotals(inv, At(name)) = Off(rule, At(name), e, a)
      PROVE  IsToTheField(inv, v)
  <2>0. /\ At(name) \in Paths(inv) /\ NameOf(At(name)) = name
        /\ FieldAt(inv, At(name)) = totals[name]
        /\ Told(inv, At(name)) = ToldOfTotals(inv, At(name))
    BY TotalsPath
  <2> HIDE DEF At, totals
  <2> QED
    BY <2>0, <1>4, OffIsToTheField DEF AskedAmounts
<1>5. CASE v \in br_13_net_total(inv)
  <2>1. v = Missing("BR-13", At("net_total")) /\ totals.net_total = None
    BY <1>5 DEF br_13_net_total, _missing, Missing
  <2> QED
    BY <1>3, <2>1 DEF ToldOfTotals, OfTotals
<1>6. CASE v \in br_15_amount_due(inv)
  <2>1. v = Missing("BR-15", At("amount_due")) /\ totals.amount_due = None
    BY <1>6 DEF br_15_amount_due, _missing, Missing
  <2> QED
    BY <1>3, <2>1 DEF ToldOfTotals, OfTotals
<1>7. CASE v \in br_co_10_line_total(inv)
  <2> DEFINE a == totals.line_net_total
             e == _line_net_sum(inv)
  <2>1. EveryNetIsThere(inv) /\ v \in _agrees(a, e, "BR-CO-10", At("line_net_total"))
    BY <1>7 DEF br_co_10_line_total
  <2>2. a \in Int /\ e \in Int
    BY <1>2, <2>1, SumsAreNumbers DEF TotalsType
  <2>3. /\ ExpectedAt(inv, At("line_net_total")) = e
        /\ ToldOfTotals(inv, At("line_net_total")) = Off("BR-CO-10", At("line_net_total"), e, a)
    BY DEF ExpectedAt, ToldOfTotals
  <2> HIDE DEF e, At
  <2> QED
    BY <1>4, <2>1, <2>2, <2>3 DEF OfTotals
<1>8. CASE v \in br_co_13_net_total(inv)
  <2> DEFINE a == totals.net_total
             e == _line_net_sum(inv)
  <2>1. EveryNetIsThere(inv) /\ a # None /\ v \in _agrees(a, e, "BR-CO-13", At("net_total"))
    BY <1>8 DEF br_co_13_net_total
  <2>2. a \in Int /\ e \in Int
    BY <1>2, <2>1, SumsAreNumbers DEF TotalsType
  <2>3. /\ ExpectedAt(inv, At("net_total")) = e
        /\ ToldOfTotals(inv, At("net_total")) = Off("BR-CO-13", At("net_total"), e, a)
    BY <2>1 DEF ExpectedAt, ToldOfTotals
  <2> HIDE DEF e, At
  <2> QED
    BY <1>4, <2>1, <2>2, <2>3 DEF OfTotals
<1>9. CASE v \in br_co_14_vat_total(inv)
  <2> DEFINE a == totals.vat_total
             e == VatSum(inv)
  <2>1. v \in _agrees(a, e, "BR-CO-14", At("vat_total"))
    BY <1>9 DEF br_co_14_vat_total
  <2>2. a \in Int /\ e \in Int
    BY <1>2, SumsAreNumbers DEF TotalsType
  <2>3. /\ ExpectedAt(inv, At("vat_total")) = e
        /\ ToldOfTotals(inv, At("vat_total")) = Off("BR-CO-14", At("vat_total"), e, a)
    BY DEF ExpectedAt, ToldOfTotals
  <2> HIDE DEF e, At
  <2> QED
    BY <1>4, <2>1, <2>2, <2>3 DEF OfTotals
<1>10. CASE v \in br_co_15_gross_total(inv)
  <2> DEFINE a == totals.gross_total
             e == totals.net_total + totals.vat_total
  <2>1. totals.net_total # None /\ v \in _agrees(a, e, "BR-CO-15", At("gross_total"))
    BY <1>10 DEF br_co_15_gross_total
  <2>2. a \in Int /\ e \in Int
    BY <1>2, <2>1 DEF TotalsType
  <2>3. /\ ExpectedAt(inv, At("gross_total")) = e
        /\ ToldOfTotals(inv, At("gross_total")) = Off("BR-CO-15", At("gross_total"), e, a)
    BY DEF ExpectedAt, ToldOfTotals
  <2> HIDE DEF e, At
  <2> QED
    BY <1>4, <2>1, <2>2, <2>3 DEF OfTotals
<1>11. CASE v \in br_co_16_amount_due(inv)
  <2> DEFINE a == totals.amount_due
             e == totals.gross_total
  <2>1. a # None /\ v \in _agrees(a, e, "BR-CO-16", At("amount_due"))
    BY <1>11 DEF br_co_16_amount_due
  <2>2. a \in Int /\ e \in Int
    BY <1>2, <2>1 DEF TotalsType
  <2>3. /\ ExpectedAt(inv, At("amount_due")) = e
        /\ ToldOfTotals(inv, At("amount_due")) = Off("BR-CO-16", At("amount_due"), e, a)
    BY <2>1 DEF ExpectedAt, ToldOfTotals
  <2> HIDE DEF e, At
  <2> QED
    BY <1>4, <2>1, <2>2, <2>3 DEF OfTotals
<1> QED
  BY <1>5, <1>6, <1>7, <1>8, <1>9, <1>10, <1>11

\* So is what the rules about number, type, dates and currency report.
LEMMA HeadersSayToTheField ==
    ASSUME NEW inv, IsInvoice(inv),
           NEW v \in UNION {br_02_invoice_number(inv), br_04_invoice_type_code(inv),
                            own_due_after_issue(inv), own_currency_known(inv)}
    PROVE  IsToTheField(inv, v)
<1>2. ASSUME NEW name \in {"number", "type_code", "currency"}, NEW rule,
             v = Missing(rule, <<name>>),
             ToldOfInvoice(inv, <<name>>) = Missing(rule, <<name>>)
      PROVE  IsToTheField(inv, v)
  <2>1. name \in OfInvoice /\ name \in AskedTexts \ {"due_date"}
    BY DEF OfInvoice, AskedTexts
  <2> DEFINE path == <<name>>
  <2>2. path \in Paths(inv) /\ Told(inv, path) = ToldOfInvoice(inv, path) /\ NameOf(path) = name
    BY <2>1, HeaderPath
  <2>3. v = Missing(rule, path) /\ ToldOfInvoice(inv, path) = Missing(rule, path)
    BY <1>2
  <2> HIDE DEF path
  <2> QED
    BY <2>1, <2>2, <2>3, MissingIsToTheField
<1>3. CASE v \in br_02_invoice_number(inv)
  BY <1>2, <1>3 DEF br_02_invoice_number, _missing, Missing, ToldOfInvoice
<1>4. CASE v \in br_04_invoice_type_code(inv)
  BY <1>2, <1>4 DEF br_04_invoice_type_code, _missing, Missing, ToldOfInvoice
<1>5. CASE v \in own_currency_known(inv)
  BY <1>2, <1>5 DEF own_currency_known, Missing, ToldOfInvoice
<1>6. CASE v \in own_due_after_issue(inv)
  <2> DEFINE path == <<"due_date">>
  <2>1. /\ inv.due_date # None /\ ~(inv.due_date >= inv.issue_date)
        /\ v = Violation("OWN-DUE-AFTER-ISSUE", path, <<inv.issue_date>>, <<inv.due_date>>)
    BY <1>6 DEF own_due_after_issue
  <2>2. inv.issue_date \in Int /\ inv.due_date # inv.issue_date
    BY <2>1, TotalsAreNumbers
  <2>3. /\ path \in Paths(inv) /\ Told(inv, path) = ToldOfInvoice(inv, path)
        /\ FieldAt(inv, path) = inv.due_date /\ path[1] = "due_date" /\ NameOf(path) = "due_date"
    BY HeaderPath DEF OfInvoice
  <2> HIDE DEF path
  <2>4. v.field = path /\ v.expected = <<inv.issue_date>> /\ v.actual = <<inv.due_date>>
    BY <2>1 DEF Violation
  <2>5. v.expected[1] \in Int /\ v.expected[1] # inv.due_date /\ v.expected # v.actual
    BY <2>2, <2>4
  <2>6. v.expected # Unknown
    BY <2>4 DEF Unknown
  <2> QED
    BY <2>1, <2>3, <2>4, <2>5, <2>6 DEF IsToTheField, ToldOfInvoice
<1> QED
  BY <1>3, <1>4, <1>5, <1>6

\* Whatever a report says, it says to the field.
LEMMA ReportsAreToTheField ==
    ASSUME NEW inv, IsInvoice(inv), NEW v \in check(inv)
    PROVE  IsToTheField(inv, v)
  BY LinesSayToTheField, EntriesSayToTheField, PartiesSayToTheField, TotalsSayToTheField,
     HeadersSayToTheField DEF check

-----------------------------------------------------------------------------
(* One violation per field; what is misread is still an invoice.           *)

\* No report contradicts itself.
LEMMA OneValuePerField ==
    ASSUME NEW inv, IsInvoice(inv)
    PROVE  /\ \A v, w \in check(inv) : v.field = w.field => v = w
           /\ \A v \in check(inv) : v.expected # Unknown =>
                 v.expected[1] # FieldAt(inv, v.field) /\ v.expected # v.actual
  BY ReportsAreToTheField DEF IsToTheField

\* A record with another value that suits its name is such a record.
LEMMA RecordWithValue ==
    ASSUME NEW r, NEW names, NEW parts, IsRecord(r, names, parts),
           NEW n \in names, NEW x, Suits(n, x)
    PROVE  /\ IsRecord([r EXCEPT ![n] = x], names, parts)
           /\ \A m \in parts \ names : [r EXCEPT ![n] = x][m] = r[m]
  BY DEF IsRecord

\* A record with another part.
LEMMA RecordWithPart ==
    ASSUME NEW r, NEW names, NEW parts, IsRecord(r, names, parts), NEW n \in parts \ names, NEW x
    PROVE  /\ IsRecord([r EXCEPT ![n] = x], names, parts)
           /\ \A m \in parts : [r EXCEPT ![n] = x][m] = IF m = n THEN x ELSE r[m]
  BY DEF IsRecord

\* A list with another record is such a list.
LEMMA ListWithRecord ==
    ASSUME NEW s, NEW names, IsList(s, names), NEW i \in 1..Len(s), NEW x, IsRecord(x, names, {})
    PROVE  IsList([s EXCEPT ![i] = x], names)
<1> DEFINE t == [s EXCEPT ![i] = x]
<1>1. t = [j \in 1..Len(s) |-> IF j = i THEN x ELSE s[j]]
  BY DEF IsList
<1> HIDE DEF t
<1>2. Len(t) = Len(s) /\ t = [j \in 1..Len(t) |-> t[j]]
  BY <1>1 DEF IsList
<1>3. \A j \in 1..Len(t) : IsRecord(t[j], names, {})
  BY <1>1, <1>2 DEF IsList
<1> QED
  BY <1>2, <1>3 DEF IsList, t

\* Setting a field to what suits it gives an invoice again.
LEMMA WithFieldIsInvoice ==
    ASSUME NEW inv, IsInvoice(inv), NEW path \in Paths(inv), NEW value, Suits(NameOf(path), value)
    PROVE  IsInvoice(WithField(inv, path, value))
<1> DEFINE Parts == Roles \cup {"lines", "vat_breakdown", "totals"}
           new == WithField(inv, path, value)
<1>1. IsRecord(inv, OfInvoice, Parts)
  BY DEF IsInvoice
<1>2. Parts \ OfInvoice = Parts
  BY DEF OfInvoice, Roles
<1>3. ASSUME NEW part \in Parts, NEW x,
             part \in Roles => /\ IsRecord(x, OfParty, {"address"})
                                /\ IsRecord(x.address, OfAddress, {}),
             part = "lines" => IsList(x, OfLine),
             part = "vat_breakdown" => IsList(x, OfEntry),
             part = "totals" => IsRecord(x, OfTotals, {})
      PROVE  IsInvoice([inv EXCEPT ![part] = x])
  <2> DEFINE with == [inv EXCEPT ![part] = x]
  <2>1. /\ IsRecord(with, OfInvoice, Parts)
        /\ \A m \in Parts : with[m] = IF m = part THEN x ELSE inv[m]
    BY <1>1, <1>2, RecordWithPart
  <2> HIDE DEF with
  <2>2. \A role \in Roles : with[role] = IF role = part THEN x ELSE inv[role]
    BY <2>1
  <2>3. /\ with.lines = IF part = "lines" THEN x ELSE inv.lines
        /\ with.vat_breakdown = IF part = "vat_breakdown" THEN x ELSE inv.vat_breakdown
        /\ with.totals = IF part = "totals" THEN x ELSE inv.totals
    BY <2>1
  <2>4. IsInvoice(with)
    BY <1>3, <2>1, <2>2, <2>3 DEF IsInvoice
  <2> QED
    BY <2>4 DEF with
<1>4. CASE \E name \in OfInvoice : path = <<name>>
  <2>1. PICK name \in OfInvoice : path = <<name>>
    BY <1>4
  <2>2. Len(path) = 1 /\ path[1] = name /\ Suits(name, value)
    BY <2>1 DEF NameOf
  <2>3. new = [inv EXCEPT ![name] = value]
    BY <2>2 DEF WithField
  <2> HIDE DEF new, Parts
  <2>4. IsRecord(new, OfInvoice, Parts) /\ \A m \in Parts \ OfInvoice : new[m] = inv[m]
    <3>1. Suits(name, value)
      BY <2>2
    <3>2. /\ IsRecord([inv EXCEPT ![name] = value], OfInvoice, Parts)
          /\ \A m \in Parts \ OfInvoice : [inv EXCEPT ![name] = value][m] = inv[m]
      BY ONLY <1>1, <3>1, name \in OfInvoice, RecordWithValue
    <3> QED
      BY <2>3, <3>2
  <2> USE DEF Parts
  <2>5. \A role \in Roles : new[role] = inv[role]
    BY <1>2, <2>4
  <2>6. new.lines = inv.lines /\ new.vat_breakdown = inv.vat_breakdown /\ new.totals = inv.totals
    BY <1>2, <2>4
  <2>7. IsInvoice(new)
    BY <2>4, <2>5, <2>6 DEF IsInvoice
  <2> QED
    BY <2>7 DEF new
<1>5. CASE \E role \in Roles, name \in OfParty : path = <<role, name>>
  <2>1. PICK role \in Roles, name \in OfParty : path = <<role, name>>
    BY <1>5
  <2>2. Len(path) = 2 /\ path[1] = role /\ path[2] = name /\ Suits(name, value)
    BY <2>1 DEF NameOf
  <2> DEFINE x == [inv[role] EXCEPT ![name] = value]
  <2>3. new = [inv EXCEPT ![role] = x]
    BY <1>1, <2>2 DEF WithField, IsRecord
  <2>4. IsRecord(x, OfParty, {"address"}) /\ x.address = inv[role].address
    <3>1. IsRecord(inv[role], OfParty, {"address"}) /\ {"address"} \ OfParty = {"address"}
      BY DEF IsInvoice, OfParty
    <3> QED
      BY <2>2, <3>1, RecordWithValue
  <2> HIDE DEF x
  <2>5. IsRecord(x.address, OfAddress, {})
    BY <2>4 DEF IsInvoice
  <2>6. IsInvoice([inv EXCEPT ![role] = x])
    BY <1>3, <2>4, <2>5 DEF Roles
  <2> QED
    BY <2>3, <2>6
<1>6. CASE \E role \in Roles, name \in OfAddress : path = <<role, "address", name>>
  <2>1. PICK role \in Roles, name \in OfAddress : path = <<role, "address", name>>
    BY <1>6
  <2>2. Len(path) = 3 /\ path[1] = role /\ path[2] = "address" /\ path[3] = name
        /\ Suits(name, value)
    BY <2>1 DEF NameOf
  <2> DEFINE a == [inv[role].address EXCEPT ![name] = value]
             x == [inv[role] EXCEPT !["address"] = a]
  <2>3. IsRecord(inv[role], OfParty, {"address"}) /\ {"address"} \ OfParty = {"address"}
    BY DEF IsInvoice, OfParty
  <2>4. new = [inv EXCEPT ![role] = x]
    BY <1>1, <2>2, <2>3 DEF WithField, IsRecord
  <2>5. IsRecord(a, OfAddress, {})
    BY <2>2, RecordWithValue DEF IsInvoice
  <2> HIDE DEF a
  <2>6. IsRecord(x, OfParty, {"address"}) /\ x.address = a
    <3>1. "address" \in {"address"} \ OfParty
      BY <2>3
    <3> QED
      BY <2>3, <3>1, RecordWithPart
  <2> HIDE DEF x
  <2>7. IsInvoice([inv EXCEPT ![role] = x])
    BY <1>3, <2>5, <2>6 DEF Roles
  <2> QED
    BY <2>4, <2>7
<1>7. CASE \E i \in LineIndices(inv), name \in OfLine : path = <<"lines", i, name>>
  <2>1. PICK i \in LineIndices(inv), name \in OfLine : path = <<"lines", i, name>>
    BY <1>7
  <2>2. Len(path) = 3 /\ path[1] = "lines" /\ path[2] = i /\ path[3] = name /\ Suits(name, value)
    BY <2>1 DEF NameOf
  <2> DEFINE line == [inv.lines[i] EXCEPT ![name] = value]
             x == [inv.lines EXCEPT ![i] = line]
  <2>3. IsList(inv.lines, OfLine) /\ i \in 1..Len(inv.lines)
    BY DEF IsInvoice, LineIndices
  <2>4. new = [inv EXCEPT !["lines"] = x]
    BY <1>1, <2>2, <2>3 DEF WithField, IsRecord, IsList
  <2>5. IsRecord(line, OfLine, {})
    BY <2>2, <2>3, RecordWithValue DEF IsList
  <2> HIDE DEF line
  <2>6. IsList(x, OfLine)
    BY <2>3, <2>5, ListWithRecord
  <2> HIDE DEF x
  <2>7. IsInvoice([inv EXCEPT !["lines"] = x])
    BY <1>3, <2>6 DEF Roles
  <2> QED
    BY <2>4, <2>7
<1>8. CASE \E k \in Entries(inv), name \in OfEntry : path = <<"vat_breakdown", k, name>>
  <2>1. PICK k \in Entries(inv), name \in OfEntry : path = <<"vat_breakdown", k, name>>
    BY <1>8
  <2>2. Len(path) = 3 /\ path[1] = "vat_breakdown" /\ path[2] = k /\ path[3] = name
        /\ Suits(name, value)
    BY <2>1 DEF NameOf
  <2> DEFINE entry == [inv.vat_breakdown[k] EXCEPT ![name] = value]
             x == [inv.vat_breakdown EXCEPT ![k] = entry]
  <2>3. IsList(inv.vat_breakdown, OfEntry) /\ k \in 1..Len(inv.vat_breakdown)
    BY DEF IsInvoice, Entries
  <2>4. new = [inv EXCEPT !["vat_breakdown"] = x]
    BY <1>1, <2>2, <2>3 DEF WithField, IsRecord, IsList
  <2>5. IsRecord(entry, OfEntry, {})
    BY <2>2, <2>3, RecordWithValue DEF IsList
  <2> HIDE DEF entry
  <2>6. IsList(x, OfEntry)
    BY <2>3, <2>5, ListWithRecord
  <2> HIDE DEF x
  <2>7. IsInvoice([inv EXCEPT !["vat_breakdown"] = x])
    BY <1>3, <2>6 DEF Roles
  <2> QED
    BY <2>4, <2>7
<1>9. CASE \E name \in OfTotals : path = <<"totals", name>>
  <2>1. PICK name \in OfTotals : path = <<"totals", name>>
    BY <1>9
  <2>2. Len(path) = 2 /\ path[1] = "totals" /\ path[2] = name /\ Suits(name, value)
    BY <2>1 DEF NameOf
  <2> DEFINE x == [inv.totals EXCEPT ![name] = value]
  <2>3. new = [inv EXCEPT !["totals"] = x]
    BY <1>1, <2>2 DEF WithField, IsRecord
  <2>4. IsRecord(x, OfTotals, {})
    BY <2>2, RecordWithValue DEF IsInvoice
  <2> HIDE DEF x
  <2>5. IsInvoice([inv EXCEPT !["totals"] = x])
    BY <1>3, <2>4 DEF Roles
  <2> QED
    BY <2>3, <2>5
<1> QED
  BY <1>4, <1>5, <1>6, <1>7, <1>8, <1>9 DEF Paths

-----------------------------------------------------------------------------
(* What following a report leaves in each field.                           *)

\* What is in a field once the report is worked through.
Asked(inv, path) == \E v \in check(inv) : v.field = path
After(inv, path, entered) ==
    IF Asked(inv, path) THEN Correction(Told(inv, path), entered) ELSE FieldAt(inv, path)

\* What a correction leaves in a field does not depend on who picks the violation:
\* a field has one at most.
LEMMA CorrectedAtIsAfter ==
    ASSUME NEW inv, IsInvoice(inv), NEW path \in Paths(inv), NEW entered
    PROVE  CorrectedAt(check(inv), path, FieldAt(inv, path), entered) = After(inv, path, entered)
<1> DEFINE about == {v \in check(inv) : v.field = path}
<1>1. about = {} <=> ~Asked(inv, path)
  BY DEF Asked
<1>2. \A v \in about : v = Told(inv, path)
  BY ReportsAreToTheField DEF IsToTheField
<1>3. about # {} => (CHOOSE v \in about : TRUE) = Told(inv, path)
  BY <1>2
<1>4. CorrectedAt(check(inv), path, FieldAt(inv, path), entered)
        = IF about = {} THEN FieldAt(inv, path) ELSE Correction(CHOOSE v \in about : TRUE, entered)
  BY DEF CorrectedAt
<1> HIDE DEF about
<1> QED
  BY <1>1, <1>3, <1>4 DEF After

\* What is not a field is not corrected.
LEMMA NothingElseIsCorrected ==
    ASSUME NEW inv, IsInvoice(inv), NEW path, path \notin Paths(inv), NEW value, NEW entered
    PROVE  CorrectedAt(check(inv), path, value, entered) = value
<1>1. {v \in check(inv) : v.field = path} = {}
  BY ReportsAreToTheField DEF IsToTheField
<1> QED
  BY <1>1 DEF CorrectedAt

\* What a report asks for, or a person enters, is of the field's type.
LEMMA CorrectionSuits ==
    ASSUME NEW inv, IsInvoice(inv), NEW path, Asked(inv, path), NEW entered \in Int
    PROVE  Suits(NameOf(path), Correction(Told(inv, path), entered))
<1>1. PICK v \in check(inv) : v.field = path
  BY DEF Asked
<1>2. IsToTheField(inv, v) /\ v = Told(inv, path)
  BY <1>1, ReportsAreToTheField DEF IsToTheField
<1>3. CASE v.expected = Unknown
  <2>1. NameOf(path) \notin {"issue_date", "due_date", "rate", "vat_rate"}
    <3>1. <<money(ExpectedAt(inv, path))>> # Unknown
      BY DEF Unknown
    <3> QED
      BY <1>1, <1>2, <1>3, <3>1 DEF IsToTheField, AskedTexts, AskedAmounts, OfTotals
  <2>2. Correction(v, entered) = IF NameOf(path) \in AmountNames THEN entered ELSE "good"
    BY <1>1, <1>3 DEF Correction
  <2>3. NeverMissing \cup MayBeMissing \subseteq AmountNames
          \cup {"issue_date", "due_date", "rate", "vat_rate"}
    BY DEF NeverMissing, MayBeMissing, AmountNames, OfTotals
  <2> QED
    BY <1>2, <2>1, <2>2, <2>3 DEF Suits
<1>4. CASE v.expected # Unknown
  <2>1. Correction(v, entered) \in Int
    BY <1>2, <1>4 DEF IsToTheField, Correction
  <2> QED
    BY <1>2, <2>1 DEF Suits
<1> QED
  BY <1>3, <1>4

\* A record corrected value by value, at a path that ends in each value's name.
CorrectedRecord(inv, r, parent, entered) ==
    [name \in DOMAIN r |-> CorrectedAt(check(inv), Append(parent, name), r[name], entered)]

\* A record, corrected, is a record, and says After in every field.
LEMMA CorrectedRecordIsRecord ==
    ASSUME NEW inv, IsInvoice(inv), NEW entered \in Int,
           NEW r, NEW names, NEW parts, IsRecord(r, names, parts), names \cap parts = {},
           NEW E, NEW parent \in Seq(E), names \subseteq E,
           \A n \in names : /\ Append(parent, n) \in Paths(inv)
                            /\ FieldAt(inv, Append(parent, n)) = r[n],
           \A n \in parts : Append(parent, n) \notin Paths(inv)
    PROVE  /\ IsRecord(CorrectedRecord(inv, r, parent, entered), names, parts)
           /\ \A n \in names : CorrectedRecord(inv, r, parent, entered)[n]
                                 = After(inv, Append(parent, n), entered)
           /\ \A n \in parts : CorrectedRecord(inv, r, parent, entered)[n] = r[n]
<1> DEFINE new == CorrectedRecord(inv, r, parent, entered)
<1>1. new = [n \in names \cup parts |-> CorrectedAt(check(inv), Append(parent, n), r[n], entered)]
  BY DEF CorrectedRecord, IsRecord
<1> HIDE DEF new
<1>2. ASSUME NEW n \in names
      PROVE  new[n] = After(inv, Append(parent, n), entered) /\ Suits(n, new[n])
  <2> DEFINE path == Append(parent, n)
  <2>1. NameOf(path) = n
    BY DEF NameOf
  <2>2. path \in Paths(inv) /\ FieldAt(inv, path) = r[n]
    OBVIOUS
  <2>3. new[n] = CorrectedAt(check(inv), path, r[n], entered)
    BY <1>1
  <2> HIDE DEF path
  <2>4. new[n] = After(inv, path, entered)
    BY <2>2, <2>3, CorrectedAtIsAfter
  <2>5. Suits(n, new[n])
    BY <2>1, <2>2, <2>4, CorrectionSuits DEF After, IsRecord
  <2> QED
    BY <2>4, <2>5 DEF path
<1>3. ASSUME NEW n \in parts PROVE new[n] = r[n]
  <2> DEFINE path == Append(parent, n)
  <2>1. new[n] = CorrectedAt(check(inv), path, r[n], entered) /\ path \notin Paths(inv)
    BY <1>1
  <2> HIDE DEF path
  <2> QED
    BY <2>1, NothingElseIsCorrected
<1>4. new = [n \in names \cup parts |-> new[n]]
  BY <1>1
<1> QED
  BY <1>2, <1>3, <1>4 DEF IsRecord, new

\* A corrected invoice is an invoice, with what After says in every field.
LEMMA CorrectedShape ==
    ASSUME NEW inv, IsInvoice(inv), NEW entered
    PROVE  LET new == Corrected(inv, check(inv), entered)
           IN  /\ DOMAIN new = OfInvoice \cup Roles \cup {"lines", "vat_breakdown", "totals"}
               /\ new = [name \in DOMAIN new |-> new[name]]
               /\ \A name \in OfInvoice :
                     new[name] = CorrectedAt(check(inv), <<name>>, inv[name], entered)
               /\ \A role \in Roles : new[role] = CorrectedRecord(inv, inv[role], <<role>>, entered)
               /\ new.totals = CorrectedRecord(inv, inv.totals, <<"totals">>, entered)
<1> DEFINE new == Corrected(inv, check(inv), entered)
           all(r, parent) == CorrectedRecord(inv, r, parent, entered)
           at(name) == CASE name \in Roles \cup {"totals"} -> all(inv[name], <<name>>)
                         [] name \in {"lines", "vat_breakdown"} ->
                              [i \in 1..Len(inv[name]) |-> all(inv[name][i], <<name, i>>)]
                         [] OTHER -> CorrectedAt(check(inv), <<name>>, inv[name], entered)
<1>1. DOMAIN inv = OfInvoice \cup Roles \cup {"lines", "vat_breakdown", "totals"}
  BY DEF IsInvoice, IsRecord
<1>2. new = [name \in DOMAIN inv |-> at(name)]
  BY DEF Corrected, CorrectedRecord
<1>3. /\ \A name \in OfInvoice : at(name) = CorrectedAt(check(inv), <<name>>, inv[name], entered)
      /\ \A role \in Roles : at(role) = all(inv[role], <<role>>)
      /\ at("totals") = all(inv["totals"], <<"totals">>)
  BY DEF OfInvoice, Roles
<1> HIDE DEF at, new
<1>4. \A name \in DOMAIN inv : new[name] = at(name)
  BY <1>2
<1>5. DOMAIN new = DOMAIN inv /\ new = [name \in DOMAIN new |-> new[name]]
  BY <1>2
<1> QED
  BY <1>1, <1>3, <1>4, <1>5 DEF new

\* The invoice's own values, corrected.
LEMMA CorrectedHeader ==
    ASSUME NEW inv, IsInvoice(inv), NEW entered \in Int
    PROVE  LET new == Corrected(inv, check(inv), entered)
           IN  /\ IsRecord(new, OfInvoice, Roles \cup {"lines", "vat_breakdown", "totals"})
               /\ \A name \in OfInvoice : new[name] = After(inv, <<name>>, entered)
<1> DEFINE new == Corrected(inv, check(inv), entered)
<1>0. \A name \in OfInvoice : new[name] = CorrectedAt(check(inv), <<name>>, inv[name], entered)
  BY CorrectedShape
<1>1. ASSUME NEW name \in OfInvoice
      PROVE  new[name] = After(inv, <<name>>, entered) /\ Suits(name, new[name])
  <2> DEFINE path == <<name>>
  <2>1. path \in Paths(inv)
    BY DEF Paths
  <2>2. FieldAt(inv, path) = inv[name] /\ NameOf(path) = name
    BY PathOfOne
  <2>3. new[name] = CorrectedAt(check(inv), path, inv[name], entered)
    BY <1>0
  <2>4. Suits(name, inv[name])
    BY DEF IsInvoice, IsRecord
  <2> HIDE DEF path, new
  <2>5. new[name] = After(inv, path, entered)
    BY <2>1, <2>2, <2>3, CorrectedAtIsAfter
  <2>6. Suits(name, new[name])
    BY <2>2, <2>4, <2>5, CorrectionSuits DEF After
  <2> QED
    BY <2>5, <2>6 DEF path
<1>2. /\ DOMAIN new = OfInvoice \cup (Roles \cup {"lines", "vat_breakdown", "totals"})
      /\ new = [name \in DOMAIN new |-> new[name]]
  BY CorrectedShape
<1> HIDE DEF new
<1> QED
  BY <1>1, <1>2 DEF IsRecord, new

\* The seller's or the buyer's values, corrected; the address stays, no rule asks for it.
LEMMA CorrectedParty ==
    ASSUME NEW inv, IsInvoice(inv), NEW entered \in Int, NEW role \in Roles
    PROVE  LET party == Corrected(inv, check(inv), entered)[role]
           IN  /\ IsRecord(party, OfParty, {"address"}) /\ party.address = inv[role].address
               /\ \A name \in OfParty : party[name] = After(inv, <<role, name>>, entered)
<1>0. \A r \in Roles :
         Corrected(inv, check(inv), entered)[r] = CorrectedRecord(inv, inv[r], <<r>>, entered)
  BY CorrectedShape
<1> DEFINE parent == <<role>>
<1>1. Corrected(inv, check(inv), entered)[role] = CorrectedRecord(inv, inv[role], parent, entered)
  BY <1>0
<1> DEFINE E == {role} \cup OfParty
<1>2. parent \in Seq(E) /\ OfParty \subseteq E /\ OfParty \cap {"address"} = {}
  BY DEF OfParty
<1> HIDE DEF E
<1>3. ASSUME NEW name \in OfParty \cup {"address"}
      PROVE  /\ Append(parent, name) = <<role, name>>
             /\ FieldAt(inv, <<role, name>>) = inv[role][name]
  BY PathOfTwo
<1>4. \A name \in OfParty : Append(parent, name) \in Paths(inv)
  <2> SUFFICES ASSUME NEW name \in OfParty PROVE <<role, name>> \in Paths(inv)
    BY <1>3
  <2>1. <<role, name>> \in {<<r, n>> : r \in Roles, n \in OfParty}
    OBVIOUS
  <2> QED
    BY <2>1 DEF Paths
<1>5. Append(parent, "address") \notin Paths(inv)
  <2> DEFINE path == <<role, "address">>
  <2>1. Append(parent, "address") = path
    BY <1>3
  <2>2. Len(path) = 2 /\ path[1] = role /\ path[2] = "address"
    OBVIOUS
  <2> HIDE DEF path
  <2>3. ASSUME path \in Paths(inv) PROVE FALSE
    <3>1. CASE path \in {<<r, n>> : r \in Roles, n \in OfParty}
      BY <2>2, <3>1 DEF OfParty
    <3>2. CASE path \in {<<"totals", n>> : n \in OfTotals}
      BY <2>2, <3>2 DEF Roles
    <3>3. CASE Len(path) = 1 \/ Len(path) = 3
      BY <2>2, <3>3
    <3> QED
      BY <2>3, <3>1, <3>2, <3>3 DEF Paths
  <2> QED
    BY <2>1, <2>3
<1>6. IsRecord(inv[role], OfParty, {"address"})
  BY DEF IsInvoice
<1> HIDE DEF parent
<1>7. /\ IsRecord(CorrectedRecord(inv, inv[role], parent, entered), OfParty, {"address"})
      /\ \A name \in OfParty : CorrectedRecord(inv, inv[role], parent, entered)[name]
                                 = After(inv, Append(parent, name), entered)
      /\ CorrectedRecord(inv, inv[role], parent, entered)["address"] = inv[role]["address"]
  <2>1. \A name \in OfParty : FieldAt(inv, Append(parent, name)) = inv[role][name]
    BY <1>3
  <2>2. \A name \in {"address"} : Append(parent, name) \notin Paths(inv)
    BY <1>5
  <2> QED
    BY <1>2, <1>4, <1>6, <2>1, <2>2, CorrectedRecordIsRecord
<1> QED
  BY <1>1, <1>3, <1>7

\* The totals, corrected.
LEMMA CorrectedTotals ==
    ASSUME NEW inv, IsInvoice(inv), NEW entered \in Int
    PROVE  LET totals == Corrected(inv, check(inv), entered).totals
           IN  /\ IsRecord(totals, OfTotals, {})
               /\ \A name \in OfTotals : totals[name] = After(inv, <<"totals", name>>, entered)
<1> DEFINE parent == <<"totals">>
<1>1. Corrected(inv, check(inv), entered).totals = CorrectedRecord(inv, inv.totals, parent, entered)
  BY CorrectedShape
<1> DEFINE E == {"totals"} \cup OfTotals
<1>2. parent \in Seq(E) /\ OfTotals \subseteq E
  OBVIOUS
<1> HIDE DEF E
<1>3. ASSUME NEW name \in OfTotals
      PROVE  /\ Append(parent, name) = <<"totals", name>>
             /\ FieldAt(inv, <<"totals", name>>) = inv.totals[name]
  BY PathOfTwo
<1>4. \A name \in OfTotals : Append(parent, name) \in Paths(inv)
  <2> SUFFICES ASSUME NEW name \in OfTotals PROVE <<"totals", name>> \in Paths(inv)
    BY <1>3
  <2>1. <<"totals", name>> \in {<<"totals", n>> : n \in OfTotals}
    OBVIOUS
  <2> QED
    BY <2>1 DEF Paths
<1>5. IsRecord(inv.totals, OfTotals, {})
  BY DEF IsInvoice
<1> HIDE DEF parent
<1>6. \A name \in OfTotals : FieldAt(inv, Append(parent, name)) = inv.totals[name]
  BY <1>3
<1>7. /\ IsRecord(CorrectedRecord(inv, inv.totals, parent, entered), OfTotals, {})
      /\ \A name \in OfTotals : CorrectedRecord(inv, inv.totals, parent, entered)[name]
                                 = After(inv, Append(parent, name), entered)
  BY <1>2, <1>4, <1>5, <1>6, CorrectedRecordIsRecord
<1> QED
  BY <1>1, <1>3, <1>7

\* The lines and the entries, each a list of records.
LEMMA CorrectedList ==
    ASSUME NEW inv, IsInvoice(inv), NEW entered \in Int, NEW names,
           NEW list \in {"lines", "vat_breakdown"}, IsList(inv[list], names),
           \A i \in 1..Len(inv[list]), n \in names : <<list, i, n>> \in Paths(inv)
    PROVE  /\ IsList(Corrected(inv, check(inv), entered)[list], names)
           /\ Len(Corrected(inv, check(inv), entered)[list]) = Len(inv[list])
           /\ \A i \in 1..Len(inv[list]), n \in names :
                 Corrected(inv, check(inv), entered)[list][i][n]
                   = After(inv, <<list, i, n>>, entered)
<1> DEFINE s == inv[list]
           new == [i \in 1..Len(s) |-> CorrectedRecord(inv, s[i], <<list, i>>, entered)]
<1>0. Corrected(inv, check(inv), entered)[list] = new
  <2>1. list \in DOMAIN inv /\ list \notin Roles \cup {"totals"}
    BY DEF IsInvoice, IsRecord, Roles
  <2> QED
    BY <2>1 DEF Corrected, CorrectedRecord
<1>1. Len(new) = Len(s) /\ Len(s) \in Nat \ {0}
  BY DEF IsList
<1>2. ASSUME NEW i \in 1..Len(s)
      PROVE  /\ IsRecord(CorrectedRecord(inv, s[i], <<list, i>>, entered), names, {})
             /\ \A n \in names : CorrectedRecord(inv, s[i], <<list, i>>, entered)[n]
                                    = After(inv, <<list, i, n>>, entered)
  <2> DEFINE parent == <<list, i>>
             E == {list, i} \cup names
             r == s[i]
  <2>1. parent \in Seq(E) /\ names \subseteq E
    OBVIOUS
  <2>2. ASSUME NEW n \in names
        PROVE  /\ Append(parent, n) = <<list, i, n>> /\ Append(parent, n) \in Paths(inv)
               /\ FieldAt(inv, Append(parent, n)) = r[n]
    <3>1. Append(<<list, i>>, n) = <<list, i, n>> /\ FieldAt(inv, <<list, i, n>>) = inv[list][i][n]
      BY PathOfThree
    <3> QED
      BY <3>1
  <2>3. IsRecord(r, names, {})
    BY DEF IsList
  <2> HIDE DEF parent, E, r
  <2>4. /\ IsRecord(CorrectedRecord(inv, r, parent, entered), names, {})
        /\ \A n \in names : CorrectedRecord(inv, r, parent, entered)[n]
                                  = After(inv, Append(parent, n), entered)
    BY <2>1, <2>2, <2>3, CorrectedRecordIsRecord
  <2> QED
    BY <2>2, <2>4 DEF parent, r
<1>3. \A i \in 1..Len(s) : new[i] = CorrectedRecord(inv, s[i], <<list, i>>, entered)
  OBVIOUS
<1>4. new = [i \in 1..Len(s) |-> new[i]]
  OBVIOUS
<1> HIDE DEF new
<1>5. /\ IsList(new, names)
      /\ \A i \in 1..Len(s), n \in names : new[i][n] = After(inv, <<list, i, n>>, entered)
  BY <1>1, <1>2, <1>3, <1>4 DEF IsList
<1> QED
  BY <1>0, <1>1, <1>5

\* The lines and the breakdown entries, corrected.
LEMMA CorrectedLists ==
    ASSUME NEW inv, IsInvoice(inv), NEW entered \in Int
    PROVE  LET new == Corrected(inv, check(inv), entered)
           IN  /\ IsList(new.lines, OfLine) /\ Len(new.lines) = Len(inv.lines)
               /\ \A i \in LineIndices(inv), n \in OfLine :
                     new.lines[i][n] = After(inv, <<"lines", i, n>>, entered)
               /\ IsList(new.vat_breakdown, OfEntry)
               /\ Len(new.vat_breakdown) = Len(inv.vat_breakdown)
               /\ \A k \in Entries(inv), n \in OfEntry :
                     new.vat_breakdown[k][n] = After(inv, <<"vat_breakdown", k, n>>, entered)
<1> DEFINE new == Corrected(inv, check(inv), entered)
<1>1. \A i \in 1..Len(inv.lines), n \in OfLine : <<"lines", i, n>> \in Paths(inv)
  <2> SUFFICES ASSUME NEW i \in 1..Len(inv.lines), NEW n \in OfLine
               PROVE  <<"lines", i, n>> \in Paths(inv)
    OBVIOUS
  <2>1. <<"lines", i, n>> \in {<<"lines", j, m>> : j \in LineIndices(inv), m \in OfLine}
    BY DEF LineIndices
  <2> QED
    BY <2>1 DEF Paths
<1>2. \A i \in 1..Len(inv.vat_breakdown), n \in OfEntry : <<"vat_breakdown", i, n>> \in Paths(inv)
  <2> SUFFICES ASSUME NEW i \in 1..Len(inv.vat_breakdown), NEW n \in OfEntry
               PROVE <<"vat_breakdown", i, n>> \in Paths(inv)
    OBVIOUS
  <2>1. <<"vat_breakdown", i, n>>
          \in {<<"vat_breakdown", j, m>> : j \in Entries(inv), m \in OfEntry}
    BY DEF Entries
  <2> QED
    BY <2>1 DEF Paths
<1>3. IsList(inv.lines, OfLine) /\ IsList(inv.vat_breakdown, OfEntry)
  BY DEF IsInvoice
<1>5. /\ IsList(new.lines, OfLine) /\ Len(new.lines) = Len(inv.lines)
      /\ \A i \in LineIndices(inv), n \in OfLine :
            new.lines[i][n] = After(inv, <<"lines", i, n>>, entered)
  BY <1>1, <1>3, CorrectedList DEF LineIndices
<1>6. /\ IsList(new.vat_breakdown, OfEntry) /\ Len(new.vat_breakdown) = Len(inv.vat_breakdown)
      /\ \A k \in Entries(inv), n \in OfEntry :
            new.vat_breakdown[k][n] = After(inv, <<"vat_breakdown", k, n>>, entered)
  BY <1>2, <1>3, CorrectedList DEF Entries
<1> QED
  BY <1>5, <1>6

\* An invoice, corrected, is an invoice the schema lets in.
LEMMA CorrectedIsInvoice ==
    ASSUME NEW inv, IsInvoice(inv), NEW entered \in Int
    PROVE  IsInvoice(Corrected(inv, check(inv), entered))
<1> DEFINE new == Corrected(inv, check(inv), entered)
<1>1. IsRecord(new, OfInvoice, Roles \cup {"lines", "vat_breakdown", "totals"})
  BY CorrectedHeader
<1>2. IsRecord(new.totals, OfTotals, {})
  BY CorrectedTotals
<1>3. IsList(new.lines, OfLine) /\ IsList(new.vat_breakdown, OfEntry)
  BY CorrectedLists
<1>4. \A role \in Roles : IsRecord(new[role], OfParty, {"address"})
                            /\ new[role].address = inv[role].address
  BY CorrectedParty
<1> HIDE DEF new
<1>5. \A role \in Roles : IsRecord(inv[role].address, OfAddress, {})
  BY DEF IsInvoice
<1>6. IsInvoice(new)
  BY <1>1, <1>2, <1>3, <1>4, <1>5 DEF IsInvoice
<1> QED
  BY <1>6 DEF new

\* What a correction does to one amount, and to what is never asked for.
LEMMA AmountAfter ==
    ASSUME NEW inv, IsInvoice(inv), NEW entered \in Int, NEW path, NameOf(path) \in AskedAmounts
    PROVE  /\ Asked(inv, path) /\ FieldAt(inv, path) # None =>
                 /\ After(inv, path, entered) = money(ExpectedAt(inv, path))
                 /\ After(inv, path, entered) \in Int
                 /\ Abs(FieldAt(inv, path) - ExpectedAt(inv, path)) > TOLERANCE
           /\ Asked(inv, path) /\ FieldAt(inv, path) = None => After(inv, path, entered) = entered
<1>1. SUFFICES ASSUME Asked(inv, path)
               PROVE  IF FieldAt(inv, path) = None THEN After(inv, path, entered) = entered
                      ELSE /\ After(inv, path, entered) = money(ExpectedAt(inv, path))
                           /\ After(inv, path, entered) \in Int
                           /\ Abs(FieldAt(inv, path) - ExpectedAt(inv, path)) > TOLERANCE
  OBVIOUS
<1>2. PICK v \in check(inv) : v.field = path
  BY <1>1 DEF Asked
<1>3. IsToTheField(inv, v) /\ v = Told(inv, path)
  BY <1>2, ReportsAreToTheField DEF IsToTheField
<1>4. After(inv, path, entered) = Correction(v, entered)
  BY <1>1, <1>3 DEF After
<1>5. NameOf(path) \in AmountNames \ AskedTexts
  BY DEF AskedAmounts, AskedTexts, AmountNames, OfTotals
<1>6. CASE v.expected = Unknown /\ FieldAt(inv, path) = None
  BY <1>2, <1>4, <1>5, <1>6 DEF Correction
<1>7. CASE /\ v.expected = <<money(ExpectedAt(inv, path))>> /\ v.expected[1] \in Int
           /\ FieldAt(inv, path) \in Int
           /\ Abs(FieldAt(inv, path) - ExpectedAt(inv, path)) > TOLERANCE
  <2>1. v.expected # Unknown /\ v.expected[1] = money(ExpectedAt(inv, path))
    BY <1>7 DEF Unknown
  <2>2. After(inv, path, entered) = v.expected[1]
    BY <1>4, <2>1 DEF Correction
  <2> QED
    BY <1>7, <2>1, <2>2, CheckingAssumption
<1>8. NameOf(path) # "due_date"
  BY <1>5 DEF AskedTexts
<1> QED
  BY <1>2, <1>3, <1>5, <1>6, <1>7, <1>8 DEF IsToTheField

\* What no rule asks for stays.
LEMMA NotAskedFor ==
    ASSUME NEW inv, IsInvoice(inv), NEW path, NameOf(path) \notin AskedTexts \cup AskedAmounts,
           NEW entered
    PROVE  After(inv, path, entered) = FieldAt(inv, path)
<1>1. ~Asked(inv, path)
  BY ReportsAreToTheField DEF Asked, IsToTheField, AskedTexts
<1> QED
  BY <1>1 DEF After

\* An amount that is close to what it is compared with stays.
LEMMA CloseStays ==
    ASSUME NEW inv, IsInvoice(inv), NEW entered \in Int, NEW path, NameOf(path) \in AskedAmounts,
           FieldAt(inv, path) # None, Abs(FieldAt(inv, path) - ExpectedAt(inv, path)) <= TOLERANCE,
           FieldAt(inv, path) \in Int, ExpectedAt(inv, path) \in Int
    PROVE  After(inv, path, entered) = FieldAt(inv, path)
<1>1. ~Asked(inv, path)
  <2>1. TOLERANCE \in Int /\ Abs(FieldAt(inv, path) - ExpectedAt(inv, path)) \in Int
    BY ValidationAssumption DEF TOLERANCE, Abs
  <2> QED
    BY <2>1, AmountAfter
<1> QED
  BY <1>1 DEF After

\* An amount a rule compares is close to what it is compared with once it is corrected.
LEMMA CloseAfter ==
    ASSUME NEW inv, IsInvoice(inv), NEW entered \in Int, NEW path, NameOf(path) \in AskedAmounts,
           NEW a \in Int, NEW e \in Int, FieldAt(inv, path) = a, ExpectedAt(inv, path) = e,
           NEW rule, _agrees(a, e, rule, path) \subseteq check(inv)
    PROVE  After(inv, path, entered) \in Int /\ Abs(After(inv, path, entered) - e) <= TOLERANCE
<1> USE ValidationAssumption
<1>1. a # None
  BY CheckingAssumption
<1>2. CASE Asked(inv, path)
  <2>1. After(inv, path, entered) = money(e)
    BY <1>1, <1>2, AmountAfter
  <2> QED
    BY <2>1, MoneyIsNearest DEF Abs, TOLERANCE
<1>3. CASE ~Asked(inv, path)
  <2>1. After(inv, path, entered) = a
    BY <1>3 DEF After
  <2>2. _agrees(a, e, rule, path) = {}
    <3> SUFFICES ASSUME NEW v \in _agrees(a, e, rule, path) PROVE FALSE
      OBVIOUS
    <3>1. v.field = path
      BY DEF _agrees, Violation
    <3> QED
      BY <1>3, <3>1 DEF Asked
  <2> QED
    BY <2>1, <2>2, AgreesMeansClose
<1> QED
  BY <1>2, <1>3

\* What is not there is entered.
LEMMA ThereAfter ==
    ASSUME NEW inv, IsInvoice(inv), NEW entered \in Int, NEW path, NameOf(path) \in AskedAmounts,
           FieldAt(inv, path) \in Int \cup {None},
           NEW rule, _missing(FieldAt(inv, path) = None, rule, path) \subseteq check(inv)
    PROVE  After(inv, path, entered) \in Int
<1>1. CASE Asked(inv, path)
  BY <1>1, AmountAfter
<1>2. CASE ~Asked(inv, path)
  <2>1. ASSUME FieldAt(inv, path) = None PROVE FALSE
    <3>1. Violation(rule, path, Unknown, Unknown) \in check(inv)
      BY <2>1 DEF _missing
    <3> QED
      BY <1>2, <3>1 DEF Asked, Violation
  <2> QED
    BY <1>2, <2>1 DEF After
<1> QED
  BY <1>1, <1>2

-----------------------------------------------------------------------------
(* What is right after a correction: texts and presence at once, amounts when *)
(* what they are compared with is right.                                   *)

\* What a corrected invoice has got right, whatever it had before: its texts and dates.
TextsRight(inv) ==
    /\ ~_empty(inv.number) /\ ~_empty(inv.type_code) /\ inv.currency = "good"
    /\ inv.due_date = None \/ inv.due_date >= inv.issue_date
    /\ \A role \in Roles :
          /\ ~_empty(inv[role].name)
          /\ inv[role].endpoint_id = None \/ ~_empty(inv[role].endpoint_scheme_id)
          /\ inv[role].vat_id \notin {"blank", "no_prefix", "misshaped"}
    /\ \A i \in LineIndices(inv) : ~_empty(inv.lines[i].quantity_unit_code)

\* And no amount a rule needs is missing.
AllThere(inv) ==
    /\ EveryNetIsThere(inv)
    /\ inv.totals.net_total # None /\ inv.totals.amount_due # None

\* A text is left as it was, or entered.
LEMMA TextAfter ==
    ASSUME NEW inv, IsInvoice(inv), NEW entered \in Int, NEW path,
           NameOf(path) \in AskedTexts \ {"due_date"}
    PROVE  /\ Asked(inv, path) => After(inv, path, entered) = "good"
           /\ ~Asked(inv, path) => After(inv, path, entered) = FieldAt(inv, path)
<1>1. ASSUME Asked(inv, path) PROVE After(inv, path, entered) = "good"
  <2>1. PICK v \in check(inv) : v.field = path
    BY <1>1 DEF Asked
  <2>2. IsToTheField(inv, v) /\ v = Told(inv, path)
    BY <2>1, ReportsAreToTheField DEF IsToTheField
  <2>3. NameOf(path) \notin AskedAmounts /\ NameOf(path) \notin AmountNames
    BY DEF AskedTexts, AskedAmounts, AmountNames, OfTotals
  <2>4. v.expected = Unknown
    BY <2>1, <2>2, <2>3 DEF IsToTheField
  <2> QED
    BY <1>1, <2>1, <2>2, <2>3, <2>4 DEF After, Correction
<1> QED
  BY <1>1 DEF After

\* What a rule misses is asked for.
LEMMA AskedIfMissing ==
    ASSUME NEW inv, NEW absent \in BOOLEAN, NEW rule, NEW path,
           _missing(absent, rule, path) \subseteq check(inv), absent
    PROVE  Asked(inv, path)
<1>1. Violation(rule, path, Unknown, Unknown) \in check(inv)
  BY DEF _missing
<1> QED
  BY <1>1 DEF Asked, Violation

\* What a person enters is not blank.
LEMMA GoodIsNotEmpty == ~_empty("good") /\ \A text : _empty(text) \in BOOLEAN
  BY CheckingAssumption DEF _empty

\* A text that must not be blank is not, once corrected.
LEMMA FilledAfter ==
    ASSUME NEW inv, IsInvoice(inv), NEW entered \in Int, NEW path,
           NameOf(path) \in AskedTexts \ {"due_date"}, NEW rule,
           _missing(_empty(FieldAt(inv, path)), rule, path) \subseteq check(inv)
    PROVE  ~_empty(After(inv, path, entered))
<1>1. CASE Asked(inv, path)
  BY <1>1, TextAfter, GoodIsNotEmpty
<1>2. CASE ~Asked(inv, path)
  BY <1>2, TextAfter, GoodIsNotEmpty, AskedIfMissing
<1> QED
  BY <1>1, <1>2

\* After a correction the invoice's own texts and dates are right.
LEMMA HeadersAfter ==
    ASSUME NEW inv, IsInvoice(inv), NEW entered \in Int
    PROVE  LET new == Corrected(inv, check(inv), entered)
           IN  /\ ~_empty(new.number) /\ ~_empty(new.type_code) /\ new.currency = "good"
               /\ new.issue_date = inv.issue_date
               /\ new.due_date = None \/ new.due_date >= new.issue_date
<1> DEFINE new == Corrected(inv, check(inv), entered)
           At(name) == <<name>>
<1>1. \A name \in OfInvoice : new[name] = After(inv, At(name), entered)
  BY CorrectedHeader
<1>2. \A name \in OfInvoice : NameOf(At(name)) = name /\ FieldAt(inv, At(name)) = inv[name]
  BY HeaderPath
<1>3. /\ _missing(_empty(inv.number), "BR-02", At("number")) \subseteq check(inv)
      /\ _missing(_empty(inv.type_code), "BR-04", At("type_code")) \subseteq check(inv)
  BY DEF check, br_02_invoice_number, br_04_invoice_type_code
<1>4. /\ inv.currency = "good" \/ Asked(inv, At("currency"))
      /\ \/ inv.due_date = None \/ inv.due_date >= inv.issue_date
         \/ Asked(inv, At("due_date"))
  <2>1. ASSUME inv.currency # "good" PROVE Asked(inv, At("currency"))
    <3>1. Violation("OWN-CURRENCY-KNOWN", At("currency"), Unknown, Unknown) \in check(inv)
      BY <2>1 DEF check, own_currency_known
    <3> QED
      BY <3>1 DEF Asked, Violation
  <2>2. ASSUME inv.due_date # None, ~(inv.due_date >= inv.issue_date)
        PROVE  Asked(inv, At("due_date"))
    <3>1. Violation("OWN-DUE-AFTER-ISSUE", At("due_date"), <<inv.issue_date>>, <<inv.due_date>>)
            \in check(inv)
      BY <2>2 DEF check, own_due_after_issue
    <3> QED
      BY <3>1 DEF Asked, Violation
  <2> QED
    BY <2>1, <2>2
<1>5. Asked(inv, At("due_date")) => After(inv, At("due_date"), entered) = inv.issue_date
  <2>1. Told(inv, At("due_date")) = Violation("OWN-DUE-AFTER-ISSUE", At("due_date"),
                                              <<inv.issue_date>>, <<inv.due_date>>)
    <3>1. Told(inv, At("due_date")) = ToldOfInvoice(inv, At("due_date"))
          /\ At("due_date")[1] = "due_date"
      BY HeaderPath DEF OfInvoice
    <3> HIDE DEF At
    <3> QED
      BY <3>1 DEF ToldOfInvoice
  <2> HIDE DEF At
  <2>2. /\ Told(inv, At("due_date")).expected # Unknown
        /\ Told(inv, At("due_date")).expected[1] = inv.issue_date
    BY <2>1 DEF Violation, Unknown
  <2> QED
    BY <2>2 DEF After, Correction
<1> HIDE DEF new, At
<1>6. ~_empty(new.number) /\ ~_empty(new.type_code)
  BY <1>1, <1>2, <1>3, FilledAfter DEF OfInvoice, AskedTexts
<1>7. new.currency = "good"
  BY <1>1, <1>2, <1>4, TextAfter DEF OfInvoice, AskedTexts
<1>8. new.issue_date = inv.issue_date
  BY <1>1, <1>2, NotAskedFor DEF OfInvoice, AskedTexts, AskedAmounts, OfTotals
<1>9. new.due_date = None \/ new.due_date >= new.issue_date
  <2>1. CASE Asked(inv, At("due_date"))
    BY <1>1, <1>5, <1>8, <2>1, TotalsAreNumbers DEF OfInvoice
  <2>2. CASE ~Asked(inv, At("due_date"))
    BY <1>1, <1>2, <1>4, <1>8, <2>2 DEF OfInvoice, After
  <2> QED
    BY <2>1, <2>2
<1> QED
  BY <1>6, <1>7, <1>8, <1>9 DEF new

\* So are the seller's and the buyer's.
LEMMA PartiesAfter ==
    ASSUME NEW inv, IsInvoice(inv), NEW entered \in Int, NEW role \in Roles
    PROVE  LET party == Corrected(inv, check(inv), entered)[role]
           IN  /\ ~_empty(party.name)
               /\ party.endpoint_id = None \/ ~_empty(party.endpoint_scheme_id)
               /\ party.vat_id \notin {"blank", "no_prefix", "misshaped"}
<1> DEFINE party == Corrected(inv, check(inv), entered)[role]
           At(name) == <<role, name>>
<1>1. \A name \in OfParty : party[name] = After(inv, At(name), entered)
  BY CorrectedParty
<1>2. \A name \in OfParty : NameOf(At(name)) = name /\ FieldAt(inv, At(name)) = inv[role][name]
  BY PartyPath
<1>3. \E rule : _missing(_empty(inv[role].name), rule, At("name")) \subseteq check(inv)
  <2>1. CASE role = "seller"
    BY <2>1 DEF check, br_06_seller_name
  <2>2. CASE role = "buyer"
    BY <2>2 DEF check, br_07_buyer_name
  <2> QED
    BY <2>1, <2>2 DEF Roles
<1>4. \/ inv[role].endpoint_id = None \/ ~_empty(inv[role].endpoint_scheme_id)
      \/ Asked(inv, At("endpoint_scheme_id"))
  <2> DEFINE absent == inv[role].endpoint_id # None /\ _empty(inv[role].endpoint_scheme_id)
  <2>1. \E rule : _missing(absent, rule, At("endpoint_scheme_id")) \subseteq check(inv)
    <3>1. CASE role = "seller"
      BY <3>1 DEF check, br_62_seller_endpoint_scheme
    <3>2. CASE role = "buyer"
      BY <3>2 DEF check, br_63_buyer_endpoint_scheme
    <3> QED
      BY <3>1, <3>2 DEF Roles
  <2>2. absent \in BOOLEAN
    BY GoodIsNotEmpty
  <2>3. absent => Asked(inv, At("endpoint_scheme_id"))
    <3> HIDE DEF absent, At
    <3> QED
      BY <2>1, <2>2, AskedIfMissing
  <2> QED
    BY <2>3
<1>5. inv[role].vat_id \in {"blank", "no_prefix", "misshaped"} => Asked(inv, At("vat_id"))
  <2>1. SUFFICES ASSUME inv[role].vat_id \in {"blank", "no_prefix", "misshaped"}
                 PROVE  Asked(inv, At("vat_id"))
    OBVIOUS
  <2>2. Violation("BR-CO-09", At("vat_id"), Unknown, Unknown) \in br_co_09_vat_identifiers(inv)
    BY <2>1 DEF br_co_09_vat_identifiers, Roles
  <2>3. Violation("BR-CO-09", At("vat_id"), Unknown, Unknown) \in check(inv)
    BY <2>2 DEF check
  <2> QED
    BY <2>3 DEF Asked, Violation
<1> HIDE DEF party, At
<1>6. ~_empty(party.name)
  BY <1>1, <1>2, <1>3, FilledAfter DEF OfParty, AskedTexts
<1>7. party.endpoint_id = inv[role].endpoint_id
  BY <1>1, <1>2, NotAskedFor DEF OfParty, AskedTexts, AskedAmounts, OfTotals
<1>8. party.endpoint_id = None \/ ~_empty(party.endpoint_scheme_id)
  BY <1>1, <1>2, <1>4, <1>7, TextAfter, GoodIsNotEmpty DEF OfParty, AskedTexts
<1>9. party.vat_id \notin {"blank", "no_prefix", "misshaped"}
  BY <1>1, <1>2, <1>5, TextAfter DEF OfParty, AskedTexts
<1> QED
  BY <1>6, <1>8, <1>9 DEF party

\* After a correction every line has its unit and its amount, and is still expected to come
\* to the same.
LEMMA LinesAfter ==
    ASSUME NEW inv, IsInvoice(inv), NEW entered \in Int, NEW i \in LineIndices(inv)
    PROVE  LET line == Corrected(inv, check(inv), entered).lines[i]
           IN  /\ ~_empty(line.quantity_unit_code)
               /\ line.net_amount \in Int
               /\ line.net_amount = After(inv, <<"lines", i, "net_amount">>, entered)
               /\ line.vat_rate = inv.lines[i].vat_rate
               /\ ExpectedNet(line) = ExpectedNet(inv.lines[i])
<1> DEFINE line == Corrected(inv, check(inv), entered).lines[i]
           At(name) == <<"lines", i, name>>
<1>1. \A name \in OfLine : line[name] = After(inv, At(name), entered)
  BY CorrectedLists
<1>2. \A name \in OfLine : NameOf(At(name)) = name /\ FieldAt(inv, At(name)) = inv.lines[i][name]
  BY LinePath
<1>3. /\ _missing(_empty(inv.lines[i].quantity_unit_code), "BR-23", At("quantity_unit_code"))
            \subseteq check(inv)
      /\ _missing(inv.lines[i].net_amount = None, "BR-24", At("net_amount")) \subseteq check(inv)
  BY DEF check, br_23_quantity_unit, br_24_line_net_amount
<1>4. inv.lines[i].net_amount \in Int \cup {None}
  BY LinesAreNumbers
<1> HIDE DEF line, At
<1>5. ~_empty(line.quantity_unit_code)
  BY <1>1, <1>2, <1>3, FilledAfter DEF OfLine, AskedTexts
<1>6. line.net_amount \in Int /\ line.net_amount = After(inv, At("net_amount"), entered)
  BY <1>1, <1>2, <1>3, <1>4, ThereAfter DEF OfLine, AskedAmounts
<1>7. \A name \in {"vat_rate", "quantity", "net_price"} : line[name] = inv.lines[i][name]
  BY <1>1, <1>2, NotAskedFor DEF OfLine, AskedTexts, AskedAmounts, OfTotals
<1>8. ExpectedNet(line) = ExpectedNet(inv.lines[i])
  BY <1>7 DEF ExpectedNet
<1> QED
  BY <1>5, <1>6, <1>7, <1>8 DEF line, At

\* After a correction no total is missing.
LEMMA TotalsAfter ==
    ASSUME NEW inv, IsInvoice(inv), NEW entered \in Int
    PROVE  LET totals == Corrected(inv, check(inv), entered).totals
           IN  /\ totals.net_total \in Int /\ totals.amount_due \in Int
               /\ \A name \in OfTotals : totals[name] = After(inv, <<"totals", name>>, entered)
<1> DEFINE totals == Corrected(inv, check(inv), entered).totals
           At(name) == <<"totals", name>>
<1>1. \A name \in OfTotals : totals[name] = After(inv, At(name), entered)
  BY CorrectedTotals
<1>2. \A name \in OfTotals : NameOf(At(name)) = name /\ FieldAt(inv, At(name)) = inv.totals[name]
  BY TotalsPath
<1>3. /\ _missing(inv.totals.net_total = None, "BR-13", At("net_total")) \subseteq check(inv)
      /\ _missing(inv.totals.amount_due = None, "BR-15", At("amount_due")) \subseteq check(inv)
  BY DEF check, br_13_net_total, br_15_amount_due
<1>4. inv.totals.net_total \in Int \cup {None} /\ inv.totals.amount_due \in Int \cup {None}
  BY TotalsAreNumbers DEF TotalsType
<1> HIDE DEF totals, At
<1>5. totals.net_total \in Int /\ totals.amount_due \in Int
  BY <1>1, <1>2, <1>3, <1>4, ThereAfter DEF OfTotals, AskedAmounts
<1> QED
  BY <1>1, <1>5 DEF totals, At

\* One round sets the texts right and enters what is missing.
LEMMA FirstRound ==
    ASSUME NEW inv, IsInvoice(inv), NEW entered \in Int
    PROVE  LET new == Corrected(inv, check(inv), entered)
           IN  TextsRight(new) /\ AllThere(new)
<1> DEFINE new == Corrected(inv, check(inv), entered)
<1>1. LineIndices(new) = LineIndices(inv)
  BY CorrectedLists DEF LineIndices
<1>2. \A i \in LineIndices(inv) :
         ~_empty(new.lines[i].quantity_unit_code) /\ new.lines[i].net_amount \in Int
  BY LinesAfter
<1>3. new.totals.net_total \in Int /\ new.totals.amount_due \in Int
  BY TotalsAfter
<1>4. /\ ~_empty(new.number) /\ ~_empty(new.type_code) /\ new.currency = "good"
      /\ new.due_date = None \/ new.due_date >= new.issue_date
  BY HeadersAfter
<1>5. \A role \in Roles :
         /\ ~_empty(new[role].name)
         /\ new[role].endpoint_id = None \/ ~_empty(new[role].endpoint_scheme_id)
         /\ new[role].vat_id \notin {"blank", "no_prefix", "misshaped"}
  BY PartiesAfter
<1> HIDE DEF new
<1>6. AllThere(new)
  BY <1>1, <1>2, <1>3, CheckingAssumption DEF AllThere, EveryNetIsThere
<1>7. TextsRight(new)
  BY <1>1, <1>2, <1>4, <1>5 DEF TextsRight
<1> QED
  BY <1>6, <1>7 DEF new

\* The amounts that are close to what they are compared with.
Close(actual, expected) == Abs(actual - expected) <= TOLERANCE
LinesClose(inv) ==
    \A i \in LineIndices(inv) : Close(inv.lines[i].net_amount, ExpectedNet(inv.lines[i]))
BasesClose(inv) ==
    \A k \in Entries(inv) : Compared(inv, k) =>
       Close(inv.vat_breakdown[k].taxable_amount, NetAtRate(inv, inv.vat_breakdown[k].rate))
TaxesClose(inv) ==
    \A k \in Entries(inv) :
       Close(inv.vat_breakdown[k].tax_amount, ExpectedTax(inv.vat_breakdown[k]))
NetsClose(inv) ==
    /\ Close(inv.totals.line_net_total, _line_net_sum(inv))
    /\ Close(inv.totals.net_total, _line_net_sum(inv))
VatClose(inv) == Close(inv.totals.vat_total, VatSum(inv))
GrossClose(inv) == Close(inv.totals.gross_total, inv.totals.net_total + inv.totals.vat_total)
DueClose(inv) == Close(inv.totals.amount_due, inv.totals.gross_total)

\* An invoice that has everything right passes.
LEMMA AllRightPasses ==
    ASSUME NEW inv, TextsRight(inv), AllThere(inv),
           LinesClose(inv), BasesClose(inv), TaxesClose(inv),
           NetsClose(inv), VatClose(inv), GrossClose(inv), DueClose(inv)
    PROVE  check(inv) = {}
<1>1. /\ br_02_invoice_number(inv) = {} /\ br_04_invoice_type_code(inv) = {}
      /\ own_due_after_issue(inv) = {} /\ own_currency_known(inv) = {}
  BY DEF TextsRight, br_02_invoice_number, br_04_invoice_type_code, own_due_after_issue,
         own_currency_known, _missing
<1>2. /\ br_06_seller_name(inv) = {} /\ br_07_buyer_name(inv) = {}
      /\ br_62_seller_endpoint_scheme(inv) = {} /\ br_63_buyer_endpoint_scheme(inv) = {}
      /\ br_co_09_vat_identifiers(inv) = {}
  <2>1. /\ \A role \in {"seller", "buyer"} :
           /\ ~_empty(inv[role].name)
           /\ inv[role].endpoint_id = None \/ ~_empty(inv[role].endpoint_scheme_id)
           /\ inv[role].vat_id \notin {"blank", "no_prefix", "misshaped"}
    BY DEF TextsRight, Roles
  <2>2. br_06_seller_name(inv) = {} /\ br_07_buyer_name(inv) = {}
    BY <2>1 DEF br_06_seller_name, br_07_buyer_name, _missing
  <2>3. br_62_seller_endpoint_scheme(inv) = {} /\ br_63_buyer_endpoint_scheme(inv) = {}
    BY <2>1 DEF br_62_seller_endpoint_scheme, br_63_buyer_endpoint_scheme, _missing
  <2>4. br_co_09_vat_identifiers(inv) = {}
    BY <2>1 DEF br_co_09_vat_identifiers
  <2> QED
    BY <2>2, <2>3, <2>4
<1>3. br_23_quantity_unit(inv) = {} /\ br_24_line_net_amount(inv) = {}
  BY DEF TextsRight, AllThere, EveryNetIsThere, br_23_quantity_unit, br_24_line_net_amount, _missing
<1>4. br_13_net_total(inv) = {} /\ br_15_amount_due(inv) = {}
  BY DEF AllThere, br_13_net_total, br_15_amount_due, _missing
<1>5. own_line_math(inv) = {}
  BY DEF LinesClose, Close, own_line_math, _agrees
<1>6. br_co_17_vat_per_rate(inv) = {}
  BY DEF TaxesClose, Close, br_co_17_vat_per_rate, _agrees
<1>7. own_vat_base(inv) = {}
  BY DEF BasesClose, Compared, Close, own_vat_base, _agrees
<1>8. br_co_10_line_total(inv) = {} /\ br_co_13_net_total(inv) = {}
  BY DEF NetsClose, Close, br_co_10_line_total, br_co_13_net_total, _agrees
<1>9. br_co_14_vat_total(inv) = {} /\ br_co_15_gross_total(inv) = {}
      /\ br_co_16_amount_due(inv) = {}
  BY DEF VatClose, GrossClose, DueClose, Close, br_co_14_vat_total, br_co_15_gross_total,
         br_co_16_amount_due, _agrees
<1> QED
  BY <1>1, <1>2, <1>3, <1>4, <1>5, <1>6, <1>7, <1>8, <1>9 DEF check

\* A round sets the lines right once none lacks its amount.
LEMMA LinesRound ==
    ASSUME NEW inv, IsInvoice(inv), AllThere(inv), NEW entered \in Int
    PROVE  LinesClose(Corrected(inv, check(inv), entered))
<1> DEFINE new == Corrected(inv, check(inv), entered)
<1>1. LineIndices(new) = LineIndices(inv)
  BY CorrectedLists DEF LineIndices
<1>2. ASSUME NEW i \in LineIndices(inv)
      PROVE  Close(new.lines[i].net_amount, ExpectedNet(new.lines[i]))
  <2> DEFINE path == <<"lines", i, "net_amount">>
             a == inv.lines[i].net_amount
             e == ExpectedNet(inv.lines[i])
  <2>1. a \in Int /\ e \in Int /\ a # None
    BY LinesAreNumbers, ExpectationsAreNumbers DEF AllThere, EveryNetIsThere
  <2>2. NameOf(path) = "net_amount" /\ FieldAt(inv, path) = a /\ ExpectedAt(inv, path) = e
    <3>1. "net_amount" \in OfLine
      BY DEF OfLine
    <3> QED
      BY <3>1, LinePath
  <2>3. _agrees(a, e, "OWN-LINE-MATH", path) \subseteq check(inv)
    <3>1. _agrees(a, e, "OWN-LINE-MATH", path) \subseteq own_line_math(inv)
      BY <2>1 DEF own_line_math
    <3> QED
      BY <3>1 DEF check
  <2>4. new.lines[i].net_amount = After(inv, path, entered) /\ ExpectedNet(new.lines[i]) = e
    BY LinesAfter
  <2> HIDE DEF path, a, e, new
  <2>5. Abs(After(inv, path, entered) - e) <= TOLERANCE
    BY <2>1, <2>2, <2>3, CloseAfter DEF AskedAmounts
  <2> QED
    BY <2>4, <2>5 DEF Close
<1> HIDE DEF new
<1>3. LinesClose(new)
  BY <1>1, <1>2 DEF LinesClose
<1> QED
  BY <1>3 DEF new

\* Lines that are right stay, and so does everything they add up to.
LEMMA RightLinesStay ==
    ASSUME NEW inv, IsInvoice(inv), AllThere(inv), LinesClose(inv), NEW entered \in Int
    PROVE  LET new == Corrected(inv, check(inv), entered)
           IN  /\ _line_net_sum(new) = _line_net_sum(inv)
               /\ \A rate : NetAtRate(new, rate) = NetAtRate(inv, rate)
               /\ \A i \in LineIndices(inv) : new.lines[i].vat_rate = inv.lines[i].vat_rate
<1> DEFINE new == Corrected(inv, check(inv), entered)
<1>1. LineIndices(new) = LineIndices(inv)
  BY CorrectedLists DEF LineIndices
<1>2. ASSUME NEW i \in LineIndices(inv)
      PROVE  /\ new.lines[i].net_amount = inv.lines[i].net_amount
             /\ new.lines[i].vat_rate = inv.lines[i].vat_rate
  <2> DEFINE path == <<"lines", i, "net_amount">>
             a == inv.lines[i].net_amount
             e == ExpectedNet(inv.lines[i])
  <2>1. a \in Int /\ e \in Int /\ a # None
    BY LinesAreNumbers, ExpectationsAreNumbers DEF AllThere, EveryNetIsThere
  <2>2. NameOf(path) = "net_amount" /\ FieldAt(inv, path) = a /\ ExpectedAt(inv, path) = e
    <3>1. "net_amount" \in OfLine
      BY DEF OfLine
    <3> QED
      BY <3>1, LinePath
  <2>3. Abs(a - e) <= TOLERANCE
    BY DEF LinesClose, Close
  <2>4. /\ new.lines[i].net_amount = After(inv, path, entered)
        /\ new.lines[i].vat_rate = inv.lines[i].vat_rate
    BY LinesAfter
  <2> HIDE DEF path, a, e, new
  <2>5. After(inv, path, entered) = a
    BY <2>1, <2>2, <2>3, CloseStays DEF AskedAmounts
  <2> QED
    BY <2>4, <2>5 DEF a
<1> HIDE DEF new
<1>3. [i \in LineIndices(new) |-> new.lines[i].net_amount]
        = [i \in LineIndices(inv) |-> inv.lines[i].net_amount]
  BY <1>1, <1>2
<1>4. ASSUME NEW rate
      PROVE  [i \in LineIndices(new) |->
                IF new.lines[i].vat_rate = rate THEN new.lines[i].net_amount ELSE 0]
             = [i \in LineIndices(inv) |->
                IF inv.lines[i].vat_rate = rate THEN inv.lines[i].net_amount ELSE 0]
  BY <1>1, <1>2
<1>5. _line_net_sum(new) = _line_net_sum(inv)
  BY <1>3 DEF _line_net_sum
<1>6. \A rate : NetAtRate(new, rate) = NetAtRate(inv, rate)
  BY <1>4 DEF NetAtRate
<1> QED
  BY <1>2, <1>5, <1>6 DEF new

\* A correction keeps the rates.
LEMMA EntriesAfter ==
    ASSUME NEW inv, IsInvoice(inv), NEW entered \in Int
    PROVE  LET new == Corrected(inv, check(inv), entered)
           IN  /\ Entries(new) = Entries(inv)
               /\ \A k \in Entries(inv) :
                     /\ new.vat_breakdown[k].rate = inv.vat_breakdown[k].rate
                     /\ new.vat_breakdown[k].taxable_amount
                          = After(inv, <<"vat_breakdown", k, "taxable_amount">>, entered)
                     /\ new.vat_breakdown[k].tax_amount
                          = After(inv, <<"vat_breakdown", k, "tax_amount">>, entered)
<1> DEFINE new == Corrected(inv, check(inv), entered)
<1>1. Entries(new) = Entries(inv)
  BY CorrectedLists DEF Entries
<1>2. ASSUME NEW k \in Entries(inv)
      PROVE  /\ new.vat_breakdown[k].rate = inv.vat_breakdown[k].rate
             /\ new.vat_breakdown[k].taxable_amount
                  = After(inv, <<"vat_breakdown", k, "taxable_amount">>, entered)
             /\ new.vat_breakdown[k].tax_amount
                  = After(inv, <<"vat_breakdown", k, "tax_amount">>, entered)
  <2> DEFINE At(name) == <<"vat_breakdown", k, name>>
  <2>1. \A name \in OfEntry : new.vat_breakdown[k][name] = After(inv, At(name), entered)
    BY CorrectedLists
  <2>2. \A name \in OfEntry :
           NameOf(At(name)) = name /\ FieldAt(inv, At(name)) = inv.vat_breakdown[k][name]
    BY EntryPath
  <2> HIDE DEF new, At
  <2>3. new.vat_breakdown[k].rate = inv.vat_breakdown[k].rate
    BY <2>1, <2>2, NotAskedFor DEF OfEntry, AskedTexts, AskedAmounts, OfTotals
  <2> QED
    BY <2>1, <2>3 DEF OfEntry, At
<1> QED
  BY <1>1, <1>2

\* Then the bases and the nets come right.
LEMMA NetsRound ==
    ASSUME NEW inv, IsInvoice(inv), AllThere(inv), LinesClose(inv), NEW entered \in Int
    PROVE  LET new == Corrected(inv, check(inv), entered)
           IN  BasesClose(new) /\ NetsClose(new)
<1> DEFINE new == Corrected(inv, check(inv), entered)
<1>1. LineIndices(new) = LineIndices(inv)
  BY CorrectedLists DEF LineIndices
<1>2. /\ _line_net_sum(new) = _line_net_sum(inv)
      /\ \A rate : NetAtRate(new, rate) = NetAtRate(inv, rate)
      /\ \A i \in LineIndices(inv) : new.lines[i].vat_rate = inv.lines[i].vat_rate
  BY RightLinesStay
<1>3. /\ Entries(new) = Entries(inv)
      /\ \A k \in Entries(inv) :
            /\ new.vat_breakdown[k].rate = inv.vat_breakdown[k].rate
            /\ new.vat_breakdown[k].taxable_amount
                 = After(inv, <<"vat_breakdown", k, "taxable_amount">>, entered)
  BY EntriesAfter
<1>4. EveryNetIsThere(inv)
  BY DEF AllThere
<1>5. ASSUME NEW k \in Entries(inv), Compared(new, k)
      PROVE  Close(new.vat_breakdown[k].taxable_amount, NetAtRate(new, new.vat_breakdown[k].rate))
  <2> DEFINE path == <<"vat_breakdown", k, "taxable_amount">>
             a == inv.vat_breakdown[k].taxable_amount
             e == NetAtRate(inv, inv.vat_breakdown[k].rate)
  <2>1. a \in Int /\ e \in Int
    BY <1>4, EntriesAreNumbers, SumsAreNumbers
  <2>2. Compared(inv, k)
    <3> HIDE DEF new
    <3> QED
      BY <1>1, <1>2, <1>3, <1>4, <1>5 DEF Compared
  <2>3. NameOf(path) = "taxable_amount" /\ FieldAt(inv, path) = a /\ ExpectedAt(inv, path) = e
    <3>1. "taxable_amount" \in OfEntry
      BY DEF OfEntry
    <3> QED
      BY <2>2, <3>1, EntryPath
  <2>4. _agrees(a, e, "OWN-VAT-BASE", path) \subseteq check(inv)
    <3>1. _agrees(a, e, "OWN-VAT-BASE", path) \subseteq own_vat_base(inv)
      BY <2>2 DEF own_vat_base, Compared
    <3> QED
      BY <3>1 DEF check
  <2>5. new.vat_breakdown[k].taxable_amount = After(inv, path, entered)
    BY <1>3
  <2>6. NetAtRate(new, new.vat_breakdown[k].rate) = e
    <3> HIDE DEF new
    <3> QED
      BY <1>2, <1>3
  <2> HIDE DEF path, a, e, new
  <2>7. Abs(After(inv, path, entered) - e) <= TOLERANCE
    BY <2>1, <2>3, <2>4, CloseAfter DEF AskedAmounts
  <2> QED
    BY <2>5, <2>6, <2>7 DEF Close
<1>6. ASSUME NEW name \in {"line_net_total", "net_total"}
      PROVE  Close(new.totals[name], _line_net_sum(new))
  <2> DEFINE path == <<"totals", name>>
             a == inv.totals[name]
             e == _line_net_sum(inv)
  <2>1. a \in Int /\ e \in Int /\ a # None
    <3>1. a \in Int \cup {None} /\ a # None
      BY TotalsAreNumbers, CheckingAssumption DEF TotalsType, AllThere
    <3> QED
      BY <1>4, <3>1, SumsAreNumbers
  <2>2. NameOf(path) = name /\ FieldAt(inv, path) = a
    BY TotalsPath DEF OfTotals
  <2>3. ExpectedAt(inv, path) = e
    BY DEF ExpectedAt
  <2>4. \E rule : _agrees(a, e, rule, path) \subseteq check(inv)
    <3>1. CASE name = "line_net_total"
      BY <1>4, <3>1 DEF check, br_co_10_line_total
    <3>2. CASE name = "net_total"
      BY <1>4, <2>1, <3>2 DEF check, br_co_13_net_total
    <3> QED
      BY <3>1, <3>2
  <2>5. new.totals[name] = After(inv, path, entered) /\ name \in AskedAmounts
    BY TotalsAfter DEF OfTotals, AskedAmounts
  <2> HIDE DEF path, a, e, new
  <2>6. Abs(After(inv, path, entered) - e) <= TOLERANCE
    BY <2>1, <2>2, <2>3, <2>4, <2>5, CloseAfter
  <2> QED
    BY <1>2, <2>5, <2>6 DEF Close, e
<1> HIDE DEF new
<1> QED
  BY <1>3, <1>5, <1>6 DEF BasesClose, NetsClose, new

\* An amount that is compared with itself, or with what it is close to, is not touched.
LEMMA TaxesRound ==
    ASSUME NEW inv, IsInvoice(inv), AllThere(inv), BasesClose(inv), NEW entered \in Int
    PROVE  TaxesClose(Corrected(inv, check(inv), entered))
<1> USE ValidationAssumption
<1> DEFINE new == Corrected(inv, check(inv), entered)
<1>1. /\ Entries(new) = Entries(inv)
      /\ \A k \in Entries(inv) :
            /\ new.vat_breakdown[k].rate = inv.vat_breakdown[k].rate
            /\ new.vat_breakdown[k].taxable_amount
                 = After(inv, <<"vat_breakdown", k, "taxable_amount">>, entered)
            /\ new.vat_breakdown[k].tax_amount
                 = After(inv, <<"vat_breakdown", k, "tax_amount">>, entered)
  BY EntriesAfter
<1>2. ASSUME NEW k \in Entries(inv)
      PROVE  Close(new.vat_breakdown[k].tax_amount, ExpectedTax(new.vat_breakdown[k]))
  <2>1. new.vat_breakdown[k].taxable_amount = inv.vat_breakdown[k].taxable_amount
    <3> DEFINE path == <<"vat_breakdown", k, "taxable_amount">>
               a == inv.vat_breakdown[k].taxable_amount
               e == IF Compared(inv, k) THEN NetAtRate(inv, inv.vat_breakdown[k].rate) ELSE a
    <3>1. a \in Int /\ e \in Int /\ a # None
      BY EntriesAreNumbers, SumsAreNumbers, CheckingAssumption DEF AllThere
    <3>2. NameOf(path) = "taxable_amount" /\ FieldAt(inv, path) = a /\ ExpectedAt(inv, path) = e
      <4>1. "taxable_amount" \in OfEntry
        BY DEF OfEntry
      <4> QED
        BY <4>1, EntryPath
    <3>3. Abs(a - e) <= TOLERANCE
      BY <3>1 DEF BasesClose, Close, Abs, TOLERANCE
    <3>4. new.vat_breakdown[k].taxable_amount = After(inv, path, entered)
      BY <1>1
    <3> HIDE DEF path, a, e, new
    <3>5. After(inv, path, entered) = a
      BY <3>1, <3>2, <3>3, CloseStays DEF AskedAmounts
    <3> QED
      BY <3>4, <3>5 DEF a
  <2> DEFINE path == <<"vat_breakdown", k, "tax_amount">>
             a == inv.vat_breakdown[k].tax_amount
             e == ExpectedTax(inv.vat_breakdown[k])
  <2>2. a \in Int /\ e \in Int
    BY EntriesAreNumbers, ExpectationsAreNumbers
  <2>3. NameOf(path) = "tax_amount" /\ FieldAt(inv, path) = a /\ ExpectedAt(inv, path) = e
    <3>1. "tax_amount" \in OfEntry
      BY DEF OfEntry
    <3> QED
      BY <3>1, EntryPath
  <2>4. _agrees(a, e, "BR-CO-17", path) \subseteq check(inv)
    <3>1. _agrees(a, e, "BR-CO-17", path) \subseteq br_co_17_vat_per_rate(inv)
      BY DEF br_co_17_vat_per_rate
    <3> QED
      BY <3>1 DEF check
  <2>5. new.vat_breakdown[k].tax_amount = After(inv, path, entered)
    BY <1>1
  <2>6. ExpectedTax(new.vat_breakdown[k]) = e
    <3> HIDE DEF new
    <3> QED
      BY <1>1, <2>1 DEF ExpectedTax
  <2> HIDE DEF path, a, e, new
  <2>7. Abs(After(inv, path, entered) - e) <= TOLERANCE
    BY <2>2, <2>3, <2>4, CloseAfter DEF AskedAmounts
  <2> QED
    BY <2>5, <2>6, <2>7 DEF Close
<1> HIDE DEF new
<1>3. TaxesClose(new)
  BY <1>1, <1>2 DEF TaxesClose
<1> QED
  BY <1>3 DEF new

\* A total, once corrected, is close to what it was compared with.
LEMMA TotalCloseAfter ==
    ASSUME NEW inv, IsInvoice(inv), NEW entered \in Int, NEW name \in OfTotals,
           NEW a \in Int, NEW e \in Int,
           inv.totals[name] = a, ExpectedAt(inv, <<"totals", name>>) = e,
           NEW rule, _agrees(a, e, rule, <<"totals", name>>) \subseteq check(inv)
    PROVE  Close(Corrected(inv, check(inv), entered).totals[name], e)
<1> DEFINE path == <<"totals", name>>
<1>1. NameOf(path) = name /\ FieldAt(inv, path) = a
  BY TotalsPath
<1>2. ExpectedAt(inv, path) = e /\ _agrees(a, e, rule, path) \subseteq check(inv)
  OBVIOUS
<1>3. Corrected(inv, check(inv), entered).totals[name] = After(inv, path, entered)
  BY TotalsAfter
<1> HIDE DEF path
<1>4. Abs(After(inv, path, entered) - e) <= TOLERANCE
  BY <1>1, <1>2, CloseAfter DEF AskedAmounts
<1> QED
  BY <1>3, <1>4 DEF Close

\* A total that is close to what it is compared with stays.
LEMMA TotalStays ==
    ASSUME NEW inv, IsInvoice(inv), NEW entered \in Int, NEW name \in OfTotals,
           NEW a \in Int, NEW e \in Int,
           inv.totals[name] = a, ExpectedAt(inv, <<"totals", name>>) = e,
           Close(a, e)
    PROVE  Corrected(inv, check(inv), entered).totals[name] = a
<1> DEFINE path == <<"totals", name>>
<1>1. NameOf(path) = name /\ FieldAt(inv, path) = a
  BY TotalsPath
<1>2. ExpectedAt(inv, path) = e /\ Abs(a - e) <= TOLERANCE /\ a # None
  BY CheckingAssumption DEF Close
<1>3. Corrected(inv, check(inv), entered).totals[name] = After(inv, path, entered)
  BY TotalsAfter
<1> HIDE DEF path
<1>4. After(inv, path, entered) = a
  BY <1>1, <1>2, CloseStays DEF AskedAmounts
<1> QED
  BY <1>3, <1>4

\* Once the taxes are right, the next correction sets the VAT total right.
LEMMA VatRound ==
    ASSUME NEW inv, IsInvoice(inv), TaxesClose(inv), NEW entered \in Int
    PROVE  VatClose(Corrected(inv, check(inv), entered))
<1> DEFINE new == Corrected(inv, check(inv), entered)
<1>1. /\ Entries(new) = Entries(inv)
      /\ \A k \in Entries(inv) : new.vat_breakdown[k].tax_amount
                                   = After(inv, <<"vat_breakdown", k, "tax_amount">>, entered)
  BY EntriesAfter
<1>2. ASSUME NEW k \in Entries(inv)
      PROVE  new.vat_breakdown[k].tax_amount = inv.vat_breakdown[k].tax_amount
  <2> DEFINE path == <<"vat_breakdown", k, "tax_amount">>
             a == inv.vat_breakdown[k].tax_amount
             e == ExpectedTax(inv.vat_breakdown[k])
  <2>1. a \in Int /\ e \in Int /\ a # None
    BY EntriesAreNumbers, ExpectationsAreNumbers, CheckingAssumption
  <2>2. NameOf(path) = "tax_amount" /\ FieldAt(inv, path) = a /\ ExpectedAt(inv, path) = e
    <3>1. "tax_amount" \in OfEntry
      BY DEF OfEntry
    <3> QED
      BY <3>1, EntryPath
  <2>3. Abs(a - e) <= TOLERANCE
    BY DEF TaxesClose, Close
  <2>4. new.vat_breakdown[k].tax_amount = After(inv, path, entered)
    BY <1>1
  <2> HIDE DEF path, a, e, new
  <2>5. After(inv, path, entered) = a
    BY <2>1, <2>2, <2>3, CloseStays DEF AskedAmounts
  <2> QED
    BY <2>4, <2>5 DEF a
<1> HIDE DEF new
<1>3. VatSum(new) = VatSum(inv)
  <2>1. [k \in Entries(new) |-> new.vat_breakdown[k].tax_amount]
          = [k \in Entries(inv) |-> inv.vat_breakdown[k].tax_amount]
    BY <1>1, <1>2
  <2> QED
    BY <2>1 DEF VatSum
<1> DEFINE a == inv.totals.vat_total
           e == VatSum(inv)
<1>4. a \in Int /\ e \in Int
  BY TotalsAreNumbers, SumsAreNumbers DEF TotalsType
<1>5. ExpectedAt(inv, <<"totals", "vat_total">>) = e
  BY DEF ExpectedAt
<1>6. _agrees(a, e, "BR-CO-14", <<"totals", "vat_total">>) \subseteq check(inv)
  BY DEF check, br_co_14_vat_total
<1> HIDE DEF e
<1>7. Close(Corrected(inv, check(inv), entered).totals["vat_total"], e)
  BY <1>4, <1>5, <1>6, TotalCloseAfter DEF OfTotals
<1> QED
  BY <1>3, <1>7 DEF VatClose, new, e

\* Once net and VAT total are right, the next correction sets the gross total right.
LEMMA GrossRound ==
    ASSUME NEW inv, IsInvoice(inv), AllThere(inv), NetsClose(inv), VatClose(inv),
           NEW entered \in Int
    PROVE  GrossClose(Corrected(inv, check(inv), entered))
<1> DEFINE new == Corrected(inv, check(inv), entered)
           net == inv.totals.net_total
           vat == inv.totals.vat_total
           gross == inv.totals.gross_total
<1>1. net \in Int /\ vat \in Int /\ gross \in Int /\ _line_net_sum(inv) \in Int
      /\ VatSum(inv) \in Int
  BY TotalsAreNumbers, SumsAreNumbers DEF TotalsType, AllThere
<1>2. /\ ExpectedAt(inv, <<"totals", "net_total">>) = _line_net_sum(inv)
      /\ ExpectedAt(inv, <<"totals", "vat_total">>) = VatSum(inv)
      /\ ExpectedAt(inv, <<"totals", "gross_total">>) = net + vat
  BY DEF ExpectedAt
<1>3. new.totals["net_total"] = net /\ new.totals["vat_total"] = vat
  <2>1. Close(net, _line_net_sum(inv)) /\ Close(vat, VatSum(inv))
    BY DEF NetsClose, VatClose
  <2> QED
    BY <1>1, <1>2, <2>1, TotalStays DEF OfTotals
<1>4. _agrees(gross, net + vat, "BR-CO-15", <<"totals", "gross_total">>) \subseteq check(inv)
  BY DEF check, br_co_15_gross_total, AllThere
<1>5. net + vat \in Int
  BY <1>1
<1> DEFINE e == net + vat
<1>6. e \in Int /\ ExpectedAt(inv, <<"totals", "gross_total">>) = e
      /\ _agrees(gross, e, "BR-CO-15", <<"totals", "gross_total">>) \subseteq check(inv)
  BY <1>2, <1>4, <1>5
<1> HIDE DEF e, new
<1>7. Close(Corrected(inv, check(inv), entered).totals["gross_total"], e)
  BY <1>1, <1>6, TotalCloseAfter DEF OfTotals
<1> QED
  BY <1>3, <1>7 DEF GrossClose, new, e

\* Once the gross total is right, the next correction sets the amount due right.
LEMMA DueRound ==
    ASSUME NEW inv, IsInvoice(inv), AllThere(inv), GrossClose(inv), NEW entered \in Int
    PROVE  DueClose(Corrected(inv, check(inv), entered))
<1> DEFINE new == Corrected(inv, check(inv), entered)
           gross == inv.totals.gross_total
           due == inv.totals.amount_due
           e == inv.totals.net_total + inv.totals.vat_total
<1>1. gross \in Int /\ due \in Int /\ e \in Int
  BY TotalsAreNumbers DEF TotalsType, AllThere
<1>2. /\ ExpectedAt(inv, <<"totals", "gross_total">>) = e
      /\ ExpectedAt(inv, <<"totals", "amount_due">>) = gross
  BY DEF ExpectedAt
<1>3. Close(gross, e) /\ inv.totals["gross_total"] = gross
  BY DEF GrossClose
<1>4. _agrees(due, gross, "BR-CO-16", <<"totals", "amount_due">>) \subseteq check(inv)
  BY DEF check, br_co_16_amount_due, AllThere
<1> HIDE DEF e
<1>5. new.totals["gross_total"] = gross
  BY <1>1, <1>2, <1>3, TotalStays DEF OfTotals
<1>6. Close(new.totals["amount_due"], gross)
  BY <1>1, <1>2, <1>4, TotalCloseAfter DEF OfTotals
<1> QED
  BY <1>5, <1>6 DEF DueClose

=============================================================================
