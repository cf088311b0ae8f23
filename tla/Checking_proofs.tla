--------------------------- MODULE Checking_proofs --------------------------
(***************************************************************************)
(* An invoice on its way through check(), as a state machine: theorems of  *)
(* Spec.  The inductive invariant says that the invoice stays one the      *)
(* schema lets in, and, round by round, what has been set right; the other *)
(* theorems follow from it and from what check() guarantees of an invoice. *)
(***************************************************************************)
EXTENDS Validation_proofs

-----------------------------------------------------------------------------
(* What is right after each round.                                         *)

\* What is right after n rounds.
Level(n, inv) ==
    /\ n >= 1 => TextsRight(inv) /\ AllThere(inv)
    /\ n >= 2 => LinesClose(inv)
    /\ n >= 3 => BasesClose(inv) /\ NetsClose(inv)
    /\ n >= 4 => TaxesClose(inv)
    /\ n >= 5 => VatClose(inv)
    /\ n >= 6 => GrossClose(inv)
    /\ n >= 7 => DueClose(inv)

\* Each correction sets right what depends on what is right already, and keeps that.
LEMMA NextLevel ==
    ASSUME NEW inv, IsInvoice(inv), NEW n \in Nat, Level(n, inv), NEW entered \in Int
    PROVE  Level(n + 1, Corrected(inv, check(inv), entered))
<1> DEFINE new == Corrected(inv, check(inv), entered)
<1>1. TextsRight(new) /\ AllThere(new)
  BY FirstRound
<1>2. n + 1 >= 2 => LinesClose(new)
  BY LinesRound DEF Level
<1>3. n + 1 >= 3 => BasesClose(new) /\ NetsClose(new)
  BY NetsRound DEF Level
<1>4. n + 1 >= 4 => TaxesClose(new)
  BY TaxesRound DEF Level
<1>5. n + 1 >= 5 => VatClose(new)
  BY VatRound DEF Level
<1>6. n + 1 >= 6 => GrossClose(new)
  BY GrossRound DEF Level
<1>7. n + 1 >= 7 => DueClose(new)
  BY DueRound DEF Level
<1> HIDE DEF new
<1>8. Level(n + 1, new)
  BY <1>1, <1>2, <1>3, <1>4, <1>5, <1>6, <1>7 DEF Level
<1> QED
  BY <1>8 DEF new

\* After seven nothing is left to report.
LEMMA LastLevel ==
    ASSUME NEW inv, NEW n \in Nat, Level(n, inv), n >= 7
    PROVE  check(inv) = {}
<1>1. /\ TextsRight(inv) /\ AllThere(inv) /\ LinesClose(inv) /\ BasesClose(inv)
      /\ NetsClose(inv) /\ TaxesClose(inv) /\ VatClose(inv) /\ GrossClose(inv) /\ DueClose(inv)
  BY DEF Level
<1> QED
  BY <1>1, AllRightPasses

\* Two invoices with the same fields.
SameShape(inv, other) ==
    Len(inv.lines) = Len(other.lines) /\ Len(inv.vat_breakdown) = Len(other.vat_breakdown)

\* They have the same paths.
LEMMA SamePaths ==
    ASSUME NEW inv, NEW other, SameShape(inv, other)
    PROVE  Paths(inv) = Paths(other)
<1>1. LineIndices(inv) = LineIndices(other) /\ Entries(inv) = Entries(other)
  BY DEF SameShape, LineIndices, Entries
<1> QED
  BY <1>1 DEF Paths

\* A list keeps its length when one of its records changes.
LEMMA ListKeepsLength ==
    ASSUME NEW s, NEW names, IsList(s, names), NEW i, NEW x
    PROVE  Len([s EXCEPT ![i] = x]) = Len(s)
<1>1. Len(s) \in Nat /\ s = [j \in 1..Len(s) |-> s[j]]
  BY DEF IsList
<1>2. [s EXCEPT ![i] = x] = [j \in 1..Len(s) |-> [s EXCEPT ![i] = x][j]]
  BY <1>1
<1> QED
  BY <1>1, <1>2

\* Misreading one value keeps the fields.
LEMMA WithFieldKeepsShape ==
    ASSUME NEW inv, IsInvoice(inv), NEW path \in Paths(inv), NEW value
    PROVE  SameShape(WithField(inv, path, value), inv)
<1> DEFINE new == WithField(inv, path, value)
<1>1. inv = [n \in OfInvoice \cup (Roles \cup {"lines", "vat_breakdown", "totals"}) |-> inv[n]]
  BY DEF IsInvoice, IsRecord
<1>2. IsList(inv.lines, OfLine) /\ IsList(inv.vat_breakdown, OfEntry)
  BY DEF IsInvoice
<1>3. CASE path[1] \notin {"lines", "vat_breakdown"}
  <2>1. \A x : [inv EXCEPT ![path[1]] = x].lines = inv.lines
               /\ [inv EXCEPT ![path[1]] = x].vat_breakdown = inv.vat_breakdown
    BY <1>1, <1>3
  <2>2. new.lines = inv.lines /\ new.vat_breakdown = inv.vat_breakdown
    <3>1. Len(path) \in {1, 2, 3}
      BY DEF Paths
    <3>2. CASE Len(path) = 1
      BY <2>1, <3>2 DEF WithField
    <3>3. CASE Len(path) = 2
      <4> DEFINE x == [inv[path[1]] EXCEPT ![path[2]] = value]
      <4>1. new = [inv EXCEPT ![path[1]] = x]
        BY <3>3 DEF WithField
      <4> QED
        BY ONLY <2>1, <4>1
    <3>4. CASE Len(path) = 3
      <4> DEFINE x == [inv[path[1]] EXCEPT ![path[2]][path[3]] = value]
      <4>1. new = [inv EXCEPT ![path[1]] = x]
        BY <3>4 DEF WithField
      <4> QED
        BY ONLY <2>1, <4>1
    <3> QED
      BY <3>1, <3>2, <3>3, <3>4
  <2> QED
    BY <2>2 DEF SameShape
<1>4. CASE path[1] \in {"lines", "vat_breakdown"}
  <2>1. Len(path) = 3
    BY <1>4 DEF Paths, OfInvoice, Roles
  <2> DEFINE list == path[1]
             x == [inv[list] EXCEPT ![path[2]][path[3]] = value]
  <2>2. new = [inv EXCEPT ![list] = x]
    BY <2>1 DEF WithField
  <2>3. Len(x) = Len(inv[list])
    BY <1>2, <1>4, ListKeepsLength
  <2> HIDE DEF x
  <2>4. /\ new.lines = IF list = "lines" THEN x ELSE inv.lines
        /\ new.vat_breakdown = IF list = "vat_breakdown" THEN x ELSE inv.vat_breakdown
    BY <1>1, <1>4, <2>2
  <2> QED
    BY <2>3, <2>4 DEF SameShape
<1> QED
  BY <1>3, <1>4

\* So does correcting.
LEMMA CorrectedKeepsShape ==
    ASSUME NEW inv, IsInvoice(inv), NEW entered \in Int
    PROVE  SameShape(Corrected(inv, check(inv), entered), inv)
  BY CorrectedLists DEF SameShape

\* A value that suits its place is an amount, or missing.
LEMMA FieldSuits ==
    ASSUME NEW inv, IsInvoice(inv), NEW path \in Paths(inv)
    PROVE  Suits(NameOf(path), FieldAt(inv, path))
<1>1. CASE \E name \in OfInvoice : path = <<name>>
  <2>1. PICK name \in OfInvoice : path = <<name>>
    BY <1>1
  <2>2. Suits(name, inv[name])
    BY DEF IsInvoice, IsRecord
  <2>3. Len(path) = 1 /\ path[1] = name
    BY <2>1
  <2>4. NameOf(path) = name /\ FieldAt(inv, path) = inv[name]
    BY <2>3 DEF NameOf, FieldAt
  <2> QED
    BY <2>2, <2>4
<1>2. CASE \E role \in Roles, name \in OfParty : path = <<role, name>>
  <2>1. PICK role \in Roles, name \in OfParty : path = <<role, name>>
    BY <1>2
  <2>2. Suits(name, inv[role][name])
    BY DEF IsInvoice, IsRecord
  <2>3. Len(path) = 2 /\ path[1] = role /\ path[2] = name
    BY <2>1
  <2>4. NameOf(path) = name /\ FieldAt(inv, path) = inv[role][name]
    BY <2>3 DEF NameOf, FieldAt
  <2> QED
    BY <2>2, <2>4
<1>3. CASE \E role \in Roles, name \in OfAddress : path = <<role, "address", name>>
  <2>1. PICK role \in Roles, name \in OfAddress : path = <<role, "address", name>>
    BY <1>3
  <2>2. Suits(name, inv[role]["address"][name])
    BY DEF IsInvoice, IsRecord
  <2>3. Len(path) = 3 /\ path[1] = role /\ path[2] = "address" /\ path[3] = name
    BY <2>1
  <2>4. NameOf(path) = name /\ FieldAt(inv, path) = inv[role]["address"][name]
    BY <2>3 DEF NameOf, FieldAt
  <2> QED
    BY <2>2, <2>4
<1>4. CASE \E i \in LineIndices(inv), name \in OfLine : path = <<"lines", i, name>>
  <2>1. PICK i \in LineIndices(inv), name \in OfLine : path = <<"lines", i, name>>
    BY <1>4
  <2>2. Suits(name, inv["lines"][i][name])
    BY DEF IsInvoice, IsList, IsRecord, LineIndices
  <2>3. Len(path) = 3 /\ path[1] = "lines" /\ path[2] = i /\ path[3] = name
    BY <2>1
  <2>4. NameOf(path) = name /\ FieldAt(inv, path) = inv["lines"][i][name]
    BY <2>3 DEF NameOf, FieldAt
  <2> QED
    BY <2>2, <2>4
<1>5. CASE \E k \in Entries(inv), name \in OfEntry : path = <<"vat_breakdown", k, name>>
  <2>1. PICK k \in Entries(inv), name \in OfEntry : path = <<"vat_breakdown", k, name>>
    BY <1>5
  <2>2. Suits(name, inv["vat_breakdown"][k][name])
    BY DEF IsInvoice, IsList, IsRecord, Entries
  <2>3. Len(path) = 3 /\ path[1] = "vat_breakdown" /\ path[2] = k /\ path[3] = name
    BY <2>1
  <2>4. NameOf(path) = name /\ FieldAt(inv, path) = inv["vat_breakdown"][k][name]
    BY <2>3 DEF NameOf, FieldAt
  <2> QED
    BY <2>2, <2>4
<1>6. CASE \E name \in OfTotals : path = <<"totals", name>>
  <2>1. PICK name \in OfTotals : path = <<"totals", name>>
    BY <1>6
  <2>2. Suits(name, inv["totals"][name])
    BY DEF IsInvoice, IsRecord
  <2>3. Len(path) = 2 /\ path[1] = "totals" /\ path[2] = name
    BY <2>1
  <2>4. NameOf(path) = name /\ FieldAt(inv, path) = inv["totals"][name]
    BY <2>3 DEF NameOf, FieldAt
  <2> QED
    BY <2>2, <2>4
<1> QED
  BY <1>1, <1>2, <1>3, <1>4, <1>5, <1>6 DEF Paths

\* An amount that is off is still an amount.
LEMMA OffSuits ==
    ASSUME NEW inv, IsInvoice(inv), NEW path \in Paths(inv), NameOf(path) \in AmountNames,
           FieldAt(inv, path) # None, NEW delta \in Int
    PROVE  FieldAt(inv, path) \in Int /\ Suits(NameOf(path), FieldAt(inv, path) + delta)
<1>1. Suits(NameOf(path), FieldAt(inv, path))
  BY FieldSuits
<1>2. NameOf(path) \in NeverMissing \cup MayBeMissing
  BY DEF NeverMissing
<1>3. FieldAt(inv, path) \in Int
  BY <1>1, <1>2 DEF Suits
<1> QED
  BY <1>3 DEF Suits

-----------------------------------------------------------------------------
(* The invariant.                                                          *)

\* The report in hand is of the invoice in hand, of which no field was added or lost.
ReportIsOfTheInvoice == report = IF Checked THEN check(invoice) ELSE {}
PlacesStay == \E base \in Pages[page].invoices : SameShape(invoice, base)
SlipsAreCounted == IsFiniteSet(slips) /\ Cardinality(slips) <= Pages[page].slips

\* The inductive invariant.  What a property says of reports follows from the invoice that
\* was checked; that seven rounds are enough, from Level, which each round raises by one.
IInv ==
    /\ page \in DOMAIN Pages
    /\ IsInvoice(invoice)
    /\ stage \in {"unchecked", "checked", "crashed"}
    /\ rounds \in Nat
    /\ ReportIsOfTheInvoice
    /\ PlacesStay
    /\ SlipsAreCounted
    /\ Level(rounds, invoice)

\* The invariant holds: initially nothing needs to be right; a misreading happens before the
\* first round only; a check keeps the invoice; a correction reaches the next level.
LEMMA InvariantHolds == Spec => []IInv
<1> USE CheckingAssumption
<1>1. Init => IInv
  <2> SUFFICES ASSUME Init PROVE IInv
    OBVIOUS
  <2>1. page \in DOMAIN Pages /\ IsInvoice(invoice) /\ rounds = 0 /\ stage = "unchecked"
        /\ invoice \in Pages[page].invoices
    BY DEF Init
  <2>2. ReportIsOfTheInvoice
    BY DEF Init, ReportIsOfTheInvoice, Checked
  <2>3. PlacesStay
    BY <2>1 DEF PlacesStay, SameShape
  <2>4. SlipsAreCounted
    BY <2>1, FS_EmptySet DEF Init, SlipsAreCounted
  <2>5. Level(rounds, invoice)
    BY <2>1 DEF Level
  <2> QED
    BY <2>1, <2>2, <2>3, <2>4, <2>5 DEF IInv
<1>2. IInv /\ [Next]_vars => IInv'
  <2> SUFFICES ASSUME IInv, [Next]_vars PROVE IInv'
    OBVIOUS
  <2> USE DEF IInv
  <2>1. ASSUME NEW path \in Paths(invoice), NEW value, Suits(NameOf(path), value), NEW s,
               Misreadable(path), invoice' = WithField(invoice, path, value),
               slips' = slips \cup {s}, UNCHANGED <<page, stage, report, rounds>>
        PROVE  IInv'
    <3>1. IsInvoice(invoice')
      BY <2>1, WithFieldIsInvoice
    <3>2. PlacesStay'
      BY <2>1, WithFieldKeepsShape DEF PlacesStay, SameShape
    <3>3. SlipsAreCounted'
      <4>1. /\ IsFiniteSet(slips \cup {s})
            /\ Cardinality(slips \cup {s}) \in {Cardinality(slips), Cardinality(slips) + 1}
        BY FS_AddElement DEF SlipsAreCounted
      <4>2. Cardinality(slips) \in Nat /\ Pages[page].slips \in Nat
        BY FS_CardinalityType DEF SlipsAreCounted
      <4>3. Cardinality(slips) < Pages[page].slips
        BY <2>1 DEF Misreadable
      <4> QED
        BY <2>1, <4>1, <4>2, <4>3 DEF SlipsAreCounted
    <3>4. ReportIsOfTheInvoice'
      BY <2>1 DEF ReportIsOfTheInvoice, Checked, Misreadable
    <3>5. Level(rounds, invoice)'
      BY <2>1 DEF Level, Misreadable
    <3> QED
      BY <2>1, <3>1, <3>2, <3>3, <3>4, <3>5
  <2>2. ASSUME NEW path \in AmountPaths, NEW delta \in Pages[page].deltas, Slip(path, delta)
        PROVE  IInv'
    <3>1. path \in Paths(invoice) /\ NameOf(path) \in AmountNames
      BY DEF AmountPaths
    <3>2. delta \in Int
      BY <2>2
    <3>3. Suits(NameOf(path), FieldAt(invoice, path) + delta)
      BY <2>2, <3>1, <3>2, OffSuits DEF Slip
    <3> QED
      BY <2>1, <2>2, <3>1, <3>3 DEF Slip
  <2>3. ASSUME NEW m \in Pages[page].misreadings, Misread(m[1], m[2]) PROVE IInv'
    <3>1. PICK base \in Pages[page].invoices : SameShape(invoice, base)
      BY DEF PlacesStay
    <3>2. m[1] \in Paths(base) /\ Suits(NameOf(m[1]), m[2])
      BY <3>1
    <3>3. m[1] \in Paths(invoice)
      BY <3>1, <3>2, SamePaths
    <3> QED
      BY <2>1, <2>3, <3>2, <3>3 DEF Misread
  <2>4. CASE Check
    BY <2>4 DEF Check, ReportIsOfTheInvoice, Checked, PlacesStay, SlipsAreCounted
  <2>5. CASE CheckCrashes
    BY <2>5 DEF CheckCrashes, ReportIsOfTheInvoice, Checked, PlacesStay, SlipsAreCounted
  <2>6. ASSUME NEW entered \in Amounts, CorrectAll(entered) PROVE IInv'
    <3>1. entered \in Int /\ report = check(invoice)
      BY <2>6 DEF CorrectAll, ReportIsOfTheInvoice
    <3>2. invoice' = Corrected(invoice, check(invoice), entered) /\ rounds' = rounds + 1
      BY <2>6, <3>1 DEF CorrectAll
    <3>3. IsInvoice(invoice')
      BY <3>1, <3>2, CorrectedIsInvoice
    <3>4. Level(rounds', invoice')
      BY <3>1, <3>2, NextLevel
    <3>5. PlacesStay'
      BY <2>6, <3>1, <3>2, CorrectedKeepsShape DEF PlacesStay, SameShape, CorrectAll
    <3>6. ReportIsOfTheInvoice'
      BY <2>6 DEF CorrectAll, ReportIsOfTheInvoice, Checked
    <3> QED
      BY <2>6, <3>2, <3>3, <3>4, <3>5, <3>6 DEF CorrectAll, SlipsAreCounted, Level
  <2>7. CASE UNCHANGED vars
    BY <2>7 DEF vars, ReportIsOfTheInvoice, Checked, PlacesStay, SlipsAreCounted
  <2> QED
    BY <2>2, <2>3, <2>4, <2>5, <2>6, <2>7 DEF Next
<1> QED
  BY <1>1, <1>2, PTL DEF Spec

\* Whatever is misread and however the report is followed, the invoice stays one the schema
\* lets in, and the counters stay numbers.
THEOREM TypeCorrect == Spec => []TypeOK
<1>1. IInv => TypeOK
  <2> SUFFICES ASSUME IInv, NEW v \in report PROVE v.field \in Paths(invoice)
    BY DEF IInv, TypeOK, SlipsAreCounted
  <2>1. v \in check(invoice)
    BY DEF IInv, ReportIsOfTheInvoice
  <2> QED
    BY <2>1, ReportsAreToTheField DEF IInv, IsToTheField
<1> QED
  BY <1>1, InvariantHolds, PTL

\* An invoice that passes is off by four cents at most, from its lines and taxes to its
\* amount due, in every state.
THEOREM FourCentsHolds == Spec => []FourCentsAtMost
<1>1. IInv => FourCentsAtMost
  <2> SUFFICES ASSUME IInv, Clean
               PROVE  Abs(invoice.totals.amount_due - (_line_net_sum(invoice) + VatSum(invoice)))
                        <= 4 * TOLERANCE
    BY DEF FourCentsAtMost
  <2>1. check(invoice) = {} /\ IsInvoice(invoice)
    BY DEF IInv, ReportIsOfTheInvoice, Clean
  <2> QED
    BY <2>1, TolerancesAddUp
<1> QED
  BY <1>1, InvariantHolds, PTL

\* Whatever the invoice, its report does not contradict itself: it asks for one value in each
\* field, which is not the one that is there.
THEOREM OneValueHolds == Spec => []ReportAsksForOneValue
<1>1. IInv => ReportAsksForOneValue
  <2> SUFFICES ASSUME IInv, Checked
               PROVE  /\ \A v, w \in report : v.field = w.field => v = w
                      /\ \A v \in report : v.expected # Unknown =>
                            v.expected[1] # FieldAt(invoice, v.field) /\ v.expected # v.actual
    BY DEF ReportAsksForOneValue
  <2>1. report = check(invoice) /\ IsInvoice(invoice)
    BY DEF IInv, ReportIsOfTheInvoice
  <2> QED
    BY <2>1, OneValuePerField
<1> QED
  BY <1>1, InvariantHolds, PTL

\* Whatever was misread, in however many fields, seven rounds of correcting are enough: after
\* them check() reports nothing.
THEOREM SevenRoundsHold == Spec => []SevenRoundsAtMost
<1>1. IInv => SevenRoundsAtMost
  <2> SUFFICES ASSUME IInv, Checked, report # {}, ~(rounds < 7) PROVE FALSE
    BY DEF SevenRoundsAtMost
  <2>1. rounds >= 7 /\ Level(rounds, invoice) /\ rounds \in Nat
    BY DEF IInv
  <2>2. check(invoice) = {}
    BY <2>1, LastLevel
  <2> QED
    BY <2>2 DEF IInv, ReportIsOfTheInvoice
<1> QED
  BY <1>1, InvariantHolds, PTL

-----------------------------------------------------------------------------
(* To pass is to be right.                                                 *)

\* Where nothing is found, no rule found anything.
LEMMA UnionIsEmpty ==
    ASSUME NEW S, UNION S = {}, NEW T \in S
    PROVE  T = {}
  OBVIOUS

\* A comparison that reports nothing found the amounts close.
LEMMA AgreedIsClose ==
    ASSUME NEW a, NEW e, NEW rule, NEW field, _agrees(a, e, rule, field) = {}
    PROVE  Close(a, e)
  BY DEF _agrees, Close

\* A value that is not reported missing is there.
LEMMA NotMissing ==
    ASSUME NEW absent \in BOOLEAN, NEW rule, NEW field, _missing(absent, rule, field) = {}
    PROVE  ~absent
  BY DEF _missing

\* Right in all that the rules say.
AllRight(inv) ==
    /\ TextsRight(inv) /\ AllThere(inv)
    /\ LinesClose(inv) /\ BasesClose(inv) /\ TaxesClose(inv)
    /\ NetsClose(inv) /\ VatClose(inv) /\ GrossClose(inv) /\ DueClose(inv)

\* An invoice that passes has its texts and dates right.
LEMMA PassingHasTextsRight ==
    ASSUME NEW inv, check(inv) = {}
    PROVE  TextsRight(inv)
<1>1. /\ br_02_invoice_number(inv) = {} /\ br_04_invoice_type_code(inv) = {}
      /\ own_due_after_issue(inv) = {} /\ own_currency_known(inv) = {}
      /\ br_06_seller_name(inv) = {} /\ br_07_buyer_name(inv) = {}
      /\ br_62_seller_endpoint_scheme(inv) = {} /\ br_63_buyer_endpoint_scheme(inv) = {}
      /\ br_co_09_vat_identifiers(inv) = {} /\ br_23_quantity_unit(inv) = {}
  BY DEF check
<1>2. ~_empty(inv.number) /\ ~_empty(inv.type_code)
  BY <1>1, NotMissing, GoodIsNotEmpty DEF br_02_invoice_number, br_04_invoice_type_code
<1>3. inv.currency = "good" /\ (inv.due_date = None \/ inv.due_date >= inv.issue_date)
  BY <1>1 DEF own_due_after_issue, own_currency_known
<1>4. ~_empty(inv.seller.name) /\ ~_empty(inv.buyer.name)
  BY <1>1, NotMissing, GoodIsNotEmpty DEF br_06_seller_name, br_07_buyer_name
<1>5. /\ inv.seller.endpoint_id = None \/ ~_empty(inv.seller.endpoint_scheme_id)
      /\ inv.buyer.endpoint_id = None \/ ~_empty(inv.buyer.endpoint_scheme_id)
  BY <1>1 DEF br_62_seller_endpoint_scheme, br_63_buyer_endpoint_scheme, _missing
<1>6. /\ inv.seller.vat_id \notin {"blank", "no_prefix", "misshaped"}
      /\ inv.buyer.vat_id \notin {"blank", "no_prefix", "misshaped"}
  BY <1>1 DEF br_co_09_vat_identifiers
<1>7. ASSUME NEW i \in LineIndices(inv) PROVE ~_empty(inv.lines[i].quantity_unit_code)
  <2>1. _missing(_empty(inv.lines[i].quantity_unit_code), "BR-23",
                 <<"lines", i, "quantity_unit_code">>) = {}
    BY <1>1 DEF br_23_quantity_unit
  <2> QED
    BY <2>1, NotMissing, GoodIsNotEmpty
<1> QED
  BY <1>2, <1>3, <1>4, <1>5, <1>6, <1>7 DEF TextsRight, Roles

\* And everything else.
LEMMA PassingIsAllRight ==
    ASSUME NEW inv, check(inv) = {}
    PROVE  AllRight(inv)
<1>1. TextsRight(inv) /\ AllThere(inv)
  BY PassingHasTextsRight, PassingIsComplete DEF AllThere
<1>2. EveryNetIsThere(inv) /\ inv.totals.net_total # None /\ inv.totals.amount_due # None
  BY PassingIsComplete
<1>3. /\ own_line_math(inv) = {} /\ own_vat_base(inv) = {} /\ br_co_17_vat_per_rate(inv) = {}
      /\ br_co_10_line_total(inv) = {} /\ br_co_13_net_total(inv) = {}
      /\ br_co_14_vat_total(inv) = {} /\ br_co_15_gross_total(inv) = {}
      /\ br_co_16_amount_due(inv) = {}
  BY DEF check
<1>4. NetsClose(inv)
  BY <1>2, <1>3, AgreedIsClose DEF br_co_10_line_total, br_co_13_net_total, NetsClose
<1>5. VatClose(inv) /\ GrossClose(inv) /\ DueClose(inv)
  BY <1>2, <1>3, AgreedIsClose
     DEF br_co_14_vat_total, br_co_15_gross_total,
         br_co_16_amount_due, VatClose, GrossClose, DueClose
<1>6. ASSUME NEW i \in LineIndices(inv)
      PROVE  Close(inv.lines[i].net_amount, ExpectedNet(inv.lines[i]))
  <2>1. _agrees(inv.lines[i].net_amount, ExpectedNet(inv.lines[i]),
                "OWN-LINE-MATH", <<"lines", i, "net_amount">>) = {}
    BY <1>2, <1>3 DEF own_line_math, EveryNetIsThere
  <2> QED
    BY <2>1, AgreedIsClose
<1>7. ASSUME NEW k \in Entries(inv)
      PROVE  Close(inv.vat_breakdown[k].tax_amount, ExpectedTax(inv.vat_breakdown[k]))
  <2>1. _agrees(inv.vat_breakdown[k].tax_amount, ExpectedTax(inv.vat_breakdown[k]),
                "BR-CO-17", <<"vat_breakdown", k, "tax_amount">>) = {}
    BY <1>3 DEF br_co_17_vat_per_rate
  <2> QED
    BY <2>1, AgreedIsClose
<1>8. ASSUME NEW k \in Entries(inv), Compared(inv, k)
      PROVE  Close(inv.vat_breakdown[k].taxable_amount, NetAtRate(inv, inv.vat_breakdown[k].rate))
  <2>1. _agrees(inv.vat_breakdown[k].taxable_amount, NetAtRate(inv, inv.vat_breakdown[k].rate),
                "OWN-VAT-BASE", <<"vat_breakdown", k, "taxable_amount">>) = {}
    BY <1>2, <1>3, <1>8 DEF own_vat_base, Compared
  <2> QED
    BY <2>1, AgreedIsClose
<1> QED
  BY <1>1, <1>4, <1>5, <1>6, <1>7, <1>8 DEF AllRight, LinesClose, TaxesClose, BasesClose

\* To pass the rules is to be right in all of them.
LEMMA RightMeansPassing == ASSUME NEW inv PROVE check(inv) = {} <=> AllRight(inv)
  BY PassingIsAllRight, AllRightPasses DEF AllRight

\* What is a whole number of cents is printed as it is.
LEMMA CentsArePrinted ==
    ASSUME NEW k \in Int
    PROVE  money(CENT * k) = CENT * k
<1> USE ValidationAssumption
<1> DEFINE n == CENT * k
           q == n \div CENT
           r == n % CENT
<1>1. n \in Int
  BY Z3
<1>2. q \in Int /\ r \in Int /\ n = CENT * q + r /\ 0 <= r /\ r < CENT
  BY <1>1, Z3
<1>3. q = k /\ r = 0
  <2> HIDE DEF q, r
  <2>1. CENT * (k - q) = r
    BY <1>1, <1>2, Z3
  <2>2. CASE k - q >= 1
    <3>1. CENT * (k - q) >= CENT
      BY <1>2, <2>2, Z3
    <3> QED
      BY <1>2, <2>1, <3>1
  <2>3. CASE k - q <= -1
    <3>1. CENT * (k - q) <= -CENT
      BY <1>2, <2>3, Z3
    <3> QED
      BY <1>2, <2>1, <3>1
  <2>4. CASE k = q
    BY <1>1, <1>2, <2>1, <2>4, Z3
  <2> QED
    BY <1>2, <2>2, <2>3, <2>4
<1>4. money(n) = CENT * (IF 2 * r > CENT \/ (2 * r = CENT /\ q % 2 = 1) THEN q + 1 ELSE q)
  BY DEF money, HalfEven
<1> HIDE DEF q, r, n
<1>5. money(n) = CENT * k
  BY <1>3, <1>4
<1> QED
  BY <1>5 DEF n

\* What is printed, read and printed again stays the same.
LEMMA PrintedTwice ==
    ASSUME NEW n \in Int
    PROVE  money(n) \in Int /\ money(money(n)) = money(n)
  BY MoneyIsNearest, MoneyIsCents, CentsArePrinted

\* The same, for an amount that leaves no part of a cent.
LEMMA WholeCentsArePrinted ==
    ASSUME NEW n \in Int, n % CENT = 0
    PROVE  money(n) = n
<1>1. n = CENT * (n \div CENT) /\ n \div CENT \in Int
  BY ValidationAssumption, Z3
<1> QED
  BY <1>1, CentsArePrinted

-----------------------------------------------------------------------------
(* What the XML says, read back.                                           *)

\* The invoice that the XML says.
Back(inv) == ReadBack(ubl_render(inv))

\* The invoice's own values, read back from the XML, are as they were.
LEMMA HeaderReadBack ==
    ASSUME NEW inv
    PROVE  /\ Back(inv).number = inv.number /\ Back(inv).type_code = inv.type_code
           /\ Back(inv).currency = inv.currency /\ Back(inv).issue_date = inv.issue_date
           /\ Back(inv).due_date = inv.due_date /\ Back(inv).buyer_reference = inv.buyer_reference
  BY DEF Back, ReadBack, ubl_render

\* Seller and buyer read back are as they were, but for an empty city, and for the scheme of
\* an endpoint that is not there: neither is written.
LEMMA PartiesReadBack ==
    ASSUME NEW inv, IsInvoice(inv), NEW role \in Roles
    PROVE  LET party == Back(inv)[role]
           IN  /\ party.name = inv[role].name /\ party.vat_id = inv[role].vat_id
               /\ party.endpoint_id = inv[role].endpoint_id
               /\ party.endpoint_id # None
                    => party.endpoint_scheme_id = inv[role].endpoint_scheme_id
               /\ party.address.country_code = inv[role].address.country_code
               /\ party.address.city = _optional(inv[role].address.city)
<1>1. Back(inv)[role] =
        LET p == _party(inv[role])
        IN  [name |-> p.RegistrationName, vat_id |-> p.CompanyID, address |-> p.PostalAddress,
             endpoint_id |-> p.EndpointID, endpoint_scheme_id |-> p.schemeID]
  BY DEF Back, ReadBack, ubl_render, Roles
<1>2. /\ _address(inv[role].address).country_code = inv[role].address.country_code
      /\ _address(inv[role].address).city = _optional(inv[role].address.city)
  <2>1. {"city", "country_code"} \subseteq DOMAIN inv[role].address
    BY DEF IsInvoice, IsRecord, OfAddress
  <2> QED
    BY <2>1 DEF _address
<1> QED
  BY <1>1, <1>2 DEF _party

\* The totals read back are as they are printed.
LEMMA TotalsReadBack ==
    ASSUME NEW inv, AllThere(inv)
    PROVE  /\ Back(inv).totals = [line_net_total |-> money(inv.totals.line_net_total),
                                  net_total |-> money(inv.totals.net_total),
                                  vat_total |-> money(inv.totals.vat_total),
                                  gross_total |-> money(inv.totals.gross_total),
                                  amount_due |-> money(inv.totals.amount_due)]
<1>1. Back(inv).totals =
        [line_net_total |-> _totals(inv.totals).LineExtensionAmount,
         net_total |-> _totals(inv.totals).TaxExclusiveAmount,
         vat_total |-> _tax_total(inv).TaxAmount,
         gross_total |-> _totals(inv.totals).TaxInclusiveAmount,
         amount_due |-> _totals(inv.totals).PayableAmount]
  BY DEF Back, ReadBack, ubl_render
<1>2. /\ OrElse(inv.totals.net_total, inv.totals.line_net_total) = inv.totals.net_total
      /\ OrElse(inv.totals.amount_due, inv.totals.gross_total) = inv.totals.amount_due
  BY DEF AllThere, OrElse
<1> QED
  BY <1>1, <1>2 DEF _totals, _tax_total

\* The lines read back are as they are printed: the number of the line where it had none, no
\* rate as zero.
LEMMA LinesReadBack ==
    ASSUME NEW inv, IsInvoice(inv), AllThere(inv), TextsRight(inv)
    PROVE  /\ LineIndices(Back(inv)) = LineIndices(inv)
           /\ DOMAIN Back(inv).lines = LineIndices(inv)
           /\ \A i \in LineIndices(inv) : Back(inv).lines[i] =
                [identifier |-> OrElse(inv.lines[i].identifier, i), name |-> inv.lines[i].name,
                 quantity |-> inv.lines[i].quantity,
                 quantity_unit_code |-> inv.lines[i].quantity_unit_code,
                 net_price |-> money(inv.lines[i].net_price),
                 net_amount |-> money(inv.lines[i].net_amount),
                 vat_category_code |-> inv.lines[i].vat_category_code,
                 vat_rate |-> OrElse(inv.lines[i].vat_rate, 0)]
<1> DEFINE read(l) == [identifier |-> l.ID, name |-> l.Name, quantity |-> l.InvoicedQuantity,
                    quantity_unit_code |-> l.unitCode, net_price |-> l.PriceAmount,
                    net_amount |-> l.LineExtensionAmount, vat_category_code |-> l.TaxCategory,
                    vat_rate |-> l.Percent]
           s == [i \in LineIndices(inv) |-> read(_line(i, inv.lines[i]))]
<1>1. Back(inv).lines = s
  BY DEF Back, ReadBack, ubl_render
<1>2. Len(inv.lines) \in Nat
  BY LinesAreNumbers
<1>3. Len(s) = Len(inv.lines) /\ DOMAIN s = LineIndices(inv)
  BY <1>2 DEF LineIndices
<1>4. ASSUME NEW i \in LineIndices(inv)
      PROVE  s[i] = [identifier |-> OrElse(inv.lines[i].identifier, i), name |-> inv.lines[i].name,
                 quantity |-> inv.lines[i].quantity,
                 quantity_unit_code |-> inv.lines[i].quantity_unit_code,
                 net_price |-> money(inv.lines[i].net_price),
                 net_amount |-> money(inv.lines[i].net_amount),
                 vat_category_code |-> inv.lines[i].vat_category_code,
                 vat_rate |-> OrElse(inv.lines[i].vat_rate, 0)]
  <2>1. inv.lines[i].net_amount # None /\ inv.lines[i].quantity_unit_code # None
    BY DEF AllThere, EveryNetIsThere, TextsRight, _empty
  <2>2. /\ OrElse(inv.lines[i].net_amount, _line_net(inv.lines[i])) = inv.lines[i].net_amount
        /\ OrElse(inv.lines[i].quantity_unit_code, "C62") = inv.lines[i].quantity_unit_code
    BY <2>1 DEF OrElse
  <2>3. s[i] = read(_line(i, inv.lines[i]))
    OBVIOUS
  <2> HIDE DEF s
  <2> QED
    BY <2>2, <2>3 DEF _line
<1> HIDE DEF s, read
<1>5. LineIndices(Back(inv)) = LineIndices(inv)
  BY <1>1, <1>3 DEF LineIndices
<1> QED
  BY <1>1, <1>3, <1>4, <1>5

\* The breakdown entries read back are as they are printed.
LEMMA EntriesReadBack ==
    ASSUME NEW inv, IsInvoice(inv)
    PROVE  /\ Entries(Back(inv)) = Entries(inv)
           /\ DOMAIN Back(inv).vat_breakdown = Entries(inv)
           /\ \A k \in Entries(inv) : Back(inv).vat_breakdown[k] =
                [category_code |-> inv.vat_breakdown[k].category_code,
                 rate |-> inv.vat_breakdown[k].rate,
                 taxable_amount |-> money(inv.vat_breakdown[k].taxable_amount),
                 tax_amount |-> money(inv.vat_breakdown[k].tax_amount)]
<1> DEFINE s == [k \in Entries(inv) |->
                [category_code |-> inv.vat_breakdown[k].category_code,
                 rate |-> inv.vat_breakdown[k].rate,
                 taxable_amount |-> money(inv.vat_breakdown[k].taxable_amount),
                 tax_amount |-> money(inv.vat_breakdown[k].tax_amount)]]
<1>1. Back(inv).vat_breakdown = s
  BY DEF Back, ReadBack, ubl_render, _tax_total
<1>2. Len(inv.vat_breakdown) \in Nat
  BY EntriesAreNumbers
<1>3. Len(s) = Len(inv.vat_breakdown) /\ DOMAIN s = Entries(inv)
  BY <1>2 DEF Entries
<1>4. Entries(Back(inv)) = Entries(inv)
  BY <1>1, <1>3 DEF Entries
<1> QED
  BY <1>1, <1>4

\* JSON says of a printed amount what it says of the amount.
LEMMA MoneyReadBack ==
    ASSUME NEW n \in Int
    PROVE  _money(money(n)) = _money(n)
<1>1. money(n) \in Int /\ money(money(n)) = money(n)
  BY PrintedTwice
<1>2. n # None /\ money(n) # None
  BY <1>1, CheckingAssumption
<1> QED
  BY <1>1, <1>2 DEF _money

\* JSON says of the totals read back what it says of the totals.
LEMMA DocumentsOfTotals ==
    ASSUME NEW inv, IsInvoice(inv), AllThere(inv)
    PROVE  LET flat == json_render(inv)
               same == json_render(Back(inv))
           IN  /\ same.totals_line_net = flat.totals_line_net /\ same.totals_net = flat.totals_net
               /\ same.totals_vat = flat.totals_vat /\ same.totals_gross = flat.totals_gross
               /\ same.totals_due = flat.totals_due
<1> DEFINE totals == inv.totals
           back == Back(inv).totals
<1>1. /\ back.line_net_total = money(totals.line_net_total)
      /\ back.net_total = money(totals.net_total)
      /\ back.vat_total = money(totals.vat_total) /\ back.gross_total = money(totals.gross_total)
      /\ back.amount_due = money(totals.amount_due)
  <2>1. back = [line_net_total |-> money(totals.line_net_total),
                net_total |-> money(totals.net_total),
                vat_total |-> money(totals.vat_total), gross_total |-> money(totals.gross_total),
                amount_due |-> money(totals.amount_due)]
    BY TotalsReadBack
  <2> HIDE DEF back, totals
  <2> QED
    BY <2>1
<1>2. /\ totals.line_net_total \in Int /\ totals.net_total \in Int /\ totals.vat_total \in Int
      /\ totals.gross_total \in Int /\ totals.amount_due \in Int
  BY TotalsAreNumbers DEF TotalsType, AllThere
<1>3. None \notin Int
  BY CheckingAssumption
<1> HIDE DEF totals, back
<1>4. /\ _money(back.line_net_total) = _money(totals.line_net_total)
      /\ _money(back.net_total) = _money(totals.net_total)
      /\ _money(back.vat_total) = _money(totals.vat_total)
      /\ _money(back.gross_total) = _money(totals.gross_total)
      /\ _money(back.amount_due) = _money(totals.amount_due)
  BY <1>1, <1>2, <1>3, MoneyReadBack
<1> QED
  BY <1>4 DEF json_render, totals, back

\* Of a line read back it says the same, but for what the XML filled in.
LEMMA DocumentsOfLines ==
    ASSUME NEW inv, IsInvoice(inv), AllThere(inv), TextsRight(inv), NEW i \in LineIndices(inv)
    PROVE  LET flat == json_render(inv).lines[i]
               same == json_render(Back(inv)).lines[i]
           IN  same = [Numbered(flat) EXCEPT !.vat_rate = OrElse(@, 0)]
<1> DEFINE line == inv.lines[i]
           back == Back(inv).lines[i]
           shown(l) == [number |-> i, identifier |-> l.identifier, name |-> l.name,
                        quantity |-> l.quantity, unit |-> l.quantity_unit_code,
                        net_price |-> _money(l.net_price), net_amount |-> _money(l.net_amount),
                        vat_category |-> l.vat_category_code, vat_rate |-> l.vat_rate]
<1>1. json_render(inv).lines[i] = shown(line)
  BY DEF json_render
<1>2. i \in LineIndices(Back(inv))
  BY LinesReadBack
<1>3. json_render(Back(inv)).lines[i] = shown(back)
  BY <1>2 DEF json_render
<1>4. /\ back.identifier = OrElse(line.identifier, i) /\ back.name = line.name
      /\ back.quantity = line.quantity /\ back.quantity_unit_code = line.quantity_unit_code
      /\ back.net_price = money(line.net_price) /\ back.net_amount = money(line.net_amount)
      /\ back.vat_category_code = line.vat_category_code
      /\ back.vat_rate = OrElse(line.vat_rate, 0)
  <2>1. back = [identifier |-> OrElse(line.identifier, i), name |-> line.name,
                 quantity |-> line.quantity, quantity_unit_code |-> line.quantity_unit_code,
                 net_price |-> money(line.net_price), net_amount |-> money(line.net_amount),
                 vat_category_code |-> line.vat_category_code,
                 vat_rate |-> OrElse(line.vat_rate, 0)]
    BY LinesReadBack
  <2> HIDE DEF back, line
  <2> QED
    BY <2>1
<1>5. line.net_price \in Int /\ line.net_amount \in Int
  BY LinesAreNumbers DEF AllThere, EveryNetIsThere
<1>6. None \notin Int
  BY CheckingAssumption
<1> HIDE DEF line, back
<1>7. _money(back.net_price) = _money(line.net_price)
      /\ _money(back.net_amount) = _money(line.net_amount)
  BY <1>4, <1>5, <1>6, MoneyReadBack
<1>8. shown(back) = [Numbered(shown(line)) EXCEPT !.vat_rate = OrElse(@, 0)]
  <2> DEFINE numbered == [number |-> i, identifier |-> OrElse(line.identifier, i),
                          name |-> line.name, quantity |-> line.quantity,
                          unit |-> line.quantity_unit_code,
                          net_price |-> _money(line.net_price),
                          net_amount |-> _money(line.net_amount),
                          vat_category |-> line.vat_category_code, vat_rate |-> line.vat_rate]
  <2>1. Numbered(shown(line)) = numbered
    BY DEF Numbered
  <2>2. [numbered EXCEPT !.vat_rate = OrElse(@, 0)]
           = [number |-> i, identifier |-> OrElse(line.identifier, i),
              name |-> line.name, quantity |-> line.quantity,
              unit |-> line.quantity_unit_code,
              net_price |-> _money(line.net_price), net_amount |-> _money(line.net_amount),
              vat_category |-> line.vat_category_code, vat_rate |-> OrElse(line.vat_rate, 0)]
    OBVIOUS
  <2>3. shown(back)
           = [number |-> i, identifier |-> OrElse(line.identifier, i),
              name |-> line.name, quantity |-> line.quantity,
              unit |-> line.quantity_unit_code,
              net_price |-> _money(line.net_price), net_amount |-> _money(line.net_amount),
              vat_category |-> line.vat_category_code, vat_rate |-> OrElse(line.vat_rate, 0)]
    BY <1>4, <1>7
  <2> HIDE DEF shown, numbered
  <2> QED
    BY <2>1, <2>2, <2>3
<1> QED
  BY <1>1, <1>3, <1>8

\* Of the breakdown it says the same.
LEMMA DocumentsOfEntries ==
    ASSUME NEW inv, IsInvoice(inv)
    PROVE  json_render(Back(inv)).vat_breakdown = json_render(inv).vat_breakdown
<1> DEFINE shown(e) == [category |-> e.category_code, rate |-> e.rate,
                        taxable_amount |-> _money(e.taxable_amount),
                        tax_amount |-> _money(e.tax_amount)]
<1>1. json_render(inv).vat_breakdown = [k \in Entries(inv) |-> shown(inv.vat_breakdown[k])]
  BY DEF json_render
<1>2. json_render(Back(inv)).vat_breakdown
        = [k \in Entries(inv) |-> shown(Back(inv).vat_breakdown[k])]
  BY EntriesReadBack DEF json_render
<1>3. ASSUME NEW k \in Entries(inv)
      PROVE  shown(Back(inv).vat_breakdown[k]) = shown(inv.vat_breakdown[k])
  <2> DEFINE back == Back(inv).vat_breakdown[k]
             entry == inv.vat_breakdown[k]
  <2>1. /\ back.category_code = entry.category_code /\ back.rate = entry.rate
        /\ back.taxable_amount = money(entry.taxable_amount)
        /\ back.tax_amount = money(entry.tax_amount)
    <3>1. back = [category_code |-> entry.category_code, rate |-> entry.rate,
                  taxable_amount |-> money(entry.taxable_amount),
                  tax_amount |-> money(entry.tax_amount)]
      BY EntriesReadBack
    <3> HIDE DEF back, entry
    <3> QED
      BY <3>1
  <2>2. entry.taxable_amount \in Int /\ entry.tax_amount \in Int /\ None \notin Int
    BY EntriesAreNumbers, CheckingAssumption
  <2> HIDE DEF back, entry
  <2>3. /\ _money(back.taxable_amount) = _money(entry.taxable_amount)
        /\ _money(back.tax_amount) = _money(entry.tax_amount)
    BY <2>1, <2>2, MoneyReadBack
  <2>4. shown(back) = shown(entry)
    BY <2>1, <2>3
  <2> QED
    BY <2>4 DEF back, entry
<1> QED
  BY <1>1, <1>2, <1>3

\* Of the header and the parties it says the same, but for an empty city.
LEMMA DocumentsOfHeader ==
    ASSUME NEW inv, IsInvoice(inv)
    PROVE  LET flat == json_render(inv)
               same == json_render(Back(inv))
           IN  /\ \A key \in {"number", "issue_date", "due_date", "type_code", "currency",
                              "buyer_reference", "seller_name", "seller_vat_id", "seller_country",
                              "buyer_name", "buyer_vat_id", "buyer_country"} :
                     same[key] = flat[key]
               /\ \A key \in {"seller_city", "buyer_city"} : same[key] = _optional(flat[key])
<1>1. \A role \in {"seller", "buyer"} :
         /\ Back(inv)[role].name = inv[role].name /\ Back(inv)[role].vat_id = inv[role].vat_id
         /\ Back(inv)[role].address.country_code = inv[role].address.country_code
         /\ Back(inv)[role].address.city = _optional(inv[role].address.city)
  BY PartiesReadBack DEF Roles
<1> QED
  BY <1>1, HeaderReadBack DEF json_render

\* Of an invoice that passes, JSON says the same before and after the XML, but for what
\* the XML fills in of a line and for blank towns.
LEMMA DocumentsAgree ==
    ASSUME NEW inv, IsInvoice(inv), check(inv) = {}
    PROVE  LET flat == json_render(inv)
               same == json_render(ReadBack(ubl_render(inv)))
           IN  /\ \A key \in DOMAIN flat \ {"lines", "seller_city", "buyer_city"} :
                     same[key] = flat[key]
               /\ \A key \in {"seller_city", "buyer_city"} : same[key] = _optional(flat[key])
               /\ \A i \in DOMAIN flat.lines :
                     same.lines[i]
                        = [Numbered(flat.lines[i]) EXCEPT !.vat_rate = OrElse(@, 0)]
<1> DEFINE flat == json_render(inv)
           same == json_render(Back(inv))
<1>1. AllThere(inv) /\ TextsRight(inv)
  BY PassingIsAllRight DEF AllRight
<1>2. DOMAIN flat \ {"lines", "seller_city", "buyer_city"}
        = {"number", "issue_date", "due_date", "type_code", "currency",
           "buyer_reference", "seller_name", "seller_vat_id", "seller_country",
           "buyer_name", "buyer_vat_id", "buyer_country", "vat_breakdown",
           "totals_line_net", "totals_net", "totals_vat", "totals_gross", "totals_due"}
  BY DEF json_render
<1>3. DOMAIN flat.lines = LineIndices(inv)
  BY DEF json_render
<1>4. /\ \A key \in {"number", "issue_date", "due_date", "type_code", "currency",
                     "buyer_reference", "seller_name", "seller_vat_id", "seller_country",
                     "buyer_name", "buyer_vat_id", "buyer_country"} : same[key] = flat[key]
      /\ \A key \in {"seller_city", "buyer_city"} : same[key] = _optional(flat[key])
  BY DocumentsOfHeader
<1>5. same.vat_breakdown = flat.vat_breakdown
  BY DocumentsOfEntries
<1>6. /\ same.totals_line_net = flat.totals_line_net /\ same.totals_net = flat.totals_net
      /\ same.totals_vat = flat.totals_vat /\ same.totals_gross = flat.totals_gross
      /\ same.totals_due = flat.totals_due
  BY <1>1, DocumentsOfTotals
<1>7. \A i \in LineIndices(inv) :
         same.lines[i] = [Numbered(flat.lines[i]) EXCEPT !.vat_rate = OrElse(@, 0)]
  BY <1>1, DocumentsOfLines
<1> HIDE DEF flat, same
<1>8. /\ \A key \in DOMAIN flat \ {"lines", "seller_city", "buyer_city"} : same[key] = flat[key]
      /\ \A key \in {"seller_city", "buyer_city"} : same[key] = _optional(flat[key])
      /\ \A i \in DOMAIN flat.lines :
            same.lines[i] = [Numbered(flat.lines[i]) EXCEPT !.vat_rate = OrElse(@, 0)]
  BY <1>2, <1>3, <1>4, <1>5, <1>6, <1>7
<1> QED
  BY <1>8 DEF flat, same, Back

\* ubl.render and json_out.render, whatever was misread and corrected: of an invoice that
\* passes the XML says what the JSON says, except of a line without a rate, which the XML
\* charges at 0 %, of a line without an identifier, which it numbers, and of a blank town.
THEOREM RenderingsDoAgree == Spec => []RenderingsAgree
<1>1. IInv => RenderingsAgree
  <2> SUFFICES ASSUME IInv, Rendered PROVE RenderingsAgree
    BY DEF RenderingsAgree
  <2>1. check(invoice) = {} /\ IsInvoice(invoice)
    BY DEF IInv, ReportIsOfTheInvoice, Rendered, Clean
  <2> QED
    BY <2>1, DocumentsAgree DEF RenderingsAgree, SameButForLines, FromJson, FromXml
<1> QED
  BY <1>1, InvariantHolds, PTL

-----------------------------------------------------------------------------
(* What is read back passes.                                               *)

\* All amounts are in whole cents.
CentsOnly(inv) ==
    \A path \in Paths(inv) :
        NameOf(path) \in AmountNames \ {"quantity"} /\ FieldAt(inv, path) # None =>
            FieldAt(inv, path) % CENT = 0

\* In whole cents, a line is read back as it was.
LEMMA LinesReadBackExactly ==
    ASSUME NEW inv, IsInvoice(inv), AllThere(inv), TextsRight(inv), CentsOnly(inv),
           NEW i \in LineIndices(inv), inv.lines[i].vat_rate # None
    PROVE  /\ Back(inv).lines[i].quantity = inv.lines[i].quantity
           /\ Back(inv).lines[i].quantity_unit_code = inv.lines[i].quantity_unit_code
           /\ Back(inv).lines[i].net_price = inv.lines[i].net_price
           /\ Back(inv).lines[i].net_amount = inv.lines[i].net_amount
           /\ Back(inv).lines[i].vat_rate = inv.lines[i].vat_rate
<1> DEFINE line == inv.lines[i]
           back == Back(inv).lines[i]
<1>1. /\ back.quantity = line.quantity /\ back.quantity_unit_code = line.quantity_unit_code
      /\ back.net_price = money(line.net_price) /\ back.net_amount = money(line.net_amount)
      /\ back.vat_rate = OrElse(line.vat_rate, 0)
  <2>1. back = [identifier |-> OrElse(line.identifier, i), name |-> line.name,
                 quantity |-> line.quantity, quantity_unit_code |-> line.quantity_unit_code,
                 net_price |-> money(line.net_price), net_amount |-> money(line.net_amount),
                 vat_category_code |-> line.vat_category_code,
                 vat_rate |-> OrElse(line.vat_rate, 0)]
    BY LinesReadBack
  <2> HIDE DEF back, line
  <2> QED
    BY <2>1
<1>2. line.net_price \in Int /\ line.net_amount \in Int /\ None \notin Int
  BY LinesAreNumbers, CheckingAssumption DEF AllThere, EveryNetIsThere
<1>3. ASSUME NEW name \in {"net_price", "net_amount"} PROVE line[name] % CENT = 0
  <2> DEFINE path == <<"lines", i, name>>
  <2>1. name \in OfLine /\ name \in AmountNames \ {"quantity"}
    BY DEF OfLine, AmountNames
  <2>2. path \in Paths(inv) /\ NameOf(path) = name /\ FieldAt(inv, path) = line[name]
    BY <2>1, LinePath
  <2>3. line[name] # None
    BY <1>2
  <2> HIDE DEF path, line
  <2> QED
    BY <2>1, <2>2, <2>3 DEF CentsOnly
<1>4. money(line.net_price) = line.net_price /\ money(line.net_amount) = line.net_amount
  BY <1>2, <1>3, WholeCentsArePrinted
<1> QED
  BY <1>1, <1>4 DEF OrElse

\* So is a breakdown entry.
LEMMA EntriesReadBackExactly ==
    ASSUME NEW inv, IsInvoice(inv), CentsOnly(inv), NEW k \in Entries(inv)
    PROVE  /\ Back(inv).vat_breakdown[k].rate = inv.vat_breakdown[k].rate
           /\ Back(inv).vat_breakdown[k].taxable_amount = inv.vat_breakdown[k].taxable_amount
           /\ Back(inv).vat_breakdown[k].tax_amount = inv.vat_breakdown[k].tax_amount
<1> DEFINE entry == inv.vat_breakdown[k]
           back == Back(inv).vat_breakdown[k]
<1>1. /\ back.rate = entry.rate
      /\ back.taxable_amount = money(entry.taxable_amount)
      /\ back.tax_amount = money(entry.tax_amount)
  <2>1. back = [category_code |-> entry.category_code, rate |-> entry.rate,
                taxable_amount |-> money(entry.taxable_amount),
                tax_amount |-> money(entry.tax_amount)]
    BY EntriesReadBack
  <2> HIDE DEF back, entry
  <2> QED
    BY <2>1
<1>2. entry.taxable_amount \in Int /\ entry.tax_amount \in Int /\ None \notin Int
  BY EntriesAreNumbers, CheckingAssumption
<1>3. ASSUME NEW name \in {"taxable_amount", "tax_amount"} PROVE entry[name] % CENT = 0
  <2> DEFINE path == <<"vat_breakdown", k, name>>
  <2>1. name \in OfEntry /\ name \in AmountNames \ {"quantity"}
    BY DEF OfEntry, AmountNames
  <2>2. path \in Paths(inv) /\ NameOf(path) = name /\ FieldAt(inv, path) = entry[name]
    BY <2>1, EntryPath
  <2>3. entry[name] # None
    BY <1>2
  <2> HIDE DEF path, entry
  <2> QED
    BY <2>1, <2>2, <2>3 DEF CentsOnly
<1>4. money(entry.taxable_amount) = entry.taxable_amount
      /\ money(entry.tax_amount) = entry.tax_amount
  BY <1>2, <1>3, WholeCentsArePrinted
<1> QED
  BY <1>1, <1>4

\* So are the totals.
LEMMA TotalsReadBackExactly ==
    ASSUME NEW inv, IsInvoice(inv), AllThere(inv), CentsOnly(inv)
    PROVE  \A name \in OfTotals : Back(inv).totals[name] = inv.totals[name]
<1> DEFINE totals == inv.totals
           back == Back(inv).totals
<1>1. \A name \in OfTotals : back[name] = money(totals[name])
  <2>1. back = [line_net_total |-> money(totals.line_net_total),
                net_total |-> money(totals.net_total),
                vat_total |-> money(totals.vat_total), gross_total |-> money(totals.gross_total),
                amount_due |-> money(totals.amount_due)]
    BY TotalsReadBack
  <2> HIDE DEF back, totals
  <2> QED
    BY <2>1 DEF OfTotals
<1>2. \A name \in OfTotals : totals[name] \in Int
  BY TotalsAreNumbers DEF TotalsType, AllThere, OfTotals
<1>3. ASSUME NEW name \in OfTotals PROVE totals[name] % CENT = 0
  <2> DEFINE path == <<"totals", name>>
  <2>1. name \in AmountNames \ {"quantity"}
    BY DEF OfTotals, AmountNames
  <2>2. path \in Paths(inv) /\ NameOf(path) = name /\ FieldAt(inv, path) = totals[name]
    BY TotalsPath
  <2>3. totals[name] # None
    BY <1>2, CheckingAssumption
  <2> HIDE DEF path, totals
  <2> QED
    BY <2>1, <2>2, <2>3 DEF CentsOnly
<1> HIDE DEF totals, back
<1>4. \A name \in OfTotals : back[name] = totals[name]
  BY <1>1, <1>2, <1>3, WholeCentsArePrinted
<1> QED
  BY <1>4 DEF totals, back

\* Two invoices whose lines, entries and totals say the same are right alike.
LEMMA RightAlike ==
    ASSUME NEW inv, NEW back, LineIndices(back) = LineIndices(inv), Entries(back) = Entries(inv),
           \A i \in LineIndices(inv) :
              /\ back.lines[i].quantity = inv.lines[i].quantity
              /\ back.lines[i].quantity_unit_code = inv.lines[i].quantity_unit_code
              /\ back.lines[i].net_price = inv.lines[i].net_price
              /\ back.lines[i].net_amount = inv.lines[i].net_amount
              /\ back.lines[i].vat_rate = inv.lines[i].vat_rate,
           \A k \in Entries(inv) :
              /\ back.vat_breakdown[k].rate = inv.vat_breakdown[k].rate
              /\ back.vat_breakdown[k].taxable_amount = inv.vat_breakdown[k].taxable_amount
              /\ back.vat_breakdown[k].tax_amount = inv.vat_breakdown[k].tax_amount,
           \A name \in OfTotals : back.totals[name] = inv.totals[name],
           TextsRight(back), AllRight(inv)
    PROVE  AllRight(back)
<1>1. /\ back.totals.line_net_total = inv.totals.line_net_total
      /\ back.totals.net_total = inv.totals.net_total
      /\ back.totals.vat_total = inv.totals.vat_total
      /\ back.totals.gross_total = inv.totals.gross_total
      /\ back.totals.amount_due = inv.totals.amount_due
  BY DEF OfTotals
<1>2. AllThere(back)
  BY <1>1 DEF AllRight, AllThere, EveryNetIsThere
<1>3. /\ _line_net_sum(back) = _line_net_sum(inv)
      /\ \A rate : NetAtRate(back, rate) = NetAtRate(inv, rate)
      /\ VatSum(back) = VatSum(inv)
  <2>1. [i \in LineIndices(back) |-> back.lines[i].net_amount]
          = [i \in LineIndices(inv) |-> inv.lines[i].net_amount]
    OBVIOUS
  <2>2. ASSUME NEW rate
        PROVE  [i \in LineIndices(back) |->
                  IF back.lines[i].vat_rate = rate THEN back.lines[i].net_amount ELSE 0]
               = [i \in LineIndices(inv) |->
                  IF inv.lines[i].vat_rate = rate THEN inv.lines[i].net_amount ELSE 0]
    OBVIOUS
  <2>3. [k \in Entries(back) |-> back.vat_breakdown[k].tax_amount]
          = [k \in Entries(inv) |-> inv.vat_breakdown[k].tax_amount]
    OBVIOUS
  <2>4. _line_net_sum(back) = _line_net_sum(inv)
    BY <2>1 DEF _line_net_sum
  <2>5. ASSUME NEW rate PROVE NetAtRate(back, rate) = NetAtRate(inv, rate)
    BY <2>2 DEF NetAtRate
  <2>6. VatSum(back) = VatSum(inv)
    BY <2>3 DEF VatSum
  <2> QED
    BY <2>4, <2>5, <2>6
<1>4. LinesClose(back)
  BY DEF AllRight, LinesClose, ExpectedNet
<1>5. TaxesClose(back)
  BY DEF AllRight, TaxesClose, ExpectedTax
<1>6. BasesClose(back)
  <2> SUFFICES ASSUME NEW k \in Entries(back), Compared(back, k)
               PROVE  Close(back.vat_breakdown[k].taxable_amount,
                            NetAtRate(back, back.vat_breakdown[k].rate))
    BY DEF BasesClose
  <2>1. Compared(inv, k)
    BY DEF Compared, EveryNetIsThere
  <2>2. Close(inv.vat_breakdown[k].taxable_amount, NetAtRate(inv, inv.vat_breakdown[k].rate))
    BY <2>1 DEF AllRight, BasesClose
  <2> QED
    BY <1>3, <2>2
<1>7. NetsClose(back) /\ VatClose(back) /\ GrossClose(back) /\ DueClose(back)
  BY <1>1, <1>3 DEF AllRight, NetsClose, VatClose, GrossClose, DueClose
<1> QED
  BY <1>2, <1>4, <1>5, <1>6, <1>7 DEF AllRight

\* In whole cents, with every rate given, an invoice that passes does so read back from XML.
LEMMA ReadBackPasses ==
    ASSUME NEW inv, IsInvoice(inv), check(inv) = {}, CentsOnly(inv),
           \A i \in LineIndices(inv) : inv.lines[i].vat_rate # None
    PROVE  check(Back(inv)) = {}
<1>1. AllRight(inv) /\ AllThere(inv) /\ TextsRight(inv)
  BY PassingIsAllRight DEF AllRight
<1>2. LineIndices(Back(inv)) = LineIndices(inv) /\ Entries(Back(inv)) = Entries(inv)
  BY <1>1, LinesReadBack, EntriesReadBack
<1>3. \A i \in LineIndices(inv) :
         /\ Back(inv).lines[i].quantity = inv.lines[i].quantity
         /\ Back(inv).lines[i].quantity_unit_code = inv.lines[i].quantity_unit_code
         /\ Back(inv).lines[i].net_price = inv.lines[i].net_price
         /\ Back(inv).lines[i].net_amount = inv.lines[i].net_amount
         /\ Back(inv).lines[i].vat_rate = inv.lines[i].vat_rate
  BY <1>1, LinesReadBackExactly
<1>4. \A k \in Entries(inv) :
         /\ Back(inv).vat_breakdown[k].rate = inv.vat_breakdown[k].rate
         /\ Back(inv).vat_breakdown[k].taxable_amount = inv.vat_breakdown[k].taxable_amount
         /\ Back(inv).vat_breakdown[k].tax_amount = inv.vat_breakdown[k].tax_amount
  BY EntriesReadBackExactly
<1>5. \A name \in OfTotals : Back(inv).totals[name] = inv.totals[name]
  BY <1>1, TotalsReadBackExactly
<1>6. TextsRight(Back(inv))
  <2>1. ASSUME NEW role \in Roles
        PROVE  /\ ~_empty(Back(inv)[role].name)
               /\ \/ Back(inv)[role].endpoint_id = None
                  \/ ~_empty(Back(inv)[role].endpoint_scheme_id)
               /\ Back(inv)[role].vat_id \notin {"blank", "no_prefix", "misshaped"}
    BY <1>1, PartiesReadBack DEF TextsRight
  <2> QED
    BY <1>1, <1>2, <1>3, <2>1, HeaderReadBack DEF TextsRight
<1>7. AllRight(Back(inv))
  BY <1>1, <1>2, <1>3, <1>4, <1>5, <1>6, RightAlike
<1> QED
  BY <1>7, RightMeansPassing

\* Whatever was misread and corrected: if the amounts are in whole cents and every line has
\* its rate, what passes and is rendered passes again when it is read back.
THEOREM ReadBackDoesPass == Spec => []PassesWhenReadBack
<1>1. IInv => PassesWhenReadBack
  <2> SUFFICES ASSUME IInv, Rendered, InWholeCents(invoice),
                      \A i \in LineIndices(invoice) : invoice.lines[i].vat_rate # None
               PROVE  check(ReadBack(ubl_render(invoice))) = {}
    BY DEF PassesWhenReadBack
  <2>1. check(invoice) = {} /\ IsInvoice(invoice)
    BY DEF IInv, ReportIsOfTheInvoice, Rendered, Clean
  <2>2. CentsOnly(invoice)
    BY DEF InWholeCents, AmountPaths, CentsOnly
  <2> QED
    BY <2>1, <2>2, ReadBackPasses DEF Back
<1> QED
  BY <1>1, InvariantHolds, PTL

-----------------------------------------------------------------------------
(* A cent passes, more is caught: rounding, and sums in whole cents.       *)

\* Two whole numbers that are less than two apart, times d.
LEMMA LessThanTwo ==
    ASSUME NEW d \in Nat \ {0}, NEW a \in Int, NEW b \in Int, d * (a - b) < 2 * d
    PROVE  a - b <= 1
<1>1. CASE a - b >= 2
  <2>1. d * (a - b) >= d * 2
    BY <1>1, Z3
  <2> QED
    BY <2>1
<1> QED
  BY <1>1

\* Rounded numbers are as far apart as what was rounded, or one further; no further if
\* the one was whole.
LEMMA RoundingShifts ==
    ASSUME NEW d \in Nat \ {0}, NEW x \in Int, NEW y \in Int, y - x <= d,
           y - x < d \/ \E k \in Int : x = d * k \/ y = d * k
    PROVE  HalfUp(y, d) - HalfUp(x, d) <= 1
<1> DEFINE hx == HalfUp(x, d)
           hy == HalfUp(y, d)
<1>1. /\ hx \in Int /\ 2 * (x - d * hx) <= d /\ 2 * (d * hx - x) <= d
      /\ hy \in Int /\ 2 * (y - d * hy) <= d /\ 2 * (d * hy - y) <= d
  BY HalfUpIsNearest
<1> HIDE DEF hx, hy
<1>2. d * hx \in Int /\ d * hy \in Int /\ d * (hy - hx) = d * hy - d * hx
  BY <1>1, Z3
<1>3. CASE y - x < d
  <2>1. d * (hy - hx) < 2 * d
    BY <1>1, <1>2, <1>3
  <2> QED
    BY <1>1, <2>1, LessThanTwo DEF hx, hy
<1>4. ASSUME NEW k \in Int, NEW n \in Int, n = d * k, NEW h \in Int,
             2 * (n - d * h) <= d, 2 * (d * h - n) <= d
      PROVE  d * h = n
  <2>1. d * (k - h) = n - d * h /\ d * h \in Int
    BY <1>4, Z3
  <2>2. CASE k - h >= 1
    <3>1. d * (k - h) >= d
      BY <2>2, Z3
    <3> QED
      BY <1>4, <2>1, <3>1
  <2>3. CASE k - h <= -1
    <3>1. d * (k - h) <= -d
      BY <2>3, Z3
    <3> QED
      BY <1>4, <2>1, <3>1
  <2>4. CASE k = h
    BY <1>4, <2>4
  <2> QED
    BY <2>2, <2>3, <2>4
<1>5. ASSUME NEW k \in Int, x = d * k \/ y = d * k
      PROVE  hy - hx <= 1
  <2>1. d * hx = x \/ d * hy = y
    BY <1>1, <1>4, <1>5
  <2>2. d * (hy - hx) < 2 * d
    BY <1>1, <1>2, <2>1
  <2> QED
    BY <1>1, <2>2, LessThanTwo DEF hx, hy
<1> QED
  BY <1>3, <1>5 DEF hx, hy

\* Tax on a base that is a cent off at most is a cent off at most.
LEMMA TaxShifts ==
    ASSUME NEW base \in Int, NEW delta \in Int, NEW rate \in 0..100 * PERCENT,
           NEW k \in Int, base = CENT * k, Abs(delta) <= CENT
    PROVE  /\ _rounded((base + delta) * rate, 100 * PERCENT) \in Int
           /\ _rounded(base * rate, 100 * PERCENT) \in Int
           /\ Abs(_rounded(base * rate, 100 * PERCENT)
                   - _rounded((base + delta) * rate, 100 * PERCENT)) <= CENT
<1> USE ValidationAssumption
<1> DEFINE h == 100 * PERCENT
           d == h * CENT
           x == base * rate
           y == (base + delta) * rate
<1>0. h \in Nat \ {0} /\ rate \in Int /\ 0 <= rate /\ rate <= h
  BY Z3
<1> HIDE DEF h
<1>1. d \in Nat \ {0} /\ x \in Int /\ y \in Int /\ y - x = delta * rate
  BY <1>0, Z3
<1>2. -CENT <= delta /\ delta <= CENT
  BY DEF Abs
<1>3. delta * rate <= CENT * rate /\ -(CENT * rate) <= delta * rate
  BY <1>0, <1>2, Z3
<1>4. \/ CENT * rate < d
      \/ CENT * rate = d /\ \E n \in Int : x = d * n
  <2>1. CASE rate = h
    <3>1. CENT * rate = d /\ x = d * k
      BY <1>0, <2>1, Z3
    <3> QED
      BY <3>1
  <2>2. CASE rate < h
    BY <1>0, <2>2, Z3
  <2> QED
    BY <1>0, <2>1, <2>2
<1> HIDE DEF d, x, y
<1>5. CENT * rate \in Int /\ delta * rate \in Int
  BY <1>0, Z3
<1>6. y - x <= d /\ x - y <= d /\ ((y - x < d /\ x - y < d) \/ \E n \in Int : x = d * n)
  <2>1. CASE CENT * rate < d
    <3>1. y - x < d /\ x - y < d
      BY <1>1, <1>3, <1>5, <2>1
    <3> QED
      BY <1>1, <3>1
  <2>2. CASE CENT * rate = d /\ \E n \in Int : x = d * n
    <3>1. y - x <= d /\ x - y <= d
      BY <1>1, <1>3, <1>5, <2>2
    <3> QED
      BY <2>2, <3>1
  <2> QED
    BY <1>4, <2>1, <2>2
<1>7. HalfUp(y, d) - HalfUp(x, d) <= 1
  BY <1>1, <1>6, RoundingShifts
<1>8. HalfUp(x, d) - HalfUp(y, d) <= 1
  BY <1>1, <1>6, RoundingShifts
<1>9. HalfUp(x, d) \in Int /\ HalfUp(y, d) \in Int
  BY <1>1, HalfUpIsNearest
<1>10. /\ CENT * HalfUp(x, d) \in Int /\ CENT * HalfUp(y, d) \in Int
       /\ CENT * HalfUp(y, d) - CENT * HalfUp(x, d) = CENT * (HalfUp(y, d) - HalfUp(x, d))
       /\ CENT * (HalfUp(y, d) - HalfUp(x, d)) <= CENT
       /\ -CENT <= CENT * (HalfUp(y, d) - HalfUp(x, d))
  <2> DEFINE e == HalfUp(y, d) - HalfUp(x, d)
  <2>1. e \in Int /\ -1 <= e /\ e <= 1
    BY <1>7, <1>8, <1>9
  <2>2. CENT * e <= CENT /\ -CENT <= CENT * e
    <3> HIDE DEF e
    <3>1. e \in {-1, 0, 1}
      BY <2>1
    <3> QED
      BY <3>1
  <2> QED
    BY <1>9, <2>2, Z3
<1>11. _rounded(x, h) = CENT * HalfUp(x, d) /\ _rounded(y, h) = CENT * HalfUp(y, d)
  BY DEF _rounded, d
<1>12. Abs(_rounded(x, h) - _rounded(y, h)) <= CENT
  BY <1>10, <1>11 DEF Abs
<1> QED
  BY <1>10, <1>11, <1>12 DEF x, y, h

\* A whole number of cents.
Whole(n) == \E k \in Int : n = CENT * k

\* Whole numbers of cents add up to whole numbers of cents.
LEMMA WholeSums ==
    /\ Whole(0)
    /\ \A k \in Int : Whole(CENT * k)
    /\ \A a, b : Whole(a) /\ Whole(b) => Whole(a + b)
<1> USE ValidationAssumption
<1>1. Whole(0)
  <2>1. 0 \in Int /\ 0 = CENT * 0
    OBVIOUS
  <2> QED
    BY <2>1 DEF Whole
<1>2. ASSUME NEW a, NEW b, Whole(a), Whole(b) PROVE Whole(a + b)
  <2>1. PICK k \in Int : a = CENT * k
    BY <1>2 DEF Whole
  <2>2. PICK l \in Int : b = CENT * l
    BY <1>2 DEF Whole
  <2>3. CENT * k + CENT * l = CENT * (k + l) /\ k + l \in Int
    BY Z3
  <2> QED
    BY <2>1, <2>2, <2>3 DEF Whole
<1> QED
  BY <1>1, <1>2 DEF Whole

\* A sum of whole numbers of cents is one.
LEMMA TotalIsWhole ==
    ASSUME NEW s, Len(s) \in Nat, \A i \in 1..Len(s) : Whole(s[i])
    PROVE  Whole(Total(s))
<1> DEFINE n == Len(s)
<1>1. PICK f : Running(f, s, n) /\ Total(s) = f[n]
  BY TotalIsRunning
<1> DEFINE S == {i \in Nat : i <= n => Whole(f[i])}
<1>2. 0 \in S
  <2>1. f[0] = 0
    BY <1>1 DEF Running
  <2> QED
    BY <2>1, WholeSums
<1>3. ASSUME NEW i \in Nat, i \in S PROVE i + 1 \in S
  <2>1. SUFFICES ASSUME i + 1 <= n PROVE Whole(f[i + 1])
    OBVIOUS
  <2>2. f[i + 1] = f[i] + s[i + 1]
    BY <1>1, <2>1 DEF Running
  <2>3. Whole(f[i]) /\ Whole(s[i + 1])
    BY <1>3, <2>1
  <2> QED
    BY <2>2, <2>3, WholeSums
<1> HIDE DEF S
<1>4. Nat \subseteq S
  BY <1>2, <1>3, Induct
<1> QED
  BY <1>1, <1>4 DEF S

\* What an exact invoice taxes at a rate is a whole number of cents.
LEMMA BaseIsWhole ==
    ASSUME NEW inv, IsInvoice(inv), IsExact(inv), NEW rate
    PROVE  Whole(NetAtRate(inv, rate))
<1> DEFINE s == [i \in LineIndices(inv) |->
                   IF inv.lines[i].vat_rate = rate THEN inv.lines[i].net_amount ELSE 0]
<1>1. Len(s) \in Nat /\ Len(s) = Len(inv.lines)
  BY LinesAreNumbers DEF LineIndices
<1>2. ASSUME NEW i \in 1..Len(s) PROVE Whole(s[i])
  <2>1. i \in LineIndices(inv)
    BY <1>1 DEF LineIndices
  <2>2. Whole(inv.lines[i].net_amount)
    <3>1. inv.lines[i].quantity * inv.lines[i].net_price \in Int /\ PIECE * CENT \in Nat \ {0}
      BY <2>1, LinesAreNumbers, ValidationAssumption, Z3
    <3>2. HalfUp(inv.lines[i].quantity * inv.lines[i].net_price, PIECE * CENT) \in Int
      BY <3>1, HalfUpIsNearest
    <3>3. inv.lines[i].net_amount
            = CENT * HalfUp(inv.lines[i].quantity * inv.lines[i].net_price, PIECE * CENT)
      BY <2>1 DEF IsExact, ExpectedNet, _rounded
    <3> QED
      BY <3>2, <3>3, WholeSums
  <2>3. s[i] = IF inv.lines[i].vat_rate = rate THEN inv.lines[i].net_amount ELSE 0
    BY <2>1
  <2> QED
    BY <2>2, <2>3, WholeSums
<1> HIDE DEF s
<1>3. Whole(Total(s))
  BY <1>1, <1>2, TotalIsWhole
<1> QED
  BY <1>3 DEF NetAtRate, s

-----------------------------------------------------------------------------
(* One amount is off.                                                      *)

\* Two invoices that are alike but for net amounts, bases, taxes and totals.
AlikeButAmounts(inv, other) ==
    /\ LineIndices(other) = LineIndices(inv) /\ Entries(other) = Entries(inv)
    /\ \A name \in OfInvoice \cup Roles : other[name] = inv[name]
    /\ \A i \in LineIndices(inv) :
          /\ other.lines[i].quantity = inv.lines[i].quantity
          /\ other.lines[i].quantity_unit_code = inv.lines[i].quantity_unit_code
          /\ other.lines[i].net_price = inv.lines[i].net_price
          /\ other.lines[i].vat_rate = inv.lines[i].vat_rate
    /\ \A k \in Entries(inv) : other.vat_breakdown[k].rate = inv.vat_breakdown[k].rate

SameNets(inv, other) ==
    \A i \in LineIndices(inv) : other.lines[i].net_amount = inv.lines[i].net_amount
SameEntries(inv, other) ==
    \A k \in Entries(inv) :
        /\ other.vat_breakdown[k].taxable_amount = inv.vat_breakdown[k].taxable_amount
        /\ other.vat_breakdown[k].tax_amount = inv.vat_breakdown[k].tax_amount
SameTotals(inv, other) == \A name \in OfTotals : other.totals[name] = inv.totals[name]

\* They have the same texts and dates right.
LEMMA TextsAlike ==
    ASSUME NEW inv, NEW other, AlikeButAmounts(inv, other), TextsRight(inv)
    PROVE  TextsRight(other)
<1>1. /\ other.number = inv.number /\ other.type_code = inv.type_code
      /\ other.currency = inv.currency /\ other.due_date = inv.due_date
      /\ other.issue_date = inv.issue_date
  BY DEF AlikeButAmounts, OfInvoice
<1>2. \A role \in Roles : other[role] = inv[role]
  BY DEF AlikeButAmounts
<1>3. /\ LineIndices(other) = LineIndices(inv)
      /\ \A i \in LineIndices(inv) :
           other.lines[i].quantity_unit_code = inv.lines[i].quantity_unit_code
  BY DEF AlikeButAmounts
<1> QED
  BY <1>1, <1>2, <1>3 DEF TextsRight

\* What holds of an invoice that is exact, as numbers.
ExactFacts(inv) ==
    /\ TextsRight(inv) /\ EveryNetIsThere(inv)
    /\ \A i \in LineIndices(inv) :
          /\ inv.lines[i].net_amount \in Int /\ inv.lines[i].vat_rate # None
          /\ inv.lines[i].net_amount = ExpectedNet(inv.lines[i])
    /\ \A k \in Entries(inv) :
          /\ inv.vat_breakdown[k].taxable_amount \in Int /\ inv.vat_breakdown[k].tax_amount \in Int
          /\ inv.vat_breakdown[k].taxable_amount = NetAtRate(inv, inv.vat_breakdown[k].rate)
          /\ inv.vat_breakdown[k].tax_amount = ExpectedTax(inv.vat_breakdown[k])
    /\ \A name \in OfTotals : inv.totals[name] \in Int
    /\ inv.totals.line_net_total = _line_net_sum(inv)
    /\ inv.totals.net_total = inv.totals.line_net_total
    /\ inv.totals.vat_total = VatSum(inv)
    /\ inv.totals.gross_total = inv.totals.net_total + inv.totals.vat_total
    /\ inv.totals.amount_due = inv.totals.gross_total

\* That is what being exact means.
LEMMA ExactIsExact ==
    ASSUME NEW inv, IsInvoice(inv), IsExact(inv)
    PROVE  ExactFacts(inv)
<1>1. check(inv) = {}
  BY DEF IsExact
<1>2. TextsRight(inv) /\ AllThere(inv)
  BY <1>1, PassingIsAllRight DEF AllRight
<1>3. \A i \in LineIndices(inv) : inv.lines[i].net_amount \in Int
  BY <1>2, LinesAreNumbers DEF AllThere, EveryNetIsThere
<1>4. \A name \in OfTotals : inv.totals[name] \in Int
  BY <1>2, TotalsAreNumbers DEF AllThere, TotalsType, OfTotals
<1>5. \A k \in Entries(inv) :
         inv.vat_breakdown[k].taxable_amount \in Int /\ inv.vat_breakdown[k].tax_amount \in Int
  BY EntriesAreNumbers
<1> QED
  BY <1>2, <1>3, <1>4, <1>5 DEF IsExact, ExactFacts, AllThere

\* An amount that is off by d from an exact one is close if d is a cent at most.
LEMMA CloseIfExact ==
    /\ \A a \in Int : Close(a, a)
    /\ \A a, d \in Int : Close(a + d, a) <=> Abs(d) <= CENT
    /\ \A a, d \in Int : Close(a, a + d) <=> Abs(d) <= CENT
    /\ \A d \in Int : Abs(d) \in Nat
  BY ValidationAssumption DEF Close, Abs, TOLERANCE

\* Where nets and entries are the same, so are the sums.
LEMMA SumsAlike ==
    ASSUME NEW inv, NEW other, AlikeButAmounts(inv, other)
    PROVE  /\ SameNets(inv, other) => /\ _line_net_sum(other) = _line_net_sum(inv)
                                      /\ \A rate : NetAtRate(other, rate) = NetAtRate(inv, rate)
           /\ SameEntries(inv, other) => VatSum(other) = VatSum(inv)
<1>0. LineIndices(other) = LineIndices(inv) /\ Entries(other) = Entries(inv)
  BY DEF AlikeButAmounts
<1>1. ASSUME SameNets(inv, other) PROVE _line_net_sum(other) = _line_net_sum(inv)
  <2>1. [i \in LineIndices(other) |-> other.lines[i].net_amount]
          = [i \in LineIndices(inv) |-> inv.lines[i].net_amount]
    BY <1>0, <1>1 DEF SameNets
  <2> QED
    BY <2>1 DEF _line_net_sum
<1>2. ASSUME SameNets(inv, other), NEW rate PROVE NetAtRate(other, rate) = NetAtRate(inv, rate)
  <2>1. \A i \in LineIndices(inv) : other.lines[i].vat_rate = inv.lines[i].vat_rate
    BY DEF AlikeButAmounts
  <2>2. [i \in LineIndices(other) |->
           IF other.lines[i].vat_rate = rate THEN other.lines[i].net_amount ELSE 0]
        = [i \in LineIndices(inv) |->
           IF inv.lines[i].vat_rate = rate THEN inv.lines[i].net_amount ELSE 0]
    BY <1>0, <1>2, <2>1 DEF SameNets
  <2> QED
    BY <2>2 DEF NetAtRate
<1>3. ASSUME SameEntries(inv, other) PROVE VatSum(other) = VatSum(inv)
  <2>1. [k \in Entries(other) |-> other.vat_breakdown[k].tax_amount]
          = [k \in Entries(inv) |-> inv.vat_breakdown[k].tax_amount]
    BY <1>0, <1>3 DEF SameEntries
  <2> QED
    BY <2>1 DEF VatSum
<1> QED
  BY <1>1, <1>2, <1>3

\* What stays right with what it is compared with.
LEMMA RightStays ==
    ASSUME NEW inv, ExactFacts(inv), NEW other, AlikeButAmounts(inv, other)
    PROVE  /\ TextsRight(other)
           /\ SameNets(inv, other) => EveryNetIsThere(other) /\ LinesClose(other)
           /\ SameEntries(inv, other) => TaxesClose(other)
           /\ SameNets(inv, other) /\ SameEntries(inv, other) => BasesClose(other)
<1>1. TextsRight(other)
  BY TextsAlike DEF ExactFacts
<1>2. ASSUME SameNets(inv, other) PROVE EveryNetIsThere(other) /\ LinesClose(other)
  <2>1. LineIndices(other) = LineIndices(inv)
    BY DEF AlikeButAmounts
  <2>2. EveryNetIsThere(other)
    BY <1>2, <2>1 DEF ExactFacts, EveryNetIsThere, SameNets
  <2>3. ASSUME NEW i \in LineIndices(inv)
        PROVE  Close(other.lines[i].net_amount, ExpectedNet(other.lines[i]))
    <3>1. /\ other.lines[i].quantity = inv.lines[i].quantity
          /\ other.lines[i].net_price = inv.lines[i].net_price
      BY DEF AlikeButAmounts
    <3>2. ExpectedNet(other.lines[i]) = ExpectedNet(inv.lines[i])
      BY <3>1 DEF ExpectedNet
    <3> QED
      BY <1>2, <3>2, CloseIfExact DEF ExactFacts, SameNets
  <2> QED
    BY <2>1, <2>2, <2>3 DEF LinesClose
<1>3. ASSUME SameEntries(inv, other) PROVE TaxesClose(other)
  <2>1. ASSUME NEW k \in Entries(inv)
        PROVE  Close(other.vat_breakdown[k].tax_amount, ExpectedTax(other.vat_breakdown[k]))
    <3>1. other.vat_breakdown[k].rate = inv.vat_breakdown[k].rate
      BY DEF AlikeButAmounts
    <3>2. ExpectedTax(other.vat_breakdown[k]) = ExpectedTax(inv.vat_breakdown[k])
      BY <1>3, <3>1 DEF ExpectedTax, SameEntries
    <3> QED
      BY <1>3, <3>2, CloseIfExact DEF ExactFacts, SameEntries
  <2> QED
    BY <2>1 DEF TaxesClose, AlikeButAmounts
<1>4. ASSUME SameNets(inv, other), SameEntries(inv, other) PROVE BasesClose(other)
  <2>1. ASSUME NEW k \in Entries(inv)
        PROVE  Close(other.vat_breakdown[k].taxable_amount,
                     NetAtRate(other, other.vat_breakdown[k].rate))
    <3>1. other.vat_breakdown[k].rate = inv.vat_breakdown[k].rate
      BY DEF AlikeButAmounts
    <3>2. \A rate : NetAtRate(other, rate) = NetAtRate(inv, rate)
      BY <1>4, SumsAlike
    <3>3. /\ other.vat_breakdown[k].taxable_amount = inv.vat_breakdown[k].taxable_amount
          /\ inv.vat_breakdown[k].taxable_amount \in Int
          /\ inv.vat_breakdown[k].taxable_amount = NetAtRate(inv, inv.vat_breakdown[k].rate)
      BY <1>4 DEF ExactFacts, SameEntries
    <3> QED
      BY <3>1, <3>2, <3>3, CloseIfExact
  <2> QED
    BY <2>1 DEF BasesClose, AlikeButAmounts
<1> QED
  BY <1>1, <1>2, <1>3, <1>4

\* One total is off.
LEMMA TotalOff ==
    ASSUME NEW inv, ExactFacts(inv), NEW other, AlikeButAmounts(inv, other),
           SameNets(inv, other), SameEntries(inv, other), NEW delta \in Int, NEW name \in OfTotals,
           \A n \in OfTotals : other.totals[n] =
               IF n = name THEN inv.totals[n] + delta ELSE inv.totals[n]
    PROVE  AllRight(other) <=> Abs(delta) <= CENT
<1> DEFINE lines == _line_net_sum(inv)
           taxes == VatSum(inv)
           at(n) == IF n = name THEN delta ELSE 0
<1>1. lines \in Int /\ taxes \in Int
  BY DEF ExactFacts, OfTotals
<1>2. _line_net_sum(other) = lines /\ VatSum(other) = taxes
  BY SumsAlike
<1> HIDE DEF lines, taxes
<1>3. /\ other.totals.line_net_total = lines + at("line_net_total")
      /\ other.totals.net_total = lines + at("net_total")
      /\ other.totals.vat_total = taxes + at("vat_total")
      /\ other.totals.gross_total = lines + taxes + at("gross_total")
      /\ other.totals.amount_due = lines + taxes + at("amount_due")
  BY <1>1 DEF ExactFacts, OfTotals, lines, taxes
<1>4. other.totals.net_total # None /\ other.totals.amount_due # None
  <2>1. other.totals.net_total \in Int /\ other.totals.amount_due \in Int
    BY <1>1, <1>3
  <2> QED
    BY <2>1, CheckingAssumption
<1>5. /\ TextsRight(other) /\ AllThere(other)
      /\ LinesClose(other) /\ BasesClose(other) /\ TaxesClose(other)
  BY <1>4, RightStays DEF AllThere
<1>6. /\ NetsClose(other) <=> /\ Abs(at("line_net_total")) <= CENT
                              /\ Abs(at("net_total")) <= CENT
      /\ VatClose(other) <=> Abs(at("vat_total")) <= CENT
      /\ GrossClose(other) <=> Abs(at("gross_total") - at("net_total") - at("vat_total")) <= CENT
      /\ DueClose(other) <=> Abs(at("amount_due") - at("gross_total")) <= CENT
  BY <1>1, <1>2, <1>3, ValidationAssumption
     DEF NetsClose, VatClose, GrossClose, DueClose, Close, TOLERANCE, Abs
<1>7. /\ Abs(0) <= CENT /\ Abs(delta) = Abs(-delta)
  BY ValidationAssumption DEF Abs
<1>8. AllRight(other) <=> NetsClose(other) /\ VatClose(other) /\ GrossClose(other)
      /\ DueClose(other)
  BY <1>5 DEF AllRight
<1> QED
  BY <1>6, <1>8, ValidationAssumption DEF Abs, OfTotals

\* The totals stay right when what they add up is off by a cent at most.
LEMMA TotalsStayRight ==
    ASSUME NEW inv, ExactFacts(inv), NEW other, SameTotals(inv, other),
           NEW net \in Int, NEW vat \in Int, Abs(net) <= CENT, Abs(vat) <= CENT,
           _line_net_sum(other) = _line_net_sum(inv) + net, VatSum(other) = VatSum(inv) + vat
    PROVE  /\ NetsClose(other) /\ VatClose(other) /\ GrossClose(other) /\ DueClose(other)
           /\ other.totals.net_total # None /\ other.totals.amount_due # None
<1> DEFINE lines == _line_net_sum(inv)
           taxes == VatSum(inv)
<1>1. lines \in Int /\ taxes \in Int
  BY DEF ExactFacts, OfTotals
<1>2. /\ other.totals.line_net_total = lines /\ other.totals.net_total = lines
      /\ other.totals.vat_total = taxes
      /\ other.totals.gross_total = lines + taxes /\ other.totals.amount_due = lines + taxes
  BY DEF ExactFacts, SameTotals, OfTotals
<1> HIDE DEF lines, taxes
<1>3. _line_net_sum(other) = lines + net /\ VatSum(other) = taxes + vat
  BY DEF lines, taxes
<1>4. NetsClose(other) /\ VatClose(other) /\ GrossClose(other) /\ DueClose(other)
  BY <1>1, <1>2, <1>3, ValidationAssumption
     DEF NetsClose, VatClose, GrossClose, DueClose, Close, TOLERANCE, Abs
<1>5. lines + taxes \in Int
  BY <1>1
<1> QED
  BY <1>1, <1>2, <1>4, <1>5, CheckingAssumption

\* A line that is off by delta moves the sums it is part of by delta.
LEMMA NetsShift ==
    ASSUME NEW inv, ExactFacts(inv), IsInvoice(inv), NEW other, AlikeButAmounts(inv, other),
           NEW delta \in Int, NEW i \in LineIndices(inv),
           \A j \in LineIndices(inv) : other.lines[j].net_amount =
               IF j = i THEN inv.lines[j].net_amount + delta ELSE inv.lines[j].net_amount
    PROVE  /\ _line_net_sum(other) = _line_net_sum(inv) + delta
           /\ \A rate : NetAtRate(other, rate) =
                 NetAtRate(inv, rate) + IF inv.lines[i].vat_rate = rate THEN delta ELSE 0
<1>1. LineIndices(other) = LineIndices(inv) /\ Len(inv.lines) \in Nat
  BY LinesAreNumbers DEF AlikeButAmounts
<1>2. \A j \in LineIndices(inv) : inv.lines[j].net_amount \in Int
  BY DEF ExactFacts
<1>3. \A j \in LineIndices(inv) : other.lines[j].vat_rate = inv.lines[j].vat_rate
  BY DEF AlikeButAmounts
<1> DEFINE n == Len(inv.lines)
<1>4. _line_net_sum(other) = _line_net_sum(inv) + delta
  <2> DEFINE s == [j \in LineIndices(inv) |-> inv.lines[j].net_amount]
             t == [j \in LineIndices(other) |-> other.lines[j].net_amount]
  <2>1. Summands(s, n) /\ Shifted(t, s, n, i, delta) /\ i \in 1..n /\ n \in Nat
    BY <1>1, <1>2 DEF LineIndices, Summands, Shifted
  <2> HIDE DEF n, s, t
  <2>2. Total(t) = Total(s) + delta
    BY <2>1, TotalShifts
  <2> QED
    BY <2>2 DEF s, t, _line_net_sum
<1>5. ASSUME NEW rate
      PROVE  NetAtRate(other, rate) =
                NetAtRate(inv, rate) + IF inv.lines[i].vat_rate = rate THEN delta ELSE 0
  <2> DEFINE d == IF inv.lines[i].vat_rate = rate THEN delta ELSE 0
             s == [j \in LineIndices(inv) |->
                     IF inv.lines[j].vat_rate = rate THEN inv.lines[j].net_amount ELSE 0]
             t == [j \in LineIndices(other) |->
                     IF other.lines[j].vat_rate = rate THEN other.lines[j].net_amount ELSE 0]
  <2>1. Summands(s, n) /\ Shifted(t, s, n, i, d)
    BY <1>1, <1>2, <1>3 DEF LineIndices, Summands, Shifted
  <2>2. i \in 1..n /\ n \in Nat /\ d \in Int
    BY <1>1 DEF LineIndices
  <2> HIDE DEF n, s, t, d
  <2>3. Total(t) = Total(s) + d
    BY <2>1, <2>2, TotalShifts
  <2> QED
    BY <2>3 DEF s, t, d, NetAtRate
<1> QED
  BY <1>4, <1>5

\* One line is off.
LEMMA NetOff ==
    ASSUME NEW inv, ExactFacts(inv), IsInvoice(inv), NEW other, AlikeButAmounts(inv, other),
           SameEntries(inv, other), SameTotals(inv, other),
           NEW delta \in Int, NEW i \in LineIndices(inv),
           \A j \in LineIndices(inv) : other.lines[j].net_amount =
               IF j = i THEN inv.lines[j].net_amount + delta ELSE inv.lines[j].net_amount
    PROVE  AllRight(other) <=> Abs(delta) <= CENT
<1>1. LineIndices(other) = LineIndices(inv) /\ Entries(other) = Entries(inv)
  BY DEF AlikeButAmounts
<1>2. ASSUME NEW j \in LineIndices(inv)
      PROVE  /\ other.lines[j].net_amount \in Int
             /\ Close(other.lines[j].net_amount, ExpectedNet(other.lines[j]))
                   <=> j # i \/ Abs(delta) <= CENT
  <2>1. /\ other.lines[j].quantity = inv.lines[j].quantity
        /\ other.lines[j].net_price = inv.lines[j].net_price
    BY DEF AlikeButAmounts
  <2>2. ExpectedNet(other.lines[j]) = inv.lines[j].net_amount /\ inv.lines[j].net_amount \in Int
    BY <2>1 DEF ExpectedNet, ExactFacts
  <2>3. other.lines[j].net_amount =
          IF j = i THEN inv.lines[j].net_amount + delta ELSE inv.lines[j].net_amount
    OBVIOUS
  <2> DEFINE a == inv.lines[j].net_amount
  <2>4. a \in Int /\ other.lines[j].net_amount = IF j = i THEN a + delta ELSE a
    BY <2>2, <2>3
  <2>5. ExpectedNet(other.lines[j]) = a
    BY <2>2
  <2> HIDE DEF a
  <2>6. CASE j = i
    BY <2>4, <2>5, <2>6, CloseIfExact
  <2>7. CASE j # i
    BY <2>4, <2>5, <2>7, CloseIfExact
  <2> QED
    BY <2>6, <2>7
<1>3. EveryNetIsThere(other)
  BY <1>1, <1>2, CheckingAssumption DEF EveryNetIsThere
<1>4. LinesClose(other) <=> Abs(delta) <= CENT
  BY <1>1, <1>2 DEF LinesClose
<1>5. ASSUME Abs(delta) <= CENT PROVE AllRight(other)
  <2>1. VatSum(other) = VatSum(inv) + 0 /\ Abs(0) <= CENT
    <3>1. VatSum(other) = VatSum(inv) /\ VatSum(inv) \in Int
      BY SumsAlike DEF ExactFacts, OfTotals
    <3> QED
      BY <3>1, ValidationAssumption DEF Abs
  <2>2. _line_net_sum(other) = _line_net_sum(inv) + delta
    BY NetsShift
  <2>3. /\ NetsClose(other) /\ VatClose(other) /\ GrossClose(other) /\ DueClose(other)
        /\ other.totals.net_total # None /\ other.totals.amount_due # None
    BY <1>5, <2>1, <2>2, TotalsStayRight
  <2>4. BasesClose(other)
    <3>1. ASSUME NEW k \in Entries(inv)
          PROVE  Close(other.vat_breakdown[k].taxable_amount,
                       NetAtRate(other, other.vat_breakdown[k].rate))
      <4> DEFINE rate == inv.vat_breakdown[k].rate
                 d == IF inv.lines[i].vat_rate = rate THEN delta ELSE 0
      <4>1. other.vat_breakdown[k].rate = rate
        BY DEF AlikeButAmounts
      <4>2. /\ other.vat_breakdown[k].taxable_amount = NetAtRate(inv, rate)
            /\ NetAtRate(inv, rate) \in Int
        BY DEF SameEntries, ExactFacts
      <4>3. NetAtRate(other, rate) = NetAtRate(inv, rate) + d
        BY NetsShift
      <4>4. d \in Int /\ Abs(d) <= CENT
        BY <1>5, <2>1
      <4> HIDE DEF d, rate
      <4> QED
        BY <4>1, <4>2, <4>3, <4>4, CloseIfExact
    <3> QED
      BY <1>1, <3>1 DEF BasesClose
  <2>5. TextsRight(other) /\ TaxesClose(other)
    BY RightStays
  <2> QED
    BY <1>3, <1>4, <1>5, <2>3, <2>4, <2>5 DEF AllRight, AllThere
<1> QED
  BY <1>4, <1>5 DEF AllRight

\* One tax is off.
LEMMA TaxOff ==
    ASSUME NEW inv, ExactFacts(inv), IsInvoice(inv), NEW other, AlikeButAmounts(inv, other),
           SameNets(inv, other), SameTotals(inv, other),
           NEW delta \in Int, NEW k \in Entries(inv),
           \A e \in Entries(inv) :
              /\ other.vat_breakdown[e].taxable_amount = inv.vat_breakdown[e].taxable_amount
              /\ other.vat_breakdown[e].tax_amount =
                    IF e = k THEN inv.vat_breakdown[e].tax_amount + delta
                    ELSE inv.vat_breakdown[e].tax_amount
    PROVE  AllRight(other) <=> Abs(delta) <= CENT
<1>1. Entries(other) = Entries(inv)
  BY DEF AlikeButAmounts
<1>2. ASSUME NEW e \in Entries(inv)
      PROVE  Close(other.vat_breakdown[e].tax_amount, ExpectedTax(other.vat_breakdown[e]))
                 <=> e # k \/ Abs(delta) <= CENT
  <2>1. /\ other.vat_breakdown[e].taxable_amount = inv.vat_breakdown[e].taxable_amount
        /\ other.vat_breakdown[e].rate = inv.vat_breakdown[e].rate
    BY DEF AlikeButAmounts
  <2>2. /\ ExpectedTax(other.vat_breakdown[e]) = inv.vat_breakdown[e].tax_amount
        /\ inv.vat_breakdown[e].tax_amount \in Int
    BY <2>1 DEF ExpectedTax, ExactFacts
  <2>3. other.vat_breakdown[e].tax_amount =
          IF e = k THEN inv.vat_breakdown[e].tax_amount + delta ELSE inv.vat_breakdown[e].tax_amount
    OBVIOUS
  <2> DEFINE a == inv.vat_breakdown[e].tax_amount
  <2>4. a \in Int /\ other.vat_breakdown[e].tax_amount = IF e = k THEN a + delta ELSE a
    BY <2>2, <2>3
  <2>5. ExpectedTax(other.vat_breakdown[e]) = a
    BY <2>2
  <2> HIDE DEF a
  <2>6. CASE e = k
    BY <2>4, <2>5, <2>6, CloseIfExact
  <2>7. CASE e # k
    BY <2>4, <2>5, <2>7, CloseIfExact
  <2> QED
    BY <2>6, <2>7
<1>3. TaxesClose(other) <=> Abs(delta) <= CENT
  BY <1>1, <1>2 DEF TaxesClose
<1>4. VatSum(other) = VatSum(inv) + delta
  <2> DEFINE n == Len(inv.vat_breakdown)
             s == [e \in Entries(inv) |-> inv.vat_breakdown[e].tax_amount]
             t == [e \in Entries(other) |-> other.vat_breakdown[e].tax_amount]
  <2>1. n \in Nat
    BY EntriesAreNumbers
  <2>2. Summands(s, n) /\ Shifted(t, s, n, k, delta) /\ k \in 1..n
    BY <1>1, <2>1 DEF Entries, ExactFacts, Summands, Shifted
  <2> HIDE DEF n, s, t
  <2>3. Total(t) = Total(s) + delta
    BY <2>1, <2>2, TotalShifts
  <2> QED
    BY <2>3 DEF s, t, VatSum
<1>5. ASSUME Abs(delta) <= CENT PROVE AllRight(other)
  <2>1. _line_net_sum(other) = _line_net_sum(inv) + 0 /\ Abs(0) <= CENT
    <3>1. _line_net_sum(other) = _line_net_sum(inv) /\ _line_net_sum(inv) \in Int
      BY SumsAlike DEF ExactFacts, OfTotals
    <3> QED
      BY <3>1, ValidationAssumption DEF Abs
  <2>2. /\ NetsClose(other) /\ VatClose(other) /\ GrossClose(other) /\ DueClose(other)
        /\ other.totals.net_total # None /\ other.totals.amount_due # None
    BY <1>4, <1>5, <2>1, TotalsStayRight
  <2>3. BasesClose(other)
    <3>1. ASSUME NEW e \in Entries(inv)
          PROVE  Close(other.vat_breakdown[e].taxable_amount,
                       NetAtRate(other, other.vat_breakdown[e].rate))
      <4>1. other.vat_breakdown[e].rate = inv.vat_breakdown[e].rate
        BY DEF AlikeButAmounts
      <4>2. \A rate : NetAtRate(other, rate) = NetAtRate(inv, rate)
        BY SumsAlike
      <4>3. /\ other.vat_breakdown[e].taxable_amount = inv.vat_breakdown[e].taxable_amount
            /\ inv.vat_breakdown[e].taxable_amount \in Int
            /\ inv.vat_breakdown[e].taxable_amount = NetAtRate(inv, inv.vat_breakdown[e].rate)
        BY DEF ExactFacts
      <4> QED
        BY <4>1, <4>2, <4>3, CloseIfExact
    <3> QED
      BY <1>1, <3>1 DEF BasesClose
  <2>4. TextsRight(other) /\ EveryNetIsThere(other) /\ LinesClose(other)
    BY RightStays
  <2> QED
    BY <1>3, <1>5, <2>2, <2>3, <2>4 DEF AllRight, AllThere
<1> QED
  BY <1>3, <1>5 DEF AllRight

\* One base is off.
LEMMA BaseOff ==
    ASSUME NEW inv, IsExact(inv), IsInvoice(inv), NEW other, AlikeButAmounts(inv, other),
           SameNets(inv, other), SameTotals(inv, other),
           NEW delta \in Int, NEW k \in Entries(inv),
           \E i \in LineIndices(inv) : inv.lines[i].vat_rate = inv.vat_breakdown[k].rate,
           \A e \in Entries(inv) :
              /\ other.vat_breakdown[e].tax_amount = inv.vat_breakdown[e].tax_amount
              /\ other.vat_breakdown[e].taxable_amount =
                    IF e = k THEN inv.vat_breakdown[e].taxable_amount + delta
                    ELSE inv.vat_breakdown[e].taxable_amount
    PROVE  AllRight(other) <=> Abs(delta) <= CENT
<1>0. ExactFacts(inv)
  BY ExactIsExact
<1>1. Entries(other) = Entries(inv) /\ LineIndices(other) = LineIndices(inv)
  BY DEF AlikeButAmounts
<1>2. ASSUME NEW e \in Entries(inv)
      PROVE  Close(other.vat_breakdown[e].taxable_amount,
                   NetAtRate(other, other.vat_breakdown[e].rate)) <=> e # k \/ Abs(delta) <= CENT
  <2>1. other.vat_breakdown[e].rate = inv.vat_breakdown[e].rate
    BY DEF AlikeButAmounts
  <2>2. NetAtRate(other, inv.vat_breakdown[e].rate) = inv.vat_breakdown[e].taxable_amount
    BY <1>0, SumsAlike DEF ExactFacts
  <2>3. inv.vat_breakdown[e].taxable_amount \in Int
    BY <1>0 DEF ExactFacts
  <2>4. other.vat_breakdown[e].taxable_amount =
          IF e = k THEN inv.vat_breakdown[e].taxable_amount + delta
          ELSE inv.vat_breakdown[e].taxable_amount
    OBVIOUS
  <2> DEFINE a == inv.vat_breakdown[e].taxable_amount
  <2>5. a \in Int /\ other.vat_breakdown[e].taxable_amount = IF e = k THEN a + delta ELSE a
    BY <2>3, <2>4
  <2>6. NetAtRate(other, other.vat_breakdown[e].rate) = a
    BY <2>1, <2>2
  <2> HIDE DEF a
  <2> DEFINE t == other.vat_breakdown[e].taxable_amount
             sum == NetAtRate(other, other.vat_breakdown[e].rate)
  <2> SUFFICES Close(t, sum) <=> e # k \/ Abs(delta) <= CENT
    OBVIOUS
  <2>9. t = (IF e = k THEN a + delta ELSE a) /\ sum = a
    BY <2>5, <2>6
  <2> HIDE DEF t, sum
  <2>7. CASE e = k
    <3>1. Close(a + delta, a) <=> Abs(delta) <= CENT
      BY <2>5, CloseIfExact
    <3> QED
      BY <2>9, <2>7, <3>1
  <2>8. CASE e # k
    <3>1. Close(a, a)
      BY <2>5, CloseIfExact
    <3> QED
      BY <2>9, <2>8, <3>1
  <2> QED
    BY <2>7, <2>8
<1>3. TextsRight(other) /\ EveryNetIsThere(other) /\ LinesClose(other)
  BY <1>0, RightStays
<1>4. Compared(other, k)
  BY <1>0, <1>1, <1>3 DEF Compared, AlikeButAmounts, ExactFacts
<1>5. BasesClose(other) <=> Abs(delta) <= CENT
  BY <1>1, <1>2, <1>4 DEF BasesClose
<1>6. ASSUME Abs(delta) <= CENT PROVE AllRight(other)
  <2>1. ASSUME NEW e \in Entries(inv)
        PROVE  Close(other.vat_breakdown[e].tax_amount, ExpectedTax(other.vat_breakdown[e]))
    <3> DEFINE base == inv.vat_breakdown[e].taxable_amount
               rate == inv.vat_breakdown[e].rate
               d == IF e = k THEN delta ELSE 0
    <3>1. /\ other.vat_breakdown[e].rate = rate
          /\ other.vat_breakdown[e].tax_amount = ExpectedTax(inv.vat_breakdown[e])
      BY <1>0 DEF AlikeButAmounts, ExactFacts
    <3>2. base \in Int /\ rate \in 0..100 * PERCENT /\ Whole(base)
      BY <1>0, BaseIsWhole DEF ExactFacts, IsExact
    <3>3. other.vat_breakdown[e].taxable_amount = base + d /\ d \in Int /\ Abs(d) <= CENT
      BY <1>6, <3>2, ValidationAssumption DEF Abs
    <3>4. /\ ExpectedTax(inv.vat_breakdown[e]) = _rounded(base * rate, 100 * PERCENT)
          /\ ExpectedTax(other.vat_breakdown[e]) = _rounded((base + d) * rate, 100 * PERCENT)
      BY <3>1, <3>3 DEF ExpectedTax
    <3> HIDE DEF base, rate, d
    <3>5. PICK n \in Int : base = CENT * n
      BY <3>2 DEF Whole
    <3>6. Abs(_rounded(base * rate, 100 * PERCENT) - _rounded((base + d) * rate, 100 * PERCENT))
            <= CENT
      BY <3>2, <3>3, <3>5, TaxShifts
    <3> QED
      BY <3>1, <3>4, <3>6 DEF Close, TOLERANCE
  <2>2. TaxesClose(other)
    BY <1>1, <2>1 DEF TaxesClose
  <2>3. /\ _line_net_sum(other) = _line_net_sum(inv) + 0 /\ VatSum(other) = VatSum(inv) + 0
        /\ Abs(0) <= CENT
    <3>1. VatSum(other) = VatSum(inv)
      <4>1. [e \in Entries(other) |-> other.vat_breakdown[e].tax_amount]
              = [e \in Entries(inv) |-> inv.vat_breakdown[e].tax_amount]
        BY <1>1
      <4> QED
        BY <4>1 DEF VatSum
    <3>2. _line_net_sum(other) = _line_net_sum(inv)
      BY SumsAlike
    <3>3. VatSum(inv) \in Int /\ _line_net_sum(inv) \in Int
      BY <1>0 DEF ExactFacts, OfTotals
    <3> QED
      BY <3>1, <3>2, <3>3, ValidationAssumption DEF Abs
  <2>4. /\ NetsClose(other) /\ VatClose(other) /\ GrossClose(other) /\ DueClose(other)
        /\ other.totals.net_total # None /\ other.totals.amount_due # None
    BY <1>0, <2>3, TotalsStayRight
  <2> QED
    BY <1>3, <1>5, <1>6, <2>2, <2>4 DEF AllRight, AllThere
<1> QED
  BY <1>5, <1>6 DEF AllRight

-----------------------------------------------------------------------------
(* One amount is misread.                                                  *)

\* An invoice with another part.
LEMMA WithPart ==
    ASSUME NEW inv, IsInvoice(inv), NEW part \in {"lines", "vat_breakdown", "totals"}, NEW x
    PROVE  \A name \in OfInvoice \cup Roles \cup {"lines", "vat_breakdown", "totals"} :
              [inv EXCEPT ![part] = x][name] = IF name = part THEN x ELSE inv[name]
  BY DEF IsInvoice, IsRecord, OfInvoice, Roles

\* A list with another value in one of its records.
LEMMA WithValue ==
    ASSUME NEW s, NEW names, IsList(s, names), NEW i \in 1..Len(s), NEW n \in names, NEW v
    PROVE  LET t == [s EXCEPT ![i][n] = v]
           IN  /\ Len(t) = Len(s)
               /\ \A j \in 1..Len(s), m \in names : t[j][m] = IF j = i /\ m = n THEN v ELSE s[j][m]
<1> DEFINE r == [s[i] EXCEPT ![n] = v]
           t == [s EXCEPT ![i][n] = v]
<1>1. t = [s EXCEPT ![i] = r]
  BY DEF IsList
<1>2. Len(t) = Len(s)
  BY <1>1, ListKeepsLength
<1>3. \A m \in names : r[m] = IF m = n THEN v ELSE s[i][m]
  BY DEF IsList, IsRecord
<1>4. \A j \in 1..Len(s) : t[j] = IF j = i THEN r ELSE s[j]
  BY <1>1 DEF IsList
<1> QED
  BY <1>2, <1>3, <1>4

\* Misreading the amount of a line changes that only.
LEMMA LineMisread ==
    ASSUME NEW inv, IsInvoice(inv), NEW i \in LineIndices(inv),
           NEW name \in OfLine, name = "net_amount", NEW value
    PROVE  LET new == WithField(inv, <<"lines", i, name>>, value)
           IN  /\ AlikeButAmounts(inv, new) /\ SameEntries(inv, new) /\ SameTotals(inv, new)
               /\ \A j \in LineIndices(inv) : new.lines[j].net_amount =
                     IF j = i THEN value ELSE inv.lines[j].net_amount
<1> DEFINE path == <<"lines", i, name>>
           x == [inv.lines EXCEPT ![i][name] = value]
           new == WithField(inv, path, value)
<1>1. Len(path) = 3 /\ path[1] = "lines" /\ path[2] = i /\ path[3] = name
  OBVIOUS
<1> HIDE DEF path
<1>2. new = [inv EXCEPT !["lines"] = x]
  BY <1>1 DEF WithField, IsInvoice, IsRecord
<1>3. /\ Len(x) = Len(inv.lines)
      /\ \A j \in LineIndices(inv), m \in OfLine :
           x[j][m] = IF j = i /\ m = name THEN value ELSE inv.lines[j][m]
  <2> DEFINE s == inv.lines
  <2>1. IsList(s, OfLine) /\ i \in 1..Len(s)
    BY DEF IsInvoice, LineIndices
  <2>2. x = [s EXCEPT ![i][name] = value]
    OBVIOUS
  <2> HIDE DEF s, x
  <2>3. /\ Len(x) = Len(s)
        /\ \A l \in 1..Len(s), m \in OfLine : x[l][m] = IF l = i /\ m = name THEN value ELSE s[l][m]
    BY <2>1, <2>2, WithValue
  <2> QED
    BY <2>3 DEF s, LineIndices
<1> HIDE DEF x, new
<1>4. \A n \in OfInvoice \cup Roles \cup {"lines", "vat_breakdown", "totals"} :
         new[n] = IF n = "lines" THEN x ELSE inv[n]
  BY <1>2, WithPart
<1>5. \A j \in LineIndices(inv) : \A m \in OfLine \ {name} : x[j][m] = inv.lines[j][m]
  BY <1>3
<1>6. new.lines = x /\ new.vat_breakdown = inv.vat_breakdown /\ new.totals = inv.totals
  BY <1>4
<1>7. \A n \in OfInvoice \cup Roles : new[n] = inv[n]
  BY <1>4 DEF OfInvoice, Roles
<1>8. AlikeButAmounts(inv, new)
  <2>1. LineIndices(new) = LineIndices(inv) /\ Entries(new) = Entries(inv)
    BY <1>3, <1>6 DEF LineIndices, Entries
  <2>2. \A j \in LineIndices(inv) :
          /\ x[j].quantity = inv.lines[j].quantity
          /\ x[j].quantity_unit_code = inv.lines[j].quantity_unit_code
          /\ x[j].net_price = inv.lines[j].net_price
          /\ x[j].vat_rate = inv.lines[j].vat_rate
    BY <1>5 DEF OfLine
  <2> QED
    BY <1>6, <1>7, <2>1, <2>2 DEF AlikeButAmounts
<1>9. \A j \in LineIndices(inv) :
         x[j].net_amount = IF j = i THEN value ELSE inv.lines[j].net_amount
  BY <1>3 DEF OfLine
<1> QED
  BY <1>6, <1>8, <1>9 DEF SameEntries, SameTotals, new, path

\* One amount of an entry reads value, all others as before.
EntryReads(inv, new, k, name, value) ==
    \A e \in Entries(inv) :
        /\ new.vat_breakdown[e].taxable_amount =
             IF e = k /\ name = "taxable_amount" THEN value ELSE inv.vat_breakdown[e].taxable_amount
        /\ new.vat_breakdown[e].tax_amount =
             IF e = k /\ name = "tax_amount" THEN value ELSE inv.vat_breakdown[e].tax_amount

\* Misreading an amount of a breakdown entry changes that only.
LEMMA EntryMisread ==
    ASSUME NEW inv, IsInvoice(inv), NEW k \in Entries(inv),
           NEW name \in {"taxable_amount", "tax_amount"}, NEW value
    PROVE  LET new == WithField(inv, <<"vat_breakdown", k, name>>, value)
           IN  /\ AlikeButAmounts(inv, new) /\ SameNets(inv, new) /\ SameTotals(inv, new)
               /\ EntryReads(inv, new, k, name, value)
<1> DEFINE path == <<"vat_breakdown", k, name>>
           x == [inv.vat_breakdown EXCEPT ![k][name] = value]
           new == WithField(inv, path, value)
<1>1. Len(path) = 3 /\ path[1] = "vat_breakdown" /\ path[2] = k /\ path[3] = name
  OBVIOUS
<1> HIDE DEF path
<1>2. new = [inv EXCEPT !["vat_breakdown"] = x]
  BY <1>1 DEF WithField, IsInvoice, IsRecord
<1>3. /\ Len(x) = Len(inv.vat_breakdown)
      /\ \A e \in Entries(inv), m \in OfEntry :
           x[e][m] = IF e = k /\ m = name THEN value ELSE inv.vat_breakdown[e][m]
  <2>1. IsList(inv.vat_breakdown, OfEntry) /\ name \in OfEntry /\ k \in 1..Len(inv.vat_breakdown)
    BY DEF IsInvoice, OfEntry, Entries
  <2> QED
    BY <2>1, WithValue DEF Entries
<1> HIDE DEF x, new
<1>4. \A n \in OfInvoice \cup Roles \cup {"lines", "vat_breakdown", "totals"} :
         new[n] = IF n = "vat_breakdown" THEN x ELSE inv[n]
  BY <1>2, WithPart
<1>5. new.lines = inv.lines /\ new.vat_breakdown = x /\ new.totals = inv.totals
  BY <1>4
<1>6. \A n \in OfInvoice \cup Roles : new[n] = inv[n]
  BY <1>4 DEF OfInvoice, Roles
<1>7. \A e \in Entries(inv) :
         /\ x[e].rate = inv.vat_breakdown[e].rate
         /\ x[e].taxable_amount = IF e = k /\ name = "taxable_amount" THEN value
                                  ELSE inv.vat_breakdown[e].taxable_amount
         /\ x[e].tax_amount = IF e = k /\ name = "tax_amount" THEN value
                              ELSE inv.vat_breakdown[e].tax_amount
  BY <1>3 DEF OfEntry
<1>8. AlikeButAmounts(inv, new)
  <2>1. LineIndices(new) = LineIndices(inv) /\ Entries(new) = Entries(inv)
    BY <1>3, <1>5 DEF LineIndices, Entries
  <2> QED
    BY <1>5, <1>6, <1>7, <2>1 DEF AlikeButAmounts
<1> QED
  BY <1>5, <1>7, <1>8 DEF SameNets, SameTotals, EntryReads, new, path

\* Misreading a total changes that only.
LEMMA TotalMisread ==
    ASSUME NEW inv, IsInvoice(inv), NEW name \in OfTotals, NEW value
    PROVE  LET new == WithField(inv, <<"totals", name>>, value)
           IN  /\ AlikeButAmounts(inv, new) /\ SameNets(inv, new) /\ SameEntries(inv, new)
               /\ \A n \in OfTotals : new.totals[n] = IF n = name THEN value ELSE inv.totals[n]
<1> DEFINE path == <<"totals", name>>
           x == [inv.totals EXCEPT ![name] = value]
           new == WithField(inv, path, value)
<1>1. Len(path) = 2 /\ path[1] = "totals" /\ path[2] = name
  OBVIOUS
<1> HIDE DEF path
<1>2. new = [inv EXCEPT !["totals"] = x]
  BY <1>1 DEF WithField, IsInvoice, IsRecord
<1>3. \A n \in OfTotals : x[n] = IF n = name THEN value ELSE inv.totals[n]
  BY DEF IsInvoice, IsRecord
<1> HIDE DEF x, new
<1>4. \A n \in OfInvoice \cup Roles \cup {"lines", "vat_breakdown", "totals"} :
         new[n] = IF n = "totals" THEN x ELSE inv[n]
  BY <1>2, WithPart
<1>5. new.lines = inv.lines /\ new.vat_breakdown = inv.vat_breakdown /\ new.totals = x
  BY <1>4
<1>6. \A n \in OfInvoice \cup Roles : new[n] = inv[n]
  BY <1>4 DEF OfInvoice, Roles
<1>7. AlikeButAmounts(inv, new)
  BY <1>5, <1>6 DEF AlikeButAmounts, LineIndices, Entries
<1> QED
  BY <1>3, <1>5, <1>7 DEF SameNets, SameEntries, new, path

\* One amount of an exact invoice is off by delta.
LEMMA SlipIsJudged ==
    ASSUME NEW inv, IsInvoice(inv), IsExact(inv), NEW path \in Paths(inv), NEW delta \in Int,
           NameOf(path) \in AmountNames \ {"quantity", "net_price"},
           NEW new, new = WithField(inv, path, FieldAt(inv, path) + delta),
           NameOf(path) = "taxable_amount" =>
               \E i \in LineIndices(new) : new.lines[i].vat_rate = new.vat_breakdown[path[2]].rate
    PROVE  check(new) = {} <=> Abs(delta) <= CENT
<1>0. ExactFacts(inv)
  BY ExactIsExact
<1>1. CASE \E i \in LineIndices(inv), name \in OfLine : path = <<"lines", i, name>>
  <2>1. PICK i \in LineIndices(inv), name \in OfLine : path = <<"lines", i, name>>
    BY <1>1
  <2>2. Len(path) = 3 /\ path[1] = "lines" /\ path[2] = i /\ path[3] = name
    BY <2>1
  <2>3. name = "net_amount" /\ FieldAt(inv, path) = inv.lines[i].net_amount
    BY <2>2 DEF NameOf, FieldAt, OfLine, AmountNames, OfTotals
  <2> DEFINE value == FieldAt(inv, path) + delta
  <2>4. /\ AlikeButAmounts(inv, new) /\ SameEntries(inv, new) /\ SameTotals(inv, new)
        /\ \A j \in LineIndices(inv) : new.lines[j].net_amount =
              IF j = i THEN value ELSE inv.lines[j].net_amount
    BY <2>1, <2>3, LineMisread
  <2>5. \A j \in LineIndices(inv) : new.lines[j].net_amount =
            IF j = i THEN inv.lines[j].net_amount + delta ELSE inv.lines[j].net_amount
    BY <2>3, <2>4
  <2>6. AllRight(new) <=> Abs(delta) <= CENT
    BY ONLY <1>0, <2>1, <2>4, <2>5, IsInvoice(inv), delta \in Int, NetOff
  <2> QED
    BY <2>6, RightMeansPassing
<1>2. CASE \E k \in Entries(inv), name \in OfEntry : path = <<"vat_breakdown", k, name>>
  <2>1. PICK k \in Entries(inv), name \in OfEntry : path = <<"vat_breakdown", k, name>>
    BY <1>2
  <2>2. Len(path) = 3 /\ path[1] = "vat_breakdown" /\ path[2] = k /\ path[3] = name
    BY <2>1
  <2>3. name \in {"taxable_amount", "tax_amount"} /\ FieldAt(inv, path) = inv.vat_breakdown[k][name]
    BY <2>2 DEF NameOf, FieldAt, OfEntry, AmountNames, OfTotals
  <2> DEFINE value == FieldAt(inv, path) + delta
  <2>0. /\ AlikeButAmounts(inv, new) /\ SameNets(inv, new) /\ SameTotals(inv, new)
        /\ EntryReads(inv, new, k, name, value)
    <3>1. new = WithField(inv, <<"vat_breakdown", k, name>>, value)
      BY <2>1
    <3> HIDE DEF value
    <3> QED
      BY ONLY <3>1, <2>1, <2>3, IsInvoice(inv), EntryMisread
  <2>4. /\ AlikeButAmounts(inv, new) /\ SameNets(inv, new) /\ SameTotals(inv, new)
        /\ \A e \in Entries(inv) :
              /\ new.vat_breakdown[e].taxable_amount =
                    IF e = k /\ name = "taxable_amount" THEN value
                    ELSE inv.vat_breakdown[e].taxable_amount
              /\ new.vat_breakdown[e].tax_amount =
                    IF e = k /\ name = "tax_amount" THEN value
                    ELSE inv.vat_breakdown[e].tax_amount
    BY <2>0 DEF EntryReads
  <2>5. CASE name = "tax_amount"
    <3>1. \A e \in Entries(inv) :
             /\ new.vat_breakdown[e].taxable_amount = inv.vat_breakdown[e].taxable_amount
             /\ new.vat_breakdown[e].tax_amount =
                   IF e = k THEN inv.vat_breakdown[e].tax_amount + delta
                   ELSE inv.vat_breakdown[e].tax_amount
      BY <2>3, <2>4, <2>5
    <3>2. AllRight(new) <=> Abs(delta) <= CENT
      BY ONLY <1>0, <2>1, <2>4, <3>1, IsInvoice(inv), delta \in Int, TaxOff
    <3> QED
      BY <3>2, RightMeansPassing
  <2>6. CASE name = "taxable_amount"
    <3>1. \A e \in Entries(inv) :
             /\ new.vat_breakdown[e].tax_amount = inv.vat_breakdown[e].tax_amount
             /\ new.vat_breakdown[e].taxable_amount =
                   IF e = k THEN inv.vat_breakdown[e].taxable_amount + delta
                   ELSE inv.vat_breakdown[e].taxable_amount
      BY <2>3, <2>4, <2>6
    <3>2. \E i \in LineIndices(inv) : inv.lines[i].vat_rate = inv.vat_breakdown[k].rate
      <4>1. PICK i \in LineIndices(new) : new.lines[i].vat_rate = new.vat_breakdown[k].rate
        BY <2>2, <2>6 DEF NameOf
      <4> QED
        BY <2>4, <4>1 DEF AlikeButAmounts
    <3>3. AllRight(new) <=> Abs(delta) <= CENT
      BY ONLY <2>1, <2>4, <3>1, <3>2, IsInvoice(inv), IsExact(inv), delta \in Int, BaseOff
    <3> QED
      BY <3>3, RightMeansPassing
  <2> QED
    BY <2>3, <2>5, <2>6
<1>3. CASE \E name \in OfTotals : path = <<"totals", name>>
  <2>1. PICK name \in OfTotals : path = <<"totals", name>>
    BY <1>3
  <2>2. Len(path) = 2 /\ path[1] = "totals" /\ path[2] = name
    BY <2>1
  <2>3. FieldAt(inv, path) = inv.totals[name]
    BY <2>2 DEF FieldAt
  <2> DEFINE value == FieldAt(inv, path) + delta
  <2>4. /\ AlikeButAmounts(inv, new) /\ SameNets(inv, new) /\ SameEntries(inv, new)
        /\ \A n \in OfTotals : new.totals[n] = IF n = name THEN value ELSE inv.totals[n]
    BY <2>1, TotalMisread
  <2>5. \A n \in OfTotals : new.totals[n] =
            IF n = name THEN inv.totals[n] + delta ELSE inv.totals[n]
    BY <2>3, <2>4
  <2>6. AllRight(new) <=> Abs(delta) <= CENT
    BY ONLY <1>0, <2>1, <2>4, <2>5, delta \in Int, TotalOff
  <2> QED
    BY <2>6, RightMeansPassing
<1>4. \/ \E name \in OfInvoice : path = <<name>>
      \/ \E role \in Roles, name \in OfParty : path = <<role, name>>
      \/ \E role \in Roles, name \in OfAddress : path = <<role, "address", name>>
      => FALSE
  <2>1. ASSUME NEW name \in OfInvoice, path = <<name>> PROVE FALSE
    BY <2>1 DEF NameOf, OfInvoice, AmountNames, OfTotals
  <2>2. ASSUME NEW role \in Roles, NEW name \in OfParty, path = <<role, name>> PROVE FALSE
    BY <2>2 DEF NameOf, OfParty, AmountNames, OfTotals
  <2>3. ASSUME NEW role \in Roles, NEW name \in OfAddress, path = <<role, "address", name>>
        PROVE  FALSE
    BY <2>3 DEF NameOf, OfAddress, AmountNames, OfTotals
  <2> QED
    BY <2>1, <2>2, <2>3
<1> QED
  BY <1>1, <1>2, <1>3, <1>4 DEF Paths

\* Before the first correction: the invoice is one of the page's, or off by its one slip.
Slipped(s, inv) ==
    \E base \in Pages[page].invoices :
        /\ s.path \in Paths(base) /\ NameOf(s.path) \in AmountNames
        /\ FieldAt(base, s.path) \in Int /\ s.by \in Int
        /\ inv = WithField(base, s.path, FieldAt(base, s.path) + s.by)
SlipsSay ==
    rounds = 0 =>
        /\ slips = {} => invoice \in Pages[page].invoices
        /\ \A s : slips = {s} => s.by = None \/ Slipped(s, invoice)

\* Until the first correction, the invoice is what the slips say.
LEMMA SlipsAreSaid == Spec => []SlipsSay
<1> USE CheckingAssumption
<1>1. Init => SlipsSay
  BY DEF Init, SlipsSay
<1>2. IInv /\ SlipsSay /\ [Next]_vars => SlipsSay'
  <2> SUFFICES ASSUME IInv, SlipsSay, [Next]_vars PROVE SlipsSay'
    OBVIOUS
  <2>1. ASSUME NEW path \in AmountPaths, NEW delta \in Pages[page].deltas, Slip(path, delta)
        PROVE  SlipsSay'
    <3> DEFINE new == [path |-> path, by |-> delta]
    <3>1. slips' = slips \cup {new} /\ \A s \in slips : s # new
      BY <2>1 DEF Slip, Misreadable
    <3>2. new.path = path /\ new.by = delta
      OBVIOUS
    <3> HIDE DEF new
    <3>3. ASSUME NEW s, slips' = {s} PROVE Slipped(s, invoice)'
      <4>1. slips = {} /\ s = new
        BY <3>1, <3>3
      <4>2. invoice \in Pages[page].invoices /\ page' = page
        BY <2>1, <4>1 DEF SlipsSay, Slip, Misreadable
      <4>3. path \in Paths(invoice) /\ NameOf(path) \in AmountNames
        BY DEF AmountPaths
      <4>4. delta \in Int /\ FieldAt(invoice, path) \in Int
        BY <2>1, <4>3, OffSuits DEF IInv, Slip
      <4>5. invoice' = WithField(invoice, path, FieldAt(invoice, path) + delta)
        BY <2>1 DEF Slip
      <4> QED
        BY <3>2, <4>1, <4>2, <4>3, <4>4, <4>5 DEF Slipped
    <3> QED
      BY <3>1, <3>3 DEF SlipsSay
  <2>2. ASSUME NEW m \in Pages[page].misreadings, Misread(m[1], m[2]) PROVE SlipsSay'
    <3> DEFINE new == [path |-> m[1], by |-> None]
    <3>1. slips' = slips \cup {new} /\ \A s \in slips : s # new
      BY <2>2 DEF Misread, Misreadable
    <3>2. new.by = None
      OBVIOUS
    <3> HIDE DEF new
    <3> QED
      BY <3>1, <3>2 DEF SlipsSay
  <2>3. ASSUME UNCHANGED <<page, invoice, rounds, slips>> PROVE SlipsSay'
    BY <2>3 DEF SlipsSay, Slipped
  <2>4. ASSUME NEW entered \in Amounts, CorrectAll(entered) PROVE SlipsSay'
    BY <2>4 DEF CorrectAll, IInv, SlipsSay
  <2> QED
    BY <2>1, <2>2, <2>3, <2>4 DEF Next, Check, CheckCrashes, vars
<1> QED
  BY <1>1, <1>2, InvariantHolds, PTL DEF Spec

\* One amount of an exact invoice that is off by a cent passes, one that is off by more is
\* caught, whichever amount of an invoice of any size it is: lines, taxes, bases, totals.
THEOREM ACentDoesPass ==
    ASSUME ExactPages
    PROVE  Spec => []ACentPassesMoreIsCaught
<1>1. IInv /\ SlipsSay => ACentPassesMoreIsCaught
  <2> SUFFICES ASSUME IInv, SlipsSay, Checked, rounds = 0, Cardinality(slips) = 1,
                      NEW s \in slips, s.by # None, s.path \in ComparedPaths
               PROVE  Clean <=> Abs(s.by) <= CENT
    BY DEF ACentPassesMoreIsCaught
  <2>1. slips = {s}
    BY FS_Singleton DEF IInv, SlipsAreCounted
  <2>2. Slipped(s, invoice)
    BY <2>1 DEF SlipsSay
  <2>3. PICK base \in Pages[page].invoices :
           /\ s.path \in Paths(base) /\ s.by \in Int
           /\ invoice = WithField(base, s.path, FieldAt(base, s.path) + s.by)
    BY <2>2 DEF Slipped
  <2>4. IsInvoice(base) /\ IsExact(base)
    BY CheckingAssumption DEF IInv, ExactPages
  <2>5. /\ NameOf(s.path) \in AmountNames \ {"quantity", "net_price"}
        /\ NameOf(s.path) = "taxable_amount" =>
              \E i \in LineIndices(invoice) :
                  invoice.lines[i].vat_rate = invoice.vat_breakdown[s.path[2]].rate
    BY DEF ComparedPaths, AmountPaths
  <2>6. check(invoice) = {} <=> Abs(s.by) <= CENT
    BY <2>3, <2>4, <2>5, SlipIsJudged
  <2> QED
    BY <2>6 DEF Clean, IInv, ReportIsOfTheInvoice
<1> QED
  BY <1>1, InvariantHolds, SlipsAreSaid, PTL

=============================================================================
