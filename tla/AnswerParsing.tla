---------------------------- MODULE AnswerParsing ----------------------------
(***************************************************************************)
(* From the text of an answer to an invoice, or to what is wrong with it:  *)
(* _invoice_of (src/src/extract/extractor.py), the schema it validates     *)
(* against and describe_errors (src/src/schema.py).                        *)
(*                                                                         *)
(* A JSON value is a tree: a function from paths, of keys and indices, to  *)
(* nodes.  A node is [t |-> "object"], "list" or "null", a text [t, s] or  *)
(* a number [t, n].                                                        *)
(***************************************************************************)
EXTENDS SequencesExt, TLC

Null == [t |-> "null"]
Text(s) == [t |-> "text", s |-> s]
Number(t, n) == [t |-> t, n |-> n]
Container(t) == [t |-> t]

\* The paths from the root to p, without p.
Above(p) == {SubSeq(p, 1, n) : n \in 0..(Len(p) - 1)}

\* The tree with cell, another tree, in place of what is at path.
With(tree, path, cell) ==
    [p \in {q \in DOMAIN tree : ~IsPrefix(path, q)} \cup {path \o q : q \in DOMAIN cell} |->
        IF IsPrefix(path, p) THEN cell[SubSeq(p, Len(path) + 1, Len(p))] ELSE tree[p]]

\* What json.loads() can make of a text: what is below something is in something, an
\* object or a list, and only an object has names in it.
IsTree(tree) ==
    \A p \in DOMAIN tree :
        /\ p \in Seq(STRING)
        /\ Above(p) \subseteq DOMAIN tree
        /\ p # <<>> =>
              LET around == tree[SubSeq(p, 1, Len(p) - 1)].t
              IN  around = "object" \/ (around = "list" /\ p[Len(p)] # "value")

-----------------------------------------------------------------------------
(* The schema: for every model its fields, each with what it holds, whether  *)
(* it must be there, and its term (two, where the seller's is another one    *)
(* than the buyer's).  A read field is a Field[...] wrapper.                 *)

Read(type, bt) == [kind |-> "read", of |-> type, required |-> TRUE, bt |-> bt]
MayRead(type, bt) == [Read(type, bt) EXCEPT !.required = FALSE]
Part(model) == [kind |-> "part", of |-> model, required |-> TRUE, bt |-> <<>>]
Several(model) == [kind |-> "several", of |-> model, required |-> TRUE, bt |-> <<>>]

PostalAddress ==
    [line_one |-> MayRead("text", <<"BT-35", "BT-50">>),
     line_two |-> MayRead("text", <<"BT-36", "BT-51">>),
     city |-> MayRead("text", <<"BT-37", "BT-52">>),
     post_code |-> MayRead("text", <<"BT-38", "BT-53">>),
     country_subdivision |-> MayRead("text", <<"BT-39", "BT-54">>),
     country_code |-> Read("code", <<"BT-40", "BT-55">>)]

Party ==
    [name |-> Read("text", <<"BT-27", "BT-44">>),
     vat_id |-> MayRead("text", <<"BT-31", "BT-48">>),
     address |-> Part("PostalAddress"),
     endpoint_id |-> MayRead("text", <<"BT-34", "BT-49">>),
     endpoint_scheme_id |-> MayRead("text", <<"BT-34-1", "BT-49-1">>)]

InvoiceLine ==
    [identifier |-> MayRead("text", <<"BT-126">>), name |-> Read("text", <<"BT-153">>),
     quantity |-> Read("money", <<"BT-129">>),
     quantity_unit_code |-> MayRead("text", <<"BT-130">>),
     net_price |-> Read("money", <<"BT-146">>), net_amount |-> MayRead("money", <<"BT-131">>),
     vat_category_code |-> Read("text", <<"BT-151">>), vat_rate |-> MayRead("money", <<"BT-152">>)]

VatBreakdown ==
    [category_code |-> Read("text", <<"BT-118">>), rate |-> Read("money", <<"BT-119">>),
     taxable_amount |-> Read("money", <<"BT-116">>), tax_amount |-> Read("money", <<"BT-117">>)]

Totals ==
    [line_net_total |-> Read("money", <<"BT-106">>), net_total |-> MayRead("money", <<"BT-109">>),
     vat_total |-> Read("money", <<"BT-110">>), gross_total |-> Read("money", <<"BT-112">>),
     amount_due |-> MayRead("money", <<"BT-115">>)]

\* Without the two fields that are never read off the page (OURS_NOT_THE_MODELS).
Invoice ==
    [number |-> Read("text", <<"BT-1">>), issue_date |-> Read("date", <<"BT-2">>),
     type_code |-> MayRead("text", <<"BT-3">>), currency |-> Read("code", <<"BT-5">>),
     due_date |-> MayRead("date", <<"BT-9">>), buyer_reference |-> MayRead("text", <<"BT-10">>),
     seller |-> Part("Party"), buyer |-> Part("Party"),
     lines |-> Several("InvoiceLine"), vat_breakdown |-> Several("VatBreakdown"),
     totals |-> Part("Totals")]

Schema == [PostalAddress |-> PostalAddress, Party |-> Party, InvoiceLine |-> InvoiceLine,
           VatBreakdown |-> VatBreakdown, Totals |-> Totals, Invoice |-> Invoice]

\* The names of fields are strings, like all keys of a path; TLC knows, the provers do not.
ASSUME NamesAreStrings ==
    /\ "value" \in STRING
    /\ \A model \in DOMAIN Schema : DOMAIN Schema[model] \subseteq STRING

\* What the schema has at a path: a field, an item of a list, or the value or the
\* confidence of a wrapper.
NoField == [kind |-> "none", required |-> FALSE]
FieldBelow(field, key) ==
    CASE field.kind = "part" /\ key \in DOMAIN Schema[field.of] -> Schema[field.of][key]
      [] field.kind = "several" -> Part(field.of)
      [] field.kind = "read" /\ key = "value" -> [Read(field.of, field.bt) EXCEPT !.kind = "value"]
      [] field.kind = "read" /\ key = "confidence" -> [NoField EXCEPT !.kind = "confidence"]
      [] OTHER -> NoField
FieldAtPath(path) ==
    LET down[n \in 0..Len(path)] ==
            IF n = 0 THEN Part("Invoice") ELSE FieldBelow(down[n - 1], path[n])
    IN  down[Len(path)]

\* A text is "odd" when it is no number, no date and no code; an amount may also come
\* as a number, but never as a float, which json.loads makes of NaN only.  (Dates that
\* are the seconds of a midnight, and confidences written as a text, are left out.)
Reads(type, node) ==
    \/ node.t = "text" /\ (type = "text" \/ node.s # "odd")
    \/ type = "money" /\ node.t \in {"int", "decimal"}

\* Does a node, with or without something in it, fit the field: an unknown key fits none
\* (extra="forbid"), null fits what may be missing, a list is not empty, and a
\* confidence, here in percent, is between 0 and 1.
FitsField(field, node, filled) ==
    \/ field.kind \in {"part", "read"} /\ node.t = "object"
    \/ field.kind = "several" /\ node.t = "list" /\ filled
    \/ field.kind = "value" /\ Reads(field.of, node)
    \/ field.kind = "confidence" /\ node.t \in {"int", "decimal"} /\ node.n \in 0..100
    \/ field.kind = "read" /\ ~field.required /\ node.t = "null"

\* The keys that must be there below a field.
RequiredBelow(field) ==
    CASE field.kind = "part" -> {key \in DOMAIN Schema[field.of] : Schema[field.of][key].required}
      [] field.kind = "read" -> {"value"}
      [] OTHER -> {}

\* Is there anything in the object or the list at a path.
IsFilled(tree, path) == \E p \in DOMAIN tree : Len(p) = Len(path) + 1 /\ IsPrefix(path, p)

\* Invoice.model_validate(): the paths that do not fit, or are not there, below paths
\* that do.
Misfits(tree) ==
    LET fits == {p \in DOMAIN tree : FitsField(FieldAtPath(p), tree[p], IsFilled(tree, p))}
        reached == {p \in DOMAIN tree : Above(p) \subseteq fits}
    IN  (reached \ fits)
        \cup UNION {{Append(p, key) : key \in RequiredBelow(FieldAtPath(p))} \ DOMAIN tree :
                       p \in {q \in reached \cap fits : tree[q].t = "object"}}

-----------------------------------------------------------------------------
(* describe_errors(): the term of each problem.                              *)

_ROLES == {"seller", "buyer"}
NoTerm == "none"

_bt_of(field, role) ==
    CASE Len(field.bt) = 0 -> NoTerm
      [] Len(field.bt) = 1 -> field.bt[1]
      [] Len(field.bt) = 2 /\ role = "seller" -> field.bt[1]
      [] Len(field.bt) = 2 /\ role = "buyer" -> field.bt[2]
      [] OTHER -> "either"

\* The model a field leads to; a wrapper has no terms below it.
_model_of(field) == IF field.kind = "read" THEN "none" ELSE field.of

\* The model, the role and the term last seen, a part further down; an index and an extra
\* key are no field.
Seen(model, role, code) == [model |-> model, role |-> role, code |-> code]
Further(seen, part, role) ==
    IF seen.model = "none" \/ part \notin DOMAIN Schema[seen.model] THEN seen
    ELSE LET field == Schema[seen.model][part]
             found == _bt_of(field, role)
         IN  Seen(_model_of(field), role, IF found = NoTerm THEN seen.code ELSE found)

\* Mutant: the role is that of the part looked at, not of the way to it.
_bt_at_forgetful(model, loc) ==
    LET down[n \in 0..Len(loc)] ==
            IF n = 0 THEN Seen(model, "none", NoTerm) ELSE Further(down[n - 1], loc[n], loc[n])
    IN  down[Len(loc)].code

_bt_at(model, loc) ==
    LET down[n \in 0..Len(loc)] ==
            IF n = 0 THEN Seen(model, "none", NoTerm)
            ELSE LET seen == down[n - 1]
                 IN  Further(seen, loc[n], IF loc[n] \in _ROLES THEN loc[n] ELSE seen.role)
    IN  down[Len(loc)].code

describe_errors(model, locs) == {[where |-> loc, code |-> _bt_at(model, loc)] : loc \in locs}

-----------------------------------------------------------------------------
(* _invoice_of()                                                             *)

\* Mutant: only what is null or empty means nothing.
_means_nothing_but_words(v) == v.t = "null" \/ (v.t = "text" /\ v.s \in {"", " "})

\* The ways of a model to say it read nothing; the words in any case, with any blanks.
_means_nothing(v) == v.t = "null" \/ (v.t = "text" /\ v.s \in {"", " ", "null", "None"})

\* A wrapper with nothing useful in it becomes null, wherever it is.
_drop_unreadable(tree) ==
    LET collapsed == {p \in DOMAIN tree :
                        /\ tree[p].t = "object"
                        /\ Append(p, "value") \in DOMAIN tree
                        /\ _means_nothing(tree[Append(p, "value")])}
    IN  [p \in {q \in DOMAIN tree : Above(q) \cap collapsed = {}} |->
            IF p \in collapsed THEN Null ELSE tree[p]]

OURS_NOT_THE_MODELS == {"customization_id", "profile_id"}

Refused(shape) == [shape |-> shape, problems |-> {}, invoice |-> <<>>]

\* An answer that is no JSON at all is a tree without a root.
_invoice_of(answer) ==
    LET fields == _drop_unreadable(answer)
        popped == {p \in DOMAIN fields : p # <<>> /\ p[1] \in OURS_NOT_THE_MODELS}
        theirs == [p \in DOMAIN fields \ popped |-> fields[p]]
        misfits == Misfits(theirs)
    IN  CASE <<>> \notin DOMAIN answer -> Refused("broken")
          [] <<>> \in DOMAIN answer /\ answer[<<>>].t # "object" -> Refused("not_object")
          [] <<>> \in DOMAIN answer /\ answer[<<>>].t = "object" /\ fields[<<>>] = Null ->
                Refused("collapsed")
          [] OTHER -> [shape |-> "object", problems |-> describe_errors("Invoice", misfits),
                       invoice |-> theirs]

Accepted(result) == result.shape = "object" /\ result.problems = {}
=============================================================================
