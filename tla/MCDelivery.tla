----------------------------- MODULE MCDelivery -----------------------------
(* Two sends, one object, two valid documents under one file name.           *)
EXTENDS Delivery, TLC

CONSTANTS s1, s2, o1, paid, unpaid, wrong, immense, stem, other_stem

TwoSends == {s1, s2}
OneObject == {o1}
FourDocuments == {paid, unpaid, wrong, immense}
TwoValid == {paid, unpaid}
OneUnroundable == {immense}
TwoStems == {stem, other_stem}
Collide == (paid :> stem @@ unpaid :> stem @@ wrong :> other_stem @@ immense :> other_stem)

\* The borders of what counts as refused, and, in the second, a redirect.
SomeStatuses == {200, 299, 400, 500}
WithRedirect == {200, 302, 400}
=============================================================================
