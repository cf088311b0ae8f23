----------------------------- MODULE MCOcrCache -----------------------------
(* A small instance of the cache: three files fight for two places.          *)
EXTENDS OcrCache, TLC

CONSTANTS r1, r2, r3, a, b, c, t1, t2

TwoReaders == {r1, r2}
ThreeReaders == {r1, r2, r3}
ThreeFiles == {a, b, c}
TwoTakes == {t1, t2}
OneTake == {t1}

\* Readers, files and takes are interchangeable.
Interchangeable ==
    Permutations(Readers) \cup Permutations(Files) \cup Permutations(Takes)
=============================================================================
