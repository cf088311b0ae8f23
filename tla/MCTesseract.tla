---------------------------- MODULE MCTesseract ----------------------------
(* Two reads of a file of two pages and a file of one, or of none.           *)
EXTENDS Tesseract, TLC

CONSTANTS r1, r2, letter, scan, broken

TwoReaders == {r1, r2}
ThreeFiles == {letter, scan, broken}
SomePages == (letter :> 1 @@ scan :> 2 @@ broken :> 0)

Row(level, complete, block, line, left, top, width, conf, blank) ==
    [level |-> level, complete |-> complete, block |-> block, par |-> 1, line |-> line,
     left |-> left, top |-> top, width |-> width, height |-> 1, conf |-> conf, blank |-> blank]
Word(block, line, left, top, width) == Row(5, TRUE, block, line, left, top, width, 90, FALSE)
PageRow == Row(1, TRUE, 0, 0, 0, 0, 9, -1, TRUE)

\* A page without words.
EmptyPage == <<PageRow>>

\* Two blocks that both begin with a line 1, the lower block first; words out of order;
\* a wide word that reaches further than the last one; and rows that are not words.
TwoBlocks ==
    <<PageRow, Row(4, TRUE, 1, 1, 0, 0, 9, -1, TRUE),
      Word(1, 1, 5, 7, 1), Word(1, 1, 1, 8, 7), Word(1, 2, 1, 9, 2),
      Row(5, TRUE, 1, 2, 4, 9, 1, -1, FALSE), Row(5, TRUE, 1, 2, 5, 9, 1, 80, TRUE),
      Row(5, FALSE, 1, 2, 6, 9, 1, 80, FALSE),
      Word(2, 1, 3, 1, 2), Word(2, 1, 1, 1, 1)>>

SomeOutputs == {EmptyPage, TwoBlocks}
=============================================================================
