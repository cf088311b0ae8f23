------------------------------ MODULE TsvLines ------------------------------
(***************************************************************************)
(* How the words tesseract found on a page are put back into lines         *)
(* (_parse_tsv and _join of src/src/ocr/tesseract.py).  A row of the TSV   *)
(* is a record: a word with its block, paragraph and line and its box, or  *)
(* a row of another kind.  Text and confidence are reduced to whether the  *)
(* row is kept for them.                                                   *)
(***************************************************************************)
EXTENDS Integers, Sequences, FiniteSets, FiniteSetsExt

Rows == [level : Int, complete : BOOLEAN, blank : BOOLEAN, conf : Int,
         block : Int, par : Int, line : Int, left : Int, top : Int, width : Int, height : Int]
Lines == [words : Seq(Rows), left : Int, top : Int, width : Int, height : Int]

\* The rows that become words: long enough, of level 5, with text, not refused with
\* a confidence of -1.
IsWord(row) == row.complete /\ row.level = 5 /\ ~row.blank /\ row.conf >= 0

\* Mutant: the line number alone, which starts anew in every block and paragraph.
KeyOfLineAlone(row) == <<row.line>>

KeyOf(row) == <<row.block, row.par, row.line>>

\* The things that are before others, one after another: before[i] is the set of those
\* before i.
InTurn(before) ==
    [k \in 1..Cardinality(DOMAIN before) |->
        CHOOSE i \in DOMAIN before : Cardinality(before[i]) = k - 1]

\* The elements of s at some places, in the order they have in s.
At(s, places) ==
    LET turn == InTurn([i \in places |-> {j \in places : j < i}])
    IN  [k \in DOMAIN turn |-> s[turn[k]]]

\* s in the order of Less; equals keep the order they have (sort is stable).
Sorted(s, Less(_, _)) ==
    LET turn == InTurn([i \in DOMAIN s |->
                   {j \in DOMAIN s : Less(s[j], s[i]) \/ (~Less(s[i], s[j]) /\ j < i)}])
    IN  [k \in DOMAIN turn |-> s[turn[k]]]

LeftOf(a, b) == a.left < b.left
AboveOrLeftOf(a, b) == a.top < b.top \/ (a.top = b.top /\ a.left < b.left)

\* One line out of its words: from left to right, in the box around them all.
_join(words) ==
    LET all == {words[i] : i \in DOMAIN words}
        left == Min({w.left : w \in all})
        top == Min({w.top : w \in all})
    IN  [words |-> Sorted(words, LeftOf), left |-> left, top |-> top,
         width |-> Max({w.left + w.width : w \in all}) - left,
         height |-> Max({w.top + w.height : w \in all}) - top]

\* The words of a page by key, in the order in which a key first turns up, each group
\* joined, the lines from top to bottom.
WordsOf(rows) == At(rows, {i \in DOMAIN rows : IsWord(rows[i])})
FirstOfTheirKey(words) ==
    At(words, {i \in DOMAIN words : \A j \in 1..(i - 1) : KeyOf(words[j]) # KeyOf(words[i])})
Group(words, key) == At(words, {i \in DOMAIN words : KeyOf(words[i]) = key})
_parse_tsv(rows) ==
    LET words == WordsOf(rows)
        firsts == FirstOfTheirKey(words)
    IN  Sorted([k \in DOMAIN firsts |-> _join(Group(words, KeyOf(firsts[k])))], AboveOrLeftOf)

\* What the lines of a page owe to its rows: every word as often as it was printed, with
\* the words of its own line and no other, lines and words in reading order, no word
\* outside its line's box.
TimesIn(s, w) == Cardinality({i \in DOMAIN s : s[i] = w})
IsReadingOf(lines, rows) ==
    LET words == {rows[i] : i \in {j \in DOMAIN rows : IsWord(rows[j])}}
        in(line) == {line.words[i] : i \in DOMAIN line.words}
        sameLine(v, w) == v.block = w.block /\ v.par = w.par /\ v.line = w.line
    IN  /\ UNION {in(lines[k]) : k \in DOMAIN lines} = words
        /\ \A k \in DOMAIN lines :
              /\ \A v \in in(lines[k]), w \in words : w \in in(lines[k]) <=> sameLine(v, w)
              /\ \A w \in in(lines[k]) : TimesIn(lines[k].words, w) = TimesIn(rows, w)
              /\ \A i, j \in DOMAIN lines[k].words :
                    i < j => lines[k].words[i].left <= lines[k].words[j].left
              /\ \A w \in in(lines[k]) :
                    /\ w.left >= lines[k].left
                    /\ w.top >= lines[k].top
                    /\ w.left + w.width <= lines[k].left + lines[k].width
                    /\ w.top + w.height <= lines[k].top + lines[k].height
        /\ \A i, j \in DOMAIN lines :
              i < j => in(lines[i]) \cap in(lines[j]) = {} /\ lines[i].top <= lines[j].top
=============================================================================
