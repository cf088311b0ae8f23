----------------------------- MODULE Tesseract -----------------------------
(***************************************************************************)
(* TesseractEngine (src/src/ocr/tesseract.py): a read renders the file     *)
(* into a directory of its own, one image per page, then has every image   *)
(* read, one tool after the other, each with a limit on its time.  Several *)
(* reads run concurrently, and each suspends only while a tool of its own  *)
(* is running.  The tools, pdftoppm and tesseract, are external: they end  *)
(* well, end badly, or do not end.                                         *)
(***************************************************************************)
EXTENDS TsvLines

CONSTANTS
    Readers, Files,
    PagesOf,            \* PagesOf[f]: the pages pdftoppm can find in f
    Outputs,            \* what tesseract may print for an image, as rows
    TIMEOUT_SECONDS,    \* in ticks of the clock
    None, Failed

Images == [of : Files, page : Nat \ {0}]
ImagesOf(f) == [of : {f}, page : 1..PagesOf[f]]
OcrPages == [number : Nat, image : Images, lines : Seq(Lines)]

\* Pages of one file, told apart by their numbers.
PageLists == UNION {UNION {[1..n -> 1..PagesOf[f]] : n \in 1..PagesOf[f]} : f \in Files}

ASSUME TesseractAssumption ==
    /\ PagesOf \in [Files -> Nat]
    /\ TIMEOUT_SECONDS \in Nat \ {0}
    /\ Outputs \subseteq Seq(Rows)
    /\ None \notin Files /\ None # Failed
    /\ \A f \in Files : \A images \in SUBSET ImagesOf(f) : images # None
    /\ None \notin Seq(Images)
    /\ {None, Failed} \cap Seq(OcrPages) = {}
    /\ None \notin [of : Files, take : PageLists]

VARIABLES
    file, got,  \* as in OcrEngine, but got[r] is the sequence of pages itself
    produced,   \* history: the readings of this run, as AsReading
    work,       \* work[r]: the images in r's temporary directory, None without one
    queue,      \* queue[r]: the images still to be read, None while pdftoppm runs
    pages,      \* pages[r]: the pages read so far
    waited,     \* waited[r]: how long the running tool has been running
    spent,      \* history: spent[r], how long the read has taken
    printed     \* history: printed[r], what tesseract printed for the pages

vars == <<file, got, produced, work, queue, pages, waited, spent, printed>>

Idle(r) == file[r] = None
Reading(r) == file[r] # None /\ got[r] = None

\* What tells readings apart: the file of the first page, and which pages there are.
AsReading(p) == [of |-> p[1].image.of, take |-> [k \in DOMAIN p |-> p[k].image.page]]

\* sorted(glob(...)): pdftoppm pads the page number in the name to equal width, so the
\* order of the names is the order of the pages.
InOrder(images) == InTurn([i \in images |-> {j \in images : j.page < i.page}])

Init ==
    /\ file = [r \in Readers |-> None]
    /\ got = [r \in Readers |-> None]
    /\ produced = {}
    /\ work = [r \in Readers |-> None]
    /\ queue = [r \in Readers |-> None]
    /\ pages = [r \in Readers |-> <<>>]
    /\ waited = [r \in Readers |-> 0]
    /\ spent = [r \in Readers |-> 0]
    /\ printed = [r \in Readers |-> <<>>]

\* read(): a new directory, and pdftoppm is started.
Read(r, f) ==
    /\ Idle(r)
    /\ file' = [file EXCEPT ![r] = f]
    /\ work' = [work EXCEPT ![r] = {}]
    /\ UNCHANGED <<got, produced, queue, pages, waited, spent, printed>>

\* read() is left, with an answer or an error: the directory is removed.
Ended(r, answer) ==
    /\ got' = [got EXCEPT ![r] = answer]
    /\ work' = [work EXCEPT ![r] = None]
    /\ queue' = [queue EXCEPT ![r] = None]
    /\ pages' = [pages EXCEPT ![r] = <<>>]
    /\ waited' = [waited EXCEPT ![r] = 0]

\* Mutants: every read renders into one directory, where images of the same page have the
\* same name; no image is no error.
RenderedIntoOneDirectory(r, images) ==
    /\ Reading(r) /\ queue[r] = None
    /\ images # {}
    /\ LET there == UNION {work[q] : q \in {p \in Readers : work[p] # None}}
           pagesOf == {i.page : i \in images}
       IN  work' = [work EXCEPT ![r] = images \cup {i \in there : i.page \notin pagesOf}]
    /\ queue' = [queue EXCEPT ![r] = InOrder(work'[r])]
    /\ waited' = [waited EXCEPT ![r] = 0]
    /\ UNCHANGED <<file, got, produced, pages, spent, printed>>

NothingRendered(r, images) ==
    /\ Reading(r) /\ queue[r] = None
    /\ work' = [work EXCEPT ![r] = images]
    /\ queue' = [queue EXCEPT ![r] = InOrder(images)]
    /\ waited' = [waited EXCEPT ![r] = 0]
    /\ UNCHANGED <<file, got, produced, pages, spent, printed>>

\* pdftoppm ended well and left some images; a damaged file may have lost pages.
Rendered(r, images) ==
    /\ Reading(r) /\ queue[r] = None
    /\ images # {}
    /\ work' = [work EXCEPT ![r] = images]
    /\ queue' = [queue EXCEPT ![r] = InOrder(images)]
    /\ waited' = [waited EXCEPT ![r] = 0]
    /\ UNCHANGED <<file, got, produced, pages, spent, printed>>

\* tesseract ended well: its page is added, and the next image is given to it.  The
\* pages are numbered as they are read.
PageRead(r, rows) ==
    LET page == [number |-> Len(pages[r]) + 1, image |-> Head(queue[r]),
                 lines |-> _parse_tsv(rows)]
        longer == Append(pages[r], page)
    IN  /\ Reading(r) /\ queue[r] # None
        /\ printed' = [printed EXCEPT ![r] = Append(@, rows)]
        /\ \/ /\ Len(queue[r]) > 1
              /\ pages' = [pages EXCEPT ![r] = longer]
              /\ queue' = [queue EXCEPT ![r] = Tail(@)]
              /\ waited' = [waited EXCEPT ![r] = 0]
              /\ UNCHANGED <<got, produced, work>>
           \/ /\ Len(queue[r]) = 1
              /\ Ended(r, longer)
              /\ produced' = produced \cup {AsReading(longer)}
        /\ UNCHANGED <<file, spent>>

\* Mutants: a page that cannot be read is left out; the directory stays.
FailedPageIsSkipped(r) ==
    /\ Reading(r)
    /\ IF queue[r] # None /\ Len(queue[r]) > 1
       THEN /\ queue' = [queue EXCEPT ![r] = Tail(@)]
            /\ waited' = [waited EXCEPT ![r] = 0]
            /\ UNCHANGED <<got, work, pages>>
       ELSE Ended(r, Failed)
    /\ UNCHANGED <<file, produced, spent, printed>>
FailureLeavesDirectory(r) ==
    /\ Reading(r)
    /\ got' = [got EXCEPT ![r] = Failed]
    /\ UNCHANGED <<file, produced, work, queue, pages, waited, spent, printed>>

\* A tool ended badly, pdftoppm left no image, or tesseract printed nothing at all: the
\* whole read fails with OcrFailedError.  Or a tool is not installed, the disk is full, or
\* its rows do not parse: it fails with an exception nobody translates.  The engine is the
\* same after either; Service tells them apart.
ToolFails(r) ==
    /\ Reading(r)
    /\ Ended(r, Failed)
    /\ UNCHANGED <<file, produced, spent, printed>>

\* Mutants: nobody watches the clock; a tool that takes too long is started again.
NeverTimesOut(r) == FALSE /\ UNCHANGED vars
TimesOutAndTriesAgain(r) ==
    /\ Reading(r)
    /\ waited[r] = TIMEOUT_SECONDS
    /\ \/ Ended(r, Failed)
       \/ /\ spent[r] < 4 * TIMEOUT_SECONDS
          /\ waited' = [waited EXCEPT ![r] = 0]
          /\ UNCHANGED <<got, work, queue, pages>>
    /\ UNCHANGED <<file, produced, spent, printed>>

\* wait_for gives up: the tool is killed, the read fails.
TimesOut(r) ==
    /\ Reading(r)
    /\ waited[r] = TIMEOUT_SECONDS
    /\ Ended(r, Failed)
    /\ UNCHANGED <<file, produced, spent, printed>>

\* Time passes for every tool that runs, but not past the end of a limit.
Tick ==
    LET busy == {r \in Readers : Reading(r)}
    IN  /\ busy # {}
        /\ \A r \in busy : waited[r] < TIMEOUT_SECONDS
        /\ waited' = [r \in Readers |-> IF r \in busy THEN waited[r] + 1 ELSE waited[r]]
        /\ spent' = [r \in Readers |-> IF r \in busy THEN spent[r] + 1 ELSE spent[r]]
        /\ UNCHANGED <<file, got, produced, work, queue, pages, printed>>

\* The caller goes on with what it got.
Leave(r) ==
    /\ got[r] # None
    /\ file' = [file EXCEPT ![r] = None]
    /\ got' = [got EXCEPT ![r] = None]
    /\ spent' = [spent EXCEPT ![r] = 0]
    /\ printed' = [printed EXCEPT ![r] = <<>>]
    /\ UNCHANGED <<produced, work, queue, pages, waited>>

\* The process dies; what is left of its directories no later read looks at.
Restart ==
    /\ file' = [r \in Readers |-> None]
    /\ got' = [r \in Readers |-> None]
    /\ produced' = {}
    /\ work' = [r \in Readers |-> None]
    /\ queue' = [r \in Readers |-> None]
    /\ pages' = [r \in Readers |-> <<>>]
    /\ waited' = [r \in Readers |-> 0]
    /\ spent' = [r \in Readers |-> 0]
    /\ printed' = [r \in Readers |-> <<>>]

Next ==
    \/ \E r \in Readers, f \in Files : Read(r, f)
    \/ \E r \in {q \in Readers : Reading(q)} :
          \E images \in SUBSET ImagesOf(file[r]) : Rendered(r, images)
    \/ \E r \in Readers, rows \in Outputs : PageRead(r, rows)
    \/ \E r \in Readers : ToolFails(r) \/ TimesOut(r) \/ Leave(r)
    \/ Tick
    \/ Restart

Spec == Init /\ [][Next]_vars

\* The clock runs and wait_for notices; that the tools ever end is not assumed.
FairSpec == Spec /\ WF_vars(Tick) /\ \A r \in Readers : WF_vars(TimesOut(r))

-----------------------------------------------------------------------------
TypeOK ==
    /\ file \in [Readers -> Files \cup {None}]
    /\ got \in [Readers -> {None, Failed} \cup (Seq(OcrPages) \ {<<>>})]
    /\ produced \subseteq [of : Files, take : PageLists]
    /\ work \in [Readers -> {None} \cup SUBSET Images]
    /\ queue \in [Readers -> {None} \cup (Seq(Images) \ {<<>>})]
    /\ pages \in [Readers -> Seq(OcrPages)]
    /\ waited \in [Readers -> 0..TIMEOUT_SECONDS]
    /\ spent \in [Readers -> Nat]
    /\ printed \in [Readers -> Seq(Outputs)]

ReadSoFar(r) == IF got[r] \in {None, Failed} THEN pages[r] ELSE got[r]

\* A reading is the whole of what was rendered: every image once, in the order of the
\* document, numbered from 1, all of the file that was asked for, although other reads
\* ran in between; a page that fails takes the reading with it.
AnswerIsTheDocument ==
    \A r \in Readers :
        got[r] = None /\ got'[r] \notin {None, Failed} =>
            LET answer == got'[r]
            IN  /\ {answer[k].image : k \in DOMAIN answer} = work[r]
                /\ \A k \in DOMAIN answer :
                      answer[k].number = k /\ answer[k].image.of = file[r]
                /\ \A i, j \in DOMAIN answer :
                      i < j => answer[i].image.page < answer[j].image.page
WholeDocument == [][AnswerIsTheDocument]_vars

\* Every page that was read carries the words of its image, each once, in lines that
\* mix no two lines of the page.
LinesKeepTheWords ==
    \A r \in Readers : \A k \in DOMAIN ReadSoFar(r) :
        IsReadingOf(ReadSoFar(r)[k].lines, printed[r][k])

\* A temporary directory exists exactly as long as its read is in progress: no way out
\* of read() leaves one behind.  (The death of the process does; Restart forgets it.)
DirectoryOnlyWhileReading == \A r \in Readers : work[r] # None <=> Reading(r)

\* "a broken file cannot hold a worker forever" (src/src/ocr/tesseract.py:29): a read
\* takes at most the limit once for pdftoppm and once for every page.
ReadIsBounded ==
    \A r \in Readers :
        file[r] # None => spent[r] <= TIMEOUT_SECONDS * (1 + PagesOf[file[r]])

\* Every read ends, whatever the tools do.
EveryReadEnds == \A r \in Readers : Reading(r) ~> ~Reading(r)

\* To the cache, and to the service, this is an OCR engine.
Engine == INSTANCE OcrEngine WITH
    Takes <- PageLists,
    got <- [r \in Readers |-> IF got[r] \in {None, Failed} THEN got[r] ELSE AsReading(got[r])]
ImplementsEngine == Engine!Spec
=============================================================================
