------------------------------ MODULE OcrCache ------------------------------
(***************************************************************************)
(* CachingOcrEngine (src/src/ocr/cache.py): an OCR engine that remembers   *)
(* the last MaxEntries readings, keyed by the sha256 of the file.  asyncio *)
(* switches tasks only at an await, so read() is two atomic steps: the     *)
(* lookup, which either answers or suspends on the inner engine, and the   *)
(* store after the inner engine has answered.  Between the two any other   *)
(* reader may look up, store and evict.                                    *)
(***************************************************************************)
EXTENDS Naturals, Sequences, FiniteSets

CONSTANTS
    Readers,    \* the requests that may have a read in progress
    Files,      \* file contents; sha256 is taken to be injective, so also the keys
    Takes,      \* tells two readings of one file apart
    MaxEntries, \* max_entries of __init__
    None,
    Failed

\* An OcrResult, reduced to the file it was read from and which reading it is.
Readings == [of : Files, take : Takes]

\* max_entries = 0 is a legal, if useless, cache: every store is evicted at once.
ASSUME CacheAssumption ==
    /\ MaxEntries \in Nat
    /\ None \notin Files
    /\ None \notin Readings
    /\ Failed \notin Readings
    /\ None # Failed

VARIABLES
    file,       \* file[r]: the file reader r has asked for
    got,        \* got[r]: what reader r was answered
    entries,    \* the OrderedDict, oldest entry first
    produced,   \* history: every reading the inner engine has produced
    since       \* history: since[f], the files moved to the end after f was

vars == <<file, got, entries, produced, since>>

Entries == [digest : Files, result : Readings]

TypeOK ==
    /\ file \in [Readers -> Files \cup {None}]
    /\ got \in [Readers -> Readings \cup {None, Failed}]
    /\ entries \in Seq(Entries)
    /\ produced \subseteq Readings
    /\ since \in [Files -> SUBSET Files]

Idle(r) == file[r] = None
Reading(r) == file[r] # None /\ got[r] = None

Cached == {entries[i].digest : i \in 1..Len(entries)}

\* The key's position; meaningful when f is cached, unique because keys are.
Position(f) == CHOOSE i \in 1..Len(entries) : entries[i].digest = f

\* s without its i-th element.
Without(s, i) == [j \in 1..(Len(s) - 1) |-> IF j < i THEN s[j] ELSE s[j + 1]]

\* Mutants: a hit leaves the order alone; a hit moves to the wrong end.
StaysInPlace(f) == entries
MovedToFront(f) == <<entries[Position(f)]>> \o Without(entries, Position(f))

\* OrderedDict.move_to_end
MovedToEnd(f) == Append(Without(entries, Position(f)), entries[Position(f)])

\* `entries[digest] = result`: a key that is there keeps its place.
Stored(f, reading) ==
    IF f \in Cached
    THEN [entries EXCEPT ![Position(f)] = [digest |-> f, result |-> reading]]
    ELSE Append(entries, [digest |-> f, result |-> reading])

\* Mutant: one entry too many.
EvictedLate(s) == IF Len(s) > MaxEntries + 1 THEN Tail(s) ELSE s

\* `if len(entries) > max_entries: popitem(last=False)`
Evicted(s) == IF Len(s) > MaxEntries THEN Tail(s) ELSE s

\* f is now the youngest key, and younger than every other one.
Touched(f) == [g \in Files |-> IF g = f THEN {} ELSE since[g] \cup {f}]

Init ==
    /\ file = [r \in Readers |-> None]
    /\ got = [r \in Readers |-> None]
    /\ entries = <<>>
    /\ produced = {}
    /\ since = [f \in Files |-> {}]

\* read(): the digest is known, its result is returned without suspending.
Hit(r, f) ==
    /\ Idle(r)
    /\ f \in Cached
    /\ entries' = MovedToEnd(f)
    /\ file' = [file EXCEPT ![r] = f]
    /\ got' = [got EXCEPT ![r] = entries[Position(f)].result]
    /\ since' = Touched(f)
    /\ UNCHANGED produced

\* read(): nothing remembered, the reader suspends on the inner engine.
Miss(r, f) ==
    /\ Idle(r)
    /\ f \notin Cached
    /\ file' = [file EXCEPT ![r] = f]
    /\ UNCHANGED <<got, entries, produced, since>>

\* Mutant: the digest is kept on the engine, where another reader overwrites it
\* during the await.
StoreUnderSharedKey(r, t) ==
    LET reading == [of |-> file[r], take |-> t]
    IN  /\ Reading(r)
        /\ \E q \in {p \in Readers : Reading(p)} :
              entries' = Evicted(Stored(file[q], reading))
        /\ got' = [got EXCEPT ![r] = reading]
        /\ produced' = produced \cup {reading}
        /\ UNCHANGED <<file, since>>

\* read() resumes: store, evict, return.
Store(r, t) ==
    LET reading == [of |-> file[r], take |-> t]
    IN  /\ Reading(r)
        /\ entries' = Evicted(Stored(file[r], reading))
        /\ got' = [got EXCEPT ![r] = reading]
        /\ produced' = produced \cup {reading}
        /\ since' = IF file[r] \in Cached THEN since ELSE Touched(file[r])
        /\ UNCHANGED file

\* Mutant: a failure is remembered like a result.
InnerFailureRemembered(r) ==
    /\ Reading(r)
    /\ got' = [got EXCEPT ![r] = Failed]
    /\ entries' = Evicted(Stored(file[r], Failed))
    /\ UNCHANGED <<file, produced, since>>

\* The inner engine raised: nothing is stored, the reader gets the error.
InnerFails(r) ==
    /\ Reading(r)
    /\ got' = [got EXCEPT ![r] = Failed]
    /\ UNCHANGED <<file, entries, produced, since>>

\* The caller goes on with what it got; it may come back with another file.
Leave(r) ==
    /\ got[r] # None
    /\ file' = [file EXCEPT ![r] = None]
    /\ got' = [got EXCEPT ![r] = None]
    /\ UNCHANGED <<entries, produced, since>>

\* Mutant: entries of an earlier run survive.
RestartKeepsEntries ==
    /\ file' = [r \in Readers |-> None]
    /\ got' = [r \in Readers |-> None]
    /\ produced' = {}
    /\ UNCHANGED <<entries, since>>

\* "The cache lives in the process, so a restart empties it."
Restart ==
    /\ file' = [r \in Readers |-> None]
    /\ got' = [r \in Readers |-> None]
    /\ entries' = <<>>
    /\ produced' = {}
    /\ since' = [f \in Files |-> {}]

Next ==
    \/ \E r \in Readers, f \in Files : Hit(r, f) \/ Miss(r, f)
    \/ \E r \in Readers, t \in Takes : Store(r, t)
    \/ \E r \in Readers : InnerFails(r) \/ Leave(r)
    \/ Restart

Spec == Init /\ [][Next]_vars

-----------------------------------------------------------------------------
\* The limit of __init__ holds whenever another task can look, and no digest is
\* held twice, whatever readers of the same file did between lookup and store.
WithinLimit ==
    /\ Len(entries) <= MaxEntries
    /\ \A i, j \in 1..Len(entries) :
          entries[i].digest = entries[j].digest => i = j

\* No reader is ever answered with the reading of a file other than the one it
\* uploaded, and no entry holds one for the next reader, although lookup and
\* store are separated by an await in which the whole cache may turn over.
NoForeignReading ==
    /\ \A r \in Readers : got[r] \in Readings => got[r].of = file[r]
    /\ \A i \in 1..Len(entries) :
          /\ entries[i].result.of = entries[i].digest
          /\ entries[i].result \in produced

\* What the order of the dict stands for: every entry was moved to the end, or
\* first stored, after the entries before it.
OrderIsRecency ==
    \A i, j \in 1..Len(entries) :
        i < j => entries[j].digest \in since[entries[i].digest]

\* A file is forgotten only when at least MaxEntries other files have been
\* stored or hit since it was itself last stored anew or hit: a working set that
\* fits is never read again.  (A restart, which leaves nothing, is the exception.)
DropIsLeastUsed ==
    \A f \in Files :
        f \in Cached /\ f \notin Cached' /\ Cached' # {}
            => Cardinality(since'[f]) >= MaxEntries
ForgetsOnlyTheLeastUsed == [][DropIsLeastUsed]_vars

\* To its callers the cache is an OCR engine like the one it wraps.
Engine == INSTANCE OcrEngine
ImplementsEngine == Engine!Spec

-----------------------------------------------------------------------------
\* Line 1 of the source: "so the same file is never read twice".
NeverReadTwice ==
    \A q, r \in Readers : Reading(q) /\ Reading(r) /\ file[q] = file[r] => q = r
=============================================================================
