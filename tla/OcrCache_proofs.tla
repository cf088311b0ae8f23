-------------------------- MODULE OcrCache_proofs --------------------------
(***************************************************************************)
(* Proofs about the OCR cache, for any number of readers and files and any *)
(* limit: the type invariant, the limit and the uniqueness of the keys,    *)
(* that nobody is answered with somebody else's reading, the recency order *)
(* that makes eviction drop the right entry, and the implementation of     *)
(* OcrEngine.                                                              *)
(***************************************************************************)
EXTENDS OcrCache, FiniteSetTheorems, TLAPS

-----------------------------------------------------------------------------
(* What the operators on the ordered dictionary return.                      *)

\* A cached file has a position, and the entry there is its own.
LEMMA PositionOfCached ==
    ASSUME NEW f \in Cached
    PROVE  /\ Position(f) \in 1..Len(entries)
           /\ entries[Position(f)].digest = f
  BY DEF Cached, Position

\* Every entry relates a file to a reading.
LEMMA EntryType ==
    ASSUME TypeOK, NEW k \in 1..Len(entries)
    PROVE  /\ entries[k] \in Entries
           /\ entries[k].digest \in Files
           /\ entries[k].result \in Readings
<1>1. entries[k] \in Entries
  BY DEF TypeOK
<1> QED
  BY <1>1 DEF Entries

\* move_to_end keeps every entry, shifts those after the moved one, and puts it last.
LEMMA MovedToEndShape ==
    ASSUME TypeOK, NEW f \in Cached
    PROVE  /\ MovedToEnd(f) \in Seq(Entries)
           /\ Len(MovedToEnd(f)) = Len(entries)
           /\ \A k \in 1..Len(entries) :
                 MovedToEnd(f)[k] =
                     entries[IF k = Len(entries) THEN Position(f)
                             ELSE IF k < Position(f) THEN k ELSE k + 1]
<1> DEFINE p == Position(f)
           w == Without(entries, p)
<1>1. p \in 1..Len(entries)
  BY PositionOfCached
<1>2. entries \in Seq(Entries) /\ Len(entries) \in Nat
  BY DEF TypeOK
<1>3. /\ w \in Seq(Entries)
      /\ Len(w) = Len(entries) - 1
      /\ \A k \in 1..(Len(entries) - 1) :
            w[k] = entries[IF k < p THEN k ELSE k + 1]
  BY <1>1, <1>2 DEF Without
<1>4. entries[p] \in Entries
  BY <1>1, <1>2
<1> HIDE DEF p, w
<1>5. MovedToEnd(f) = Append(w, entries[p])
  BY DEF MovedToEnd, p, w
<1> QED
  BY <1>1, <1>2, <1>3, <1>4, <1>5 DEF p

\* Storing under a key that is there changes that entry's result and nothing else.
LEMMA StoredInPlace ==
    ASSUME TypeOK, NEW f \in Cached, NEW reading \in Readings
    PROVE  LET s == Stored(f, reading)
           IN  /\ s \in Seq(Entries)
               /\ Len(s) = Len(entries)
               /\ \A k \in 1..Len(entries) :
                     /\ s[k].digest = entries[k].digest
                     /\ \/ s[k].result = entries[k].result
                        \/ s[k].digest = f /\ s[k].result = reading
<1>1. Position(f) \in 1..Len(entries) /\ entries[Position(f)].digest = f
  BY PositionOfCached
<1>2. f \in Files
  BY <1>1, EntryType
<1> DEFINE p == Position(f)
           e == [digest |-> f, result |-> reading]
           s == [entries EXCEPT ![p] = e]
<1>3. e \in Entries /\ e.digest = f /\ e.result = reading
  BY <1>2 DEF Entries
<1>4. Stored(f, reading) = s
  BY DEF Stored
<1> HIDE DEF e
<1>5. s \in Seq(Entries) /\ Len(s) = Len(entries)
  BY <1>1, <1>3 DEF TypeOK
<1>6. ASSUME NEW k \in 1..Len(entries)
      PROVE  s[k] = IF k = p THEN e ELSE entries[k]
  BY <1>1, <1>6 DEF TypeOK
<1> HIDE DEF s, p
<1> QED
  BY <1>1, <1>3, <1>4, <1>5, <1>6 DEF p

\* A new key goes to the end.
LEMMA StoredAnew ==
    ASSUME TypeOK, NEW f \in Files \ Cached, NEW reading \in Readings
    PROVE  LET s == Stored(f, reading)
           IN  /\ s \in Seq(Entries)
               /\ Len(s) = Len(entries) + 1
               /\ \A k \in 1..Len(entries) : s[k] = entries[k]
               /\ s[Len(s)] = [digest |-> f, result |-> reading]
<1>1. [digest |-> f, result |-> reading] \in Entries
  BY DEF Entries
<1> QED
  BY <1>1 DEF Stored, TypeOK

\* Eviction drops nothing or the head.
LEMMA EvictedShape ==
    ASSUME NEW s \in Seq(Entries), MaxEntries \in Nat
    PROVE  LET d == IF Len(s) > MaxEntries THEN 1 ELSE 0
           IN  /\ Evicted(s) \in Seq(Entries)
               /\ Len(Evicted(s)) = Len(s) - d
               /\ \A k \in 1..(Len(s) - d) : Evicted(s)[k] = s[k + d]
<1>1. CASE Len(s) > MaxEntries
  <2>1. s # <<>> /\ Len(s) \in Nat
    BY <1>1
  <2> QED
    BY <1>1, <2>1 DEF Evicted
<1>2. CASE ~(Len(s) > MaxEntries)
  BY <1>2 DEF Evicted
<1> QED
  BY <1>1, <1>2

-----------------------------------------------------------------------------
(* The inductive invariant, with its parts stated for any dictionary.        *)

\* No digest twice.
Unique(s) ==
    \A i, j \in 1..Len(s) : s[i].digest = s[j].digest => i = j

\* Every entry holds a reading of its own file that was really made.
Genuine(s, made) ==
    \A i \in 1..Len(s) : s[i].result.of = s[i].digest /\ s[i].result \in made

\* Every entry is younger than those before it.
Ordered(s, younger) ==
    \A i, j \in 1..Len(s) : i < j => s[j].digest \in younger[s[i].digest]

SinceFinite == \A f \in Files : IsFiniteSet(since[f])

IInv ==
    /\ TypeOK
    /\ WithinLimit
    /\ NoForeignReading
    /\ OrderIsRecency
    /\ SinceFinite

\* Eviction brings a dictionary one over the limit back under it, and takes
\* nothing from its uniqueness, its genuineness or its order.
LEMMA EvictedKeeps ==
    ASSUME NEW s \in Seq(Entries), NEW made, NEW younger,
           MaxEntries \in Nat, Len(s) <= MaxEntries + 1,
           Unique(s), Genuine(s, made), Ordered(s, younger)
    PROVE  LET e == Evicted(s)
           IN  Len(e) <= MaxEntries /\ Unique(e) /\ Genuine(e, made) /\ Ordered(e, younger)
<1> DEFINE e == Evicted(s)
           d == IF Len(s) > MaxEntries THEN 1 ELSE 0
<1>1. /\ Len(e) = Len(s) - d
      /\ \A k \in 1..(Len(s) - d) : e[k] = s[k + d]
  BY EvictedShape
<1>2. d \in {0, 1} /\ Len(s) \in Nat /\ Len(s) - d <= MaxEntries
  OBVIOUS
<1> HIDE DEF e, d
<1>3. \A k \in 1..Len(e) : k + d \in 1..Len(s) /\ e[k] = s[k + d]
  BY <1>1, <1>2
<1>4. Unique(e)
  <2> SUFFICES ASSUME NEW i \in 1..Len(e), NEW j \in 1..Len(e),
                      e[i].digest = e[j].digest
               PROVE  i = j
    BY DEF Unique
  <2>1. i + d = j + d
    BY <1>3 DEF Unique
  <2> QED
    BY <2>1, <1>1, <1>2
<1>5. Genuine(e, made)
  BY <1>3 DEF Genuine
<1>6. Ordered(e, younger)
  BY <1>3, <1>2, <1>1 DEF Ordered
<1> QED
  BY <1>1, <1>2, <1>4, <1>5, <1>6 DEF e

\* The recency history stays a family of finite sets of files.
LEMMA TouchedType ==
    ASSUME TypeOK, SinceFinite, NEW f \in Files
    PROVE  /\ Touched(f) \in [Files -> SUBSET Files]
           /\ \A g \in Files : IsFiniteSet(Touched(f)[g])
<1>1. Touched(f) \in [Files -> SUBSET Files]
  BY DEF Touched, TypeOK
<1>2. ASSUME NEW g \in Files PROVE IsFiniteSet(Touched(f)[g])
  <2>1. CASE g = f
    BY <2>1, FS_EmptySet DEF Touched
  <2>2. CASE g # f
    BY <2>2, FS_AddElement DEF Touched, SinceFinite
  <2> QED
    BY <2>1, <2>2
<1> QED
  BY <1>1, <1>2

\* What a hit leaves behind.
LEMMA HitKeeps ==
    ASSUME IInv, NEW r \in Readers, NEW f \in Files, Hit(r, f)
    PROVE  IInv'
<1> USE CacheAssumption
<1>1. TypeOK /\ f \in Cached
  BY DEF IInv, Hit
<1> DEFINE n == Len(entries)
           p == Position(f)
           at(k) == IF k = n THEN p ELSE IF k < p THEN k ELSE k + 1
<1>2. /\ entries' \in Seq(Entries)
      /\ Len(entries') = n
      /\ \A k \in 1..n : entries'[k] = entries[at(k)]
  BY <1>1, MovedToEndShape DEF Hit
<1>3. p \in 1..n /\ entries[p].digest = f
  BY <1>1, PositionOfCached
<1>4. n \in Nat
  BY <1>1 DEF TypeOK
<1> HIDE DEF n, p
<1>5. /\ \A k \in 1..n : at(k) \in 1..n
      /\ \A k, l \in 1..n : at(k) = at(l) => k = l
      /\ \A k, l \in 1..n : k < l /\ l # n => at(k) < at(l)
      /\ \A k \in 1..n : at(k) = p => k = n
      /\ at(n) = p
  BY <1>3, <1>4
<1>6. entries[p].result \in Readings /\ entries[p].result.of = f
  BY <1>1, <1>3, EntryType DEF IInv, NoForeignReading, n
<1> HIDE DEF at
<1>7. TypeOK'
  <2>1. got' \in [Readers -> Readings \cup {None, Failed}]
    BY <1>1, <1>6 DEF Hit, TypeOK, p
  <2>2. file' \in [Readers -> Files \cup {None}]
    BY <1>1 DEF Hit, TypeOK
  <2>3. since' \in [Files -> SUBSET Files]
    BY <1>1, TouchedType DEF Hit, IInv
  <2> QED
    BY <1>1, <1>2, <2>1, <2>2, <2>3 DEF TypeOK, Hit
<1>8. WithinLimit'
  <2>1. Len(entries') <= MaxEntries
    BY <1>2 DEF WithinLimit, IInv, n
  <2>2. ASSUME NEW k \in 1..n, NEW l \in 1..n, entries'[k].digest = entries'[l].digest
        PROVE  k = l
    <3>1. at(k) = at(l)
      BY <2>2, <1>2, <1>5 DEF WithinLimit, IInv, n
    <3> QED
      BY <3>1, <1>5
  <2> QED
    BY <1>2, <2>1, <2>2 DEF WithinLimit
<1>9. NoForeignReading'
  <2>1. \A q \in Readers : got'[q] \in Readings => got'[q].of = file'[q]
    BY <1>1, <1>6 DEF Hit, TypeOK, p, IInv, NoForeignReading
  <2>2. \A k \in 1..n : /\ entries'[k].result.of = entries'[k].digest
                         /\ entries'[k].result \in produced'
    BY <1>2, <1>5 DEF Hit, IInv, NoForeignReading, n
  <2> QED
    BY <1>2, <2>1, <2>2 DEF NoForeignReading
<1>10. OrderIsRecency'
  <2> SUFFICES ASSUME NEW k \in 1..n, NEW l \in 1..n, k < l
               PROVE  entries'[l].digest \in since'[entries'[k].digest]
    BY <1>2 DEF OrderIsRecency
  <2>1. entries'[k] = entries[at(k)] /\ entries'[l] = entries[at(l)]
    BY <1>2
  <2>2. at(k) \in 1..n /\ at(l) \in 1..n /\ at(k) # p
    BY <1>5, <1>4
  <2>3. entries[at(k)].digest # f
    BY <2>2, <1>3 DEF IInv, WithinLimit, n
  <2>4. entries[at(k)].digest \in Files
    BY <2>2, <1>1, EntryType DEF n
  <2>5. since'[entries[at(k)].digest] = since[entries[at(k)].digest] \cup {f}
    BY <2>3, <2>4 DEF Hit, Touched
  <2>6. CASE l = n
    BY <2>1, <2>5, <2>6, <1>3, <1>5
  <2>7. CASE l # n
    <3>1. at(k) < at(l)
      BY <2>7, <1>5
    <3> QED
      BY <2>1, <2>2, <2>5, <3>1 DEF IInv, OrderIsRecency, n
  <2> QED
    BY <2>6, <2>7
<1>11. SinceFinite'
  BY <1>1, TouchedType DEF SinceFinite, Hit, IInv
<1> QED
  BY <1>7, <1>8, <1>9, <1>10, <1>11 DEF IInv

\* What resuming from the inner engine leaves behind, key known or not.
LEMMA StoreKeeps ==
    ASSUME IInv, NEW r \in Readers, NEW t \in Takes, Store(r, t)
    PROVE  IInv'
<1> USE CacheAssumption
<1> DEFINE f == file[r]
           reading == [of |-> f, take |-> t]
           s == Stored(f, reading)
<1>1. TypeOK /\ f \in Files /\ reading \in Readings /\ reading.of = f
  BY DEF IInv, Store, TypeOK, Reading, Readings
<1>2. /\ entries' = Evicted(s)
      /\ got' = [got EXCEPT ![r] = reading]
      /\ produced' = produced \cup {reading}
      /\ since' = IF f \in Cached THEN since ELSE Touched(f)
      /\ file' = file
  BY DEF Store
<1>3. Len(entries) \in Nat /\ Len(entries) <= MaxEntries
  BY <1>1 DEF TypeOK, IInv, WithinLimit
<1> HIDE DEF f, reading, s
<1>4. /\ s \in Seq(Entries)
      /\ Len(s) <= MaxEntries + 1
      /\ Unique(s)
      /\ Genuine(s, produced')
      /\ Ordered(s, since')
  <2>1. CASE f \in Cached
    <3>1. /\ s \in Seq(Entries)
          /\ Len(s) = Len(entries)
          /\ \A k \in 1..Len(entries) :
                /\ s[k].digest = entries[k].digest
                /\ \/ s[k].result = entries[k].result
                   \/ s[k].digest = f /\ s[k].result = reading
      BY <1>1, <2>1, StoredInPlace DEF s
    <3>2. Unique(s)
      BY <3>1 DEF Unique, IInv, WithinLimit
    <3>3. Genuine(s, produced')
      BY <3>1, <1>1, <1>2 DEF Genuine, IInv, NoForeignReading
    <3>4. Ordered(s, since')
      BY <3>1, <1>2, <2>1 DEF Ordered, IInv, OrderIsRecency
    <3> QED
      BY <3>1, <3>2, <3>3, <3>4, <1>3
  <2>2. CASE f \notin Cached
    <3>1. /\ s \in Seq(Entries)
          /\ Len(s) = Len(entries) + 1
          /\ \A k \in 1..Len(entries) : s[k] = entries[k]
          /\ s[Len(s)] = [digest |-> f, result |-> reading]
      BY <1>1, <2>2, StoredAnew DEF s
    <3>2. \A k \in 1..Len(entries) : entries[k].digest # f /\ entries[k].digest \in Files
      BY <2>2, <1>1, EntryType DEF Cached
    <3>3. s[Len(s)].digest = f /\ s[Len(s)].result = reading
      BY <3>1
    <3>4. \A k \in 1..Len(s) : k # Len(s) => k \in 1..Len(entries)
      BY <3>1, <1>3
    <3>5. Unique(s)
      <4> SUFFICES ASSUME NEW i \in 1..Len(s), NEW j \in 1..Len(s),
                          s[i].digest = s[j].digest
                   PROVE  i = j
        BY DEF Unique
      <4>1. CASE i # Len(s) /\ j # Len(s)
        BY <4>1, <3>1, <3>4 DEF IInv, WithinLimit
      <4>2. CASE i = Len(s) \/ j = Len(s)
        BY <4>2, <3>1, <3>2, <3>3, <3>4
      <4> QED
        BY <4>1, <4>2
    <3>6. Genuine(s, produced')
      <4> SUFFICES ASSUME NEW i \in 1..Len(s)
                   PROVE  s[i].result.of = s[i].digest /\ s[i].result \in produced'
        BY DEF Genuine
      <4>1. CASE i = Len(s)
        BY <4>1, <3>3, <1>1, <1>2
      <4>2. CASE i # Len(s)
        BY <4>2, <3>1, <3>4, <1>2 DEF IInv, NoForeignReading
      <4> QED
        BY <4>1, <4>2
    <3>7. Ordered(s, since')
      <4> SUFFICES ASSUME NEW i \in 1..Len(s), NEW j \in 1..Len(s), i < j
                   PROVE  s[j].digest \in since'[s[i].digest]
        BY DEF Ordered
      <4>1. i \in 1..Len(entries) /\ s[i] = entries[i]
        BY <3>1, <1>3
      <4>2. since'[s[i].digest] = since[s[i].digest] \cup {f}
        BY <4>1, <3>2, <1>2, <2>2 DEF Touched
      <4>3. CASE j = Len(s)
        BY <4>3, <4>2, <3>3
      <4>4. CASE j # Len(s)
        BY <4>4, <4>1, <4>2, <3>1, <3>4 DEF IInv, OrderIsRecency
      <4> QED
        BY <4>3, <4>4
    <3> QED
      BY <3>1, <3>5, <3>6, <3>7, <1>3
  <2> QED
    BY <2>1, <2>2
<1>5. /\ Len(entries') <= MaxEntries
      /\ Unique(entries')
      /\ Genuine(entries', produced')
      /\ Ordered(entries', since')
  BY <1>2, <1>4, EvictedKeeps
<1>6. since' \in [Files -> SUBSET Files] /\ \A g \in Files : IsFiniteSet(since'[g])
  <2>1. CASE f \in Cached
    BY <2>1, <1>2 DEF IInv, SinceFinite, TypeOK
  <2>2. CASE f \notin Cached
    BY <2>2, <1>1, <1>2, TouchedType DEF IInv
  <2> QED
    BY <2>1, <2>2
<1>7. TypeOK'
  <2>1. entries' \in Seq(Entries)
    BY <1>2, <1>4, EvictedShape
  <2> QED
    BY <2>1, <1>1, <1>2, <1>6 DEF TypeOK
<1>8. \A q \in Readers : got'[q] \in Readings => got'[q].of = file'[q]
  BY <1>1, <1>2 DEF TypeOK, IInv, NoForeignReading, f
<1> QED
  BY <1>5, <1>6, <1>7, <1>8
     DEF IInv, WithinLimit, NoForeignReading, OrderIsRecency, SinceFinite,
         Unique, Genuine, Ordered

-----------------------------------------------------------------------------
\* The invariant holds at the start and every step of the cache keeps it.
THEOREM Invariant == Spec => []IInv
<1> USE CacheAssumption
<1>1. Init => IInv
  <2> SUFFICES ASSUME Init PROVE IInv
    OBVIOUS
  <2>1. TypeOK
    BY DEF Init, TypeOK
  <2>2. WithinLimit /\ OrderIsRecency
    BY DEF Init, WithinLimit, OrderIsRecency
  <2>3. NoForeignReading
    BY DEF Init, NoForeignReading
  <2>4. SinceFinite
    BY FS_EmptySet DEF Init, SinceFinite
  <2> QED
    BY <2>1, <2>2, <2>3, <2>4 DEF IInv
<1>2. IInv /\ [Next]_vars => IInv'
  <2> SUFFICES ASSUME IInv, [Next]_vars PROVE IInv'
    OBVIOUS
  <2>1. ASSUME NEW r \in Readers, NEW f \in Files, Hit(r, f) PROVE IInv'
    BY <2>1, HitKeeps
  <2>2. ASSUME NEW r \in Readers, NEW f \in Files, Miss(r, f) PROVE IInv'
    <3>1. TypeOK'
      BY <2>2 DEF IInv, Miss, TypeOK
    <3>2. NoForeignReading'
      <4>1. \A q \in Readers : got[q] \in Readings => got[q].of \in Files
        BY DEF Readings
      <4> QED
        BY <2>2, <4>1 DEF IInv, TypeOK, Miss, Idle, NoForeignReading
    <3> QED
      BY <2>2, <3>1, <3>2
         DEF IInv, Miss, WithinLimit, OrderIsRecency, SinceFinite
  <2>3. ASSUME NEW r \in Readers, NEW t \in Takes, Store(r, t) PROVE IInv'
    BY <2>3, StoreKeeps
  <2>4. ASSUME NEW r \in Readers, InnerFails(r) PROVE IInv'
    <3>1. TypeOK'
      BY <2>4 DEF IInv, InnerFails, TypeOK
    <3>2. NoForeignReading'
      BY <2>4 DEF IInv, TypeOK, InnerFails, NoForeignReading
    <3> QED
      BY <2>4, <3>1, <3>2
         DEF IInv, InnerFails, WithinLimit, OrderIsRecency, SinceFinite
  <2>5. ASSUME NEW r \in Readers, Leave(r) PROVE IInv'
    <3>1. TypeOK'
      BY <2>5 DEF IInv, Leave, TypeOK
    <3>2. NoForeignReading'
      BY <2>5 DEF IInv, TypeOK, Leave, NoForeignReading
    <3> QED
      BY <2>5, <3>1, <3>2
         DEF IInv, Leave, WithinLimit, OrderIsRecency, SinceFinite
  <2>6. CASE Restart
    <3>1. TypeOK'
      BY <2>6 DEF Restart, TypeOK
    <3>2. WithinLimit' /\ OrderIsRecency'
      BY <2>6 DEF Restart, WithinLimit, OrderIsRecency
    <3>3. NoForeignReading'
      BY <2>6 DEF Restart, NoForeignReading
    <3>4. SinceFinite'
      BY <2>6, FS_EmptySet DEF Restart, SinceFinite
    <3> QED
      BY <3>1, <3>2, <3>3, <3>4 DEF IInv
  <2>7. CASE UNCHANGED vars
    BY <2>7 DEF vars, IInv, TypeOK, WithinLimit, NoForeignReading, OrderIsRecency, SinceFinite
  <2> QED
    BY <2>1, <2>2, <2>3, <2>4, <2>5, <2>6, <2>7 DEF Next
<1> QED
  BY <1>1, <1>2, PTL DEF Spec

\* Values keep their types whatever the readers do.
THEOREM TypeCorrect == Spec => []TypeOK
<1>1. IInv => TypeOK
  BY DEF IInv
<1> QED
  BY <1>1, Invariant, PTL

\* The dictionary never exceeds its limit between two awaits, and never holds a
\* digest twice, for any number of readers of any number of files.
THEOREM LimitHolds == Spec => []WithinLimit
<1>1. IInv => WithinLimit
  BY DEF IInv
<1> QED
  BY <1>1, Invariant, PTL

\* Nobody is answered with the reading of a file it did not upload.
THEOREM NobodyGetsAForeignReading == Spec => []NoForeignReading
<1>1. IInv => NoForeignReading
  BY DEF IInv
<1> QED
  BY <1>1, Invariant, PTL

\* The order of the dictionary is the order of use.
THEOREM OrderHolds == Spec => []OrderIsRecency
<1>1. IInv => OrderIsRecency
  BY DEF IInv
<1> QED
  BY <1>1, Invariant, PTL

\* Storing a new key into a full dictionary drops its head, and by the recency
\* order the MaxEntries entries that remain are all younger than the head.
LEMMA DroppedByStore ==
    ASSUME IInv, IInv', NEW r \in Readers, NEW t \in Takes, Store(r, t),
           NEW g \in Files, g \in Cached, g \notin Cached'
    PROVE  Cardinality(since'[g]) >= MaxEntries
<1> USE CacheAssumption
<1> DEFINE f == file[r]
           reading == [of |-> f, take |-> t]
           s == Stored(f, reading)
           n == Len(entries)
<1>1. TypeOK /\ f \in Files /\ reading \in Readings
  BY DEF IInv, Store, TypeOK, Reading, Readings
<1>2. /\ entries' = Evicted(s)
      /\ since' = IF f \in Cached THEN since ELSE Touched(f)
  BY DEF Store
<1>3. n \in Nat /\ n <= MaxEntries
  BY <1>1 DEF TypeOK, IInv, WithinLimit
<1>4. PICK i \in 1..n : entries[i].digest = g
  BY DEF Cached
<1>5. Cached' = {entries'[k].digest : k \in 1..Len(entries')}
  BY DEF Cached
<1> HIDE DEF f, reading, s
<1>6. f \notin Cached
  <2> SUFFICES ASSUME f \in Cached PROVE FALSE
    OBVIOUS
  <2>1. /\ s \in Seq(Entries)
        /\ Len(s) = n
        /\ \A k \in 1..n : s[k].digest = entries[k].digest
    BY <1>1, StoredInPlace DEF s
  <2>2. entries' = s
    BY <1>2, <1>3, <2>1 DEF Evicted
  <2>3. i \in 1..Len(entries') /\ entries'[i].digest = g
    BY <1>4, <2>1, <2>2
  <2> QED
    BY <1>5, <2>3
<1>7. /\ s \in Seq(Entries)
      /\ Len(s) = n + 1
      /\ \A k \in 1..n : s[k] = entries[k]
      /\ s[Len(s)] = [digest |-> f, result |-> reading]
  BY <1>1, <1>6, StoredAnew DEF s
<1> DEFINE d == IF Len(s) > MaxEntries THEN 1 ELSE 0
<1>8. /\ Len(entries') = Len(s) - d
      /\ \A k \in 1..(Len(s) - d) : entries'[k] = s[k + d]
  BY <1>2, <1>7, EvictedShape
<1>9. d = 1 /\ n = MaxEntries /\ i = 1
  <2>1. ASSUME i - d \in 1..(Len(s) - d) PROVE FALSE
    <3>1. entries'[i - d] = s[i]
      BY <2>1, <1>8, <1>4, <1>3
    <3>2. entries'[i - d].digest = g
      BY <3>1, <1>7, <1>4
    <3> QED
      BY <1>5, <1>8, <2>1, <3>2
  <2> QED
    BY <2>1, <1>3, <1>4, <1>7
<1>10. /\ since'[g] = since[g] \cup {f}
       /\ IsFiniteSet(since'[g])
  <2>1. g # f
    BY <1>6
  <2> QED
    BY <2>1, <1>2, <1>6 DEF Touched, IInv, SinceFinite
<1> DEFINE younger == [k \in 1..MaxEntries |-> s[k + 1].digest]
<1>11. younger \in [1..MaxEntries -> since'[g]]
  <2> SUFFICES ASSUME NEW k \in 1..MaxEntries PROVE s[k + 1].digest \in since'[g]
    OBVIOUS
  <2>1. CASE k = MaxEntries
    BY <2>1, <1>7, <1>9, <1>10
  <2>2. CASE k # MaxEntries
    <3>1. k + 1 \in 1..n /\ 1 \in 1..n /\ 1 < k + 1
      BY <2>2, <1>9, <1>3
    <3>2. entries[k + 1].digest \in since[entries[1].digest]
      BY <3>1 DEF IInv, OrderIsRecency
    <3> QED
      BY <3>1, <3>2, <1>4, <1>7, <1>9, <1>10
  <2> QED
    BY <2>1, <2>2
<1>12. \A k, l \in 1..MaxEntries : younger[k] = younger[l] => k = l
  <2> SUFFICES ASSUME NEW k \in 1..MaxEntries, NEW l \in 1..MaxEntries,
                      s[k + 1].digest = s[l + 1].digest
               PROVE  k = l
    OBVIOUS
  <2>1. k \in 1..Len(entries') /\ l \in 1..Len(entries')
    BY <1>7, <1>8, <1>9
  <2>2. entries'[k].digest = entries'[l].digest
    BY <2>1, <1>8, <1>9
  <2> QED
    BY <2>1, <2>2 DEF IInv, WithinLimit
<1>13. younger \in Injection(1..MaxEntries, since'[g])
  BY <1>11, <1>12 DEF Injection, IsInjective
<1>14. Cardinality(1..MaxEntries) <= Cardinality(since'[g])
  BY <1>10, <1>13, FS_Injection
<1>15. Cardinality(1..MaxEntries) = MaxEntries
  BY FS_Interval
<1>16. Cardinality(since'[g]) \in Nat
  BY <1>10, FS_CardinalityType
<1> QED
  BY <1>14, <1>15, <1>16

\* A working set of MaxEntries files is never forgotten: only storing a new file
\* drops one, and then that many others have been used since.
THEOREM ForgetsOnlyTheLeast == Spec => ForgetsOnlyTheLeastUsed
<1> USE CacheAssumption
<1>1. ASSUME IInv, IInv', [Next]_vars, NEW g \in Files,
             g \in Cached, g \notin Cached', Cached' # {}
      PROVE  Cardinality(since'[g]) >= MaxEntries
  <2>1. ASSUME NEW r \in Readers, NEW f \in Files, Hit(r, f) PROVE FALSE
    <3> DEFINE n == Len(entries)
               p == Position(f)
    <3>1. /\ Len(entries') = n
          /\ \A k \in 1..n :
                entries'[k] = entries[IF k = n THEN p ELSE IF k < p THEN k ELSE k + 1]
      BY <1>1, <2>1, MovedToEndShape DEF IInv, Hit
    <3>2. p \in 1..n
      BY <2>1, PositionOfCached DEF Hit
    <3>3. PICK i \in 1..n : entries[i].digest = g
      BY <1>1 DEF Cached
    <3>4. n \in Nat
      BY <1>1 DEF IInv, TypeOK
    <3>5. \A k \in 1..n : entries'[k].digest # g
      BY <1>1, <3>1 DEF Cached
    <3> HIDE DEF n, p
    <3>6. CASE i = p
      BY <3>6, <3>1, <3>3, <3>4, <3>5
    <3>7. CASE i < p
      BY <3>7, <3>1, <3>2, <3>3, <3>4, <3>5
    <3>8. CASE i > p
      <4>1. i - 1 \in 1..n /\ i - 1 # n /\ ~(i - 1 < p) /\ (i - 1) + 1 = i
        BY <3>8, <3>2, <3>3, <3>4
      <4> QED
        BY <4>1, <3>1, <3>3, <3>5
    <3> QED
      BY <3>2, <3>3, <3>4, <3>6, <3>7, <3>8
  <2>2. ASSUME entries' = entries PROVE FALSE
    BY <1>1, <2>2 DEF Cached
  <2>3. ASSUME NEW r \in Readers, NEW t \in Takes, Store(r, t)
        PROVE  Cardinality(since'[g]) >= MaxEntries
    BY <1>1, <2>3, DroppedByStore
  <2>4. CASE Restart
    BY <1>1, <2>4 DEF Restart, Cached
  <2> QED
    BY <1>1, <2>1, <2>2, <2>3, <2>4
       DEF Next, Miss, InnerFails, Leave, vars
<1>2. IInv /\ IInv' /\ [Next]_vars => DropIsLeastUsed
  BY <1>1 DEF DropIsLeastUsed
<1> QED
  BY <1>2, Invariant, PTL DEF Spec, ForgetsOnlyTheLeastUsed

\* The cache implements the engine it wraps: a hit answers at once with a
\* reading that exists, a miss asks, and a store answers with the new reading.
THEOREM Implements == Spec => ImplementsEngine
<1> USE CacheAssumption
<1>1. Init => Engine!Init
  BY DEF Init, Engine!Init
<1>2. IInv /\ [Next]_vars => [Engine!Next]_Engine!vars
  <2> SUFFICES ASSUME IInv, [Next]_vars PROVE [Engine!Next]_Engine!vars
    OBVIOUS
  <2>1. ASSUME NEW r \in Readers, NEW f \in Files, Hit(r, f)
        PROVE  \E t \in Takes : Engine!AnswerAtOnce(r, f, t)
    <3> DEFINE p == Position(f)
    <3>1. p \in 1..Len(entries) /\ entries[p].digest = f
      BY <2>1, PositionOfCached DEF Hit
    <3>2. entries[p].result \in Readings /\ entries[p].result \in produced
          /\ entries[p].result.of = f
      BY <3>1, EntryType DEF IInv, NoForeignReading
    <3>3. PICK t \in Takes : entries[p].result = [of |-> f, take |-> t]
      BY <3>2 DEF Readings
    <3> QED
      BY <2>1, <3>2, <3>3 DEF Hit, Idle, Engine!AnswerAtOnce, Engine!Idle
  <2>2. ASSUME NEW r \in Readers, NEW f \in Files, Miss(r, f) PROVE Engine!Ask(r, f)
    BY <2>2 DEF Miss, Idle, Engine!Ask, Engine!Idle
  <2>3. ASSUME NEW r \in Readers, NEW t \in Takes, Store(r, t) PROVE Engine!Answer(r, t)
    BY <2>3 DEF Store, Reading, Engine!Answer, Engine!Reading
  <2>4. ASSUME NEW r \in Readers, InnerFails(r) PROVE Engine!Fail(r)
    BY <2>4 DEF InnerFails, Reading, Engine!Fail, Engine!Reading
  <2>5. ASSUME NEW r \in Readers, Leave(r) PROVE Engine!Leave(r)
    BY <2>5 DEF Leave, Engine!Leave
  <2>6. CASE Restart
    BY <2>6 DEF Restart, Engine!Restart, Engine!Next
  <2>7. CASE UNCHANGED vars
    BY <2>7 DEF vars, Engine!vars
  <2> QED
    BY <2>1, <2>2, <2>3, <2>4, <2>5, <2>6, <2>7 DEF Next, Engine!Next
<1> QED
  BY <1>1, <1>2, Invariant, PTL DEF Spec, Engine!Spec, ImplementsEngine
=============================================================================
