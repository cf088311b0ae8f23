-------------------------- MODULE Tesseract_proofs --------------------------
(***************************************************************************)
(* What a read of TesseractEngine guarantees, for any number of concurrent *)
(* reads, files of any length, any output of the tools and any time limit. *)
(***************************************************************************)
EXTENDS Tesseract, FunctionTheorems, FiniteSetTheorems, TLAPS

-----------------------------------------------------------------------------
(* Putting things in order.                                                *)

\* before says of every thing in D which others are before it: one of any two, not a thing
\* itself, and whatever is before what is before it.
IsOrder(before, D) ==
    /\ before \in [D -> SUBSET D]
    /\ \A i \in D : i \notin before[i]
    /\ \A i, j \in D : i # j => i \in before[j] \/ j \in before[i]
    /\ \A i, j \in D : i \in before[j] => before[i] \subseteq before[j]

\* What InTurn makes of an order: every thing once, each after those before it.
LEMMA InTurnIsInOrder ==
    ASSUME NEW D, IsFiniteSet(D), NEW before, IsOrder(before, D)
    PROVE  LET n == Cardinality(D)
               turn == InTurn(before)
           IN  /\ n \in Nat
               /\ turn \in Bijection(1..n, D)
               /\ \A k, l \in 1..n : k < l => turn[k] \in before[turn[l]]
<1> DEFINE n == Cardinality(D)
           rank == [i \in D |-> Cardinality(before[i]) + 1]
           turn == InTurn(before)
<1>1. n \in Nat
  BY FS_CardinalityType
<1>2. ASSUME NEW i \in D
      PROVE  IsFiniteSet(before[i]) /\ rank[i] \in 1..n
  <2>1. before[i] \in SUBSET D /\ i \notin before[i]
    BY DEF IsOrder
  <2>2. IsFiniteSet(before[i]) /\ Cardinality(before[i]) <= n /\ Cardinality(before[i]) # n
    BY <2>1, FS_Subset
  <2>3. Cardinality(before[i]) \in Nat
    BY <2>2, FS_CardinalityType
  <2> QED
    BY <1>1, <2>2, <2>3
<1>3. ASSUME NEW i \in D, NEW j \in D, i \in before[j]
      PROVE  rank[i] < rank[j]
  <2>1. before[i] \in SUBSET before[j] /\ i \notin before[i]
    BY <1>3 DEF IsOrder
  <2>2. Cardinality(before[i]) <= Cardinality(before[j])
        /\ Cardinality(before[i]) # Cardinality(before[j])
    BY <1>2, <1>3, <2>1, FS_Subset
  <2>3. Cardinality(before[i]) \in Nat /\ Cardinality(before[j]) \in Nat
    BY <1>2, FS_CardinalityType
  <2> QED
    BY <2>2, <2>3
<1>4. rank \in Injection(D, 1..n)
  <2>1. rank \in [D -> 1..n]
    BY <1>2
  <2>2. ASSUME NEW i \in D, NEW j \in D, i # j PROVE rank[i] # rank[j]
    <3>1. rank[i] < rank[j] \/ rank[j] < rank[i]
      BY <1>3, <2>2 DEF IsOrder
    <3>2. rank[i] \in Int /\ rank[j] \in Int
      BY <1>2
    <3> QED
      BY <3>1, <3>2
  <2> HIDE DEF rank
  <2> QED
    BY <2>1, <2>2, Fun_IsInj
<1>5. rank \in Surjection(D, 1..n)
  <2>1. IsFiniteSet(1..n) /\ Cardinality(1..n) = n
    BY <1>1, FS_Interval
  <2> HIDE DEF rank
  <2> QED
    BY <1>4, <2>1, FS_Injection
<1>6. turn = [k \in 1..n |-> CHOOSE i \in D : rank[i] = k]
  <2> DEFINE counted(k) == CHOOSE i \in D : Cardinality(before[i]) = k - 1
             ranked(k) == CHOOSE i \in D : rank[i] = k
  <2>1. DOMAIN before = D
    BY DEF IsOrder
  <2>2. ASSUME NEW k \in 1..n PROVE counted(k) = ranked(k)
    <3>1. \A i \in D : Cardinality(before[i]) = k - 1 <=> rank[i] = k
      <4>1. \A i \in D : Cardinality(before[i]) \in Nat
        BY <1>2, FS_CardinalityType
      <4> QED
        BY <4>1, <1>1
    <3> QED
      BY <3>1
  <2>3. turn = [k \in 1..n |-> counted(k)]
    BY <2>1 DEF InTurn
  <2>4. [k \in 1..n |-> counted(k)] = [k \in 1..n |-> ranked(k)]
    <3> HIDE DEF counted, ranked
    <3> QED
      BY <2>2
  <2> QED
    BY <2>3, <2>4
<1> HIDE DEF rank, turn
<1>7. ASSUME NEW k \in 1..n PROVE turn[k] \in D /\ rank[turn[k]] = k
  <2>1. \E i \in D : rank[i] = k
    BY <1>5 DEF Surjection
  <2> QED
    BY <1>6, <2>1
<1>8. \A i \in D : turn[rank[i]] = i
  BY <1>2, <1>4, <1>7 DEF Injection, IsInjective
<1>9. turn \in Bijection(1..n, D)
  <2>1. turn \in [1..n -> D]
    BY <1>6, <1>7
  <2>2. \A k, l \in 1..n : turn[k] = turn[l] => k = l
    BY <1>7
  <2>3. \A i \in D : \E k \in 1..n : turn[k] = i
    BY <1>2, <1>8
  <2> QED
    BY <2>1, <2>2, <2>3, Fun_IsBij
<1>10. ASSUME NEW k \in 1..n, NEW l \in 1..n, k < l PROVE turn[k] \in before[turn[l]]
  <2>1. turn[k] # turn[l] /\ ~(turn[l] \in before[turn[k]])
    BY <1>1, <1>3, <1>7, <1>10
  <2> QED
    BY <1>7, <2>1 DEF IsOrder
<1> QED
  BY <1>1, <1>9, <1>10 DEF turn

\* Numbers in order; the first is the least of them and the last the greatest.
Earlier(S) == [i \in S |-> {j \in S : j < i}]

\* Numbers are in order by what is less.
LEMMA NumbersAreInOrder ==
    ASSUME NEW S \in SUBSET Int
    PROVE  IsOrder(Earlier(S), S)
<1> DEFINE before == Earlier(S)
<1>1. before \in [S -> SUBSET S] /\ \A i, j \in S : i \in before[j] <=> i < j
  BY DEF Earlier
<1>2. ASSUME NEW i \in S, NEW j \in S, i \in before[j], NEW k \in before[i]
      PROVE  k \in before[j]
  <2>1. k \in S /\ k < i /\ i < j
    BY <1>1, <1>2
  <2> QED
    BY <1>1, <2>1
<1> HIDE DEF before
<1>3. \A i, j \in S : i \in before[j] => before[i] \subseteq before[j]
  BY <1>2
<1>4. \A i, j \in S : i \notin before[i] /\ (i # j => i \in before[j] \/ j \in before[i])
  BY <1>1
<1>5. IsOrder(before, S)
  BY <1>1, <1>3, <1>4 DEF IsOrder
<1> QED
  BY <1>5 DEF before

\* What a function makes of a finite set is a finite set.
LEMMA FiniteImage ==
    ASSUME NEW S, IsFiniteSet(S), NEW f, DOMAIN f = S, f = [i \in S |-> f[i]]
    PROVE  IsFiniteSet({f[i] : i \in S})
<1> DEFINE T == {f[i] : i \in S}
<1>1. f \in [S -> T] /\ \A j \in T : \E i \in S : f[i] = j
  OBVIOUS
<1> HIDE DEF T
<1>2. f \in Surjection(S, T)
  BY <1>1, Fun_IsSurj
<1>3. IsFiniteSet(T)
  BY <1>2, FS_Surjection
<1> QED
  BY <1>3 DEF T

\* A finite set of numbers has a least and a greatest.
LEMMA LeastAndGreatest ==
    ASSUME NEW S \in SUBSET Int, IsFiniteSet(S), S # {}
    PROVE  /\ Min(S) \in S /\ \A i \in S : Min(S) <= i
           /\ Max(S) \in S /\ \A i \in S : Max(S) >= i
<1> DEFINE n == Cardinality(S)
           turn == InTurn(Earlier(S))
<1>1. /\ n \in Nat
      /\ turn \in Bijection(1..n, S)
      /\ \A k, l \in 1..n : k < l => turn[k] \in Earlier(S)[turn[l]]
  BY NumbersAreInOrder, InTurnIsInOrder
<1>2. n >= 1
  BY <1>1, FS_EmptySet
<1> HIDE DEF n, turn
<1>3. \A k \in 1..n : turn[k] \in S
  BY <1>1 DEF Bijection, Injection
<1>4. \A i \in S : \E k \in 1..n : turn[k] = i
  BY <1>1 DEF Bijection, Surjection
<1>5. \A k, l \in 1..n : k < l => turn[k] < turn[l]
  BY <1>1, <1>3 DEF Earlier
<1>6. \A i \in S : turn[1] <= i /\ i <= turn[n]
  <2>1. SUFFICES ASSUME NEW k \in 1..n PROVE turn[1] <= turn[k] /\ turn[k] <= turn[n]
    BY <1>4
  <2>2. turn[1] \in Int /\ turn[k] \in Int /\ turn[n] \in Int
    <3>1. 1 \in 1..n /\ n \in 1..n
      BY <1>1, <1>2
    <3> QED
      BY <1>3, <3>1
  <2>3. (k = 1 \/ turn[1] < turn[k]) /\ (k = n \/ turn[k] < turn[n])
    BY <1>1, <1>2, <1>5
  <2> QED
    BY <2>2, <2>3
<1>7. turn[1] \in S /\ turn[n] \in S
  BY <1>1, <1>2, <1>3
<1>8. \E m \in S : \A i \in S : m <= i
  BY <1>6, <1>7
<1>9. \E m \in S : \A i \in S : m >= i
  BY <1>6, <1>7
<1> QED
  BY <1>8, <1>9 DEF Min, Max

\* t has the elements of s at some places, each place once.
Picks(p, t, s, places) ==
    /\ p \in Bijection(1..Len(t), places)
    /\ \A k \in 1..Len(t) : t[k] = s[p[k]]

\* Taking the elements at some places in an order of the places is picking each of them once.
LEMMA PicksInTurn ==
    ASSUME NEW E, NEW s \in Seq(E), NEW places \in SUBSET DOMAIN s,
           NEW before, IsOrder(before, places),
           NEW t, t = [k \in DOMAIN InTurn(before) |-> s[InTurn(before)[k]]]
    PROVE  /\ t \in Seq(E)
           /\ \E p : /\ Picks(p, t, s, places)
                     /\ \A k, l \in 1..Len(t) : k < l => p[k] \in before[p[l]]
<1> DEFINE n == Cardinality(places)
           turn == InTurn(before)
<1>1. IsFiniteSet(places)
  <2>1. IsFiniteSet(1..Len(s))
    BY FS_Interval
  <2> QED
    BY <2>1, FS_Subset
<1>2. /\ n \in Nat
      /\ turn \in Bijection(1..n, places)
      /\ \A k, l \in 1..n : k < l => turn[k] \in before[turn[l]]
  BY <1>1, InTurnIsInOrder
<1> HIDE DEF n, turn
<1>3. turn \in [1..n -> places]
  BY <1>2 DEF Bijection, Injection
<1>4. t = [k \in 1..n |-> s[turn[k]]]
  BY <1>3 DEF turn
<1>5. t \in Seq(E) /\ Len(t) = n
  <2>1. \A k \in 1..n : s[turn[k]] \in E
    BY <1>3
  <2> QED
    BY <1>2, <1>4, <2>1
<1> QED
  BY <1>2, <1>4, <1>5 DEF Picks

\* So is taking them in the order they have.
LEMMA AtPicks ==
    ASSUME NEW E, NEW s \in Seq(E), NEW places \in SUBSET DOMAIN s
    PROVE  /\ At(s, places) \in Seq(E)
           /\ \E p : Picks(p, At(s, places), s, places)
<1>1. places \in SUBSET Int
  OBVIOUS
<1> DEFINE before == Earlier(places)
           t == At(s, places)
<1>2. IsOrder(before, places)
  BY <1>1, NumbersAreInOrder
<1>3. t = [k \in DOMAIN InTurn(before) |-> s[InTurn(before)[k]]]
  BY DEF At, Earlier
<1> HIDE DEF before, t
<1>4. t \in Seq(E) /\ \E p : Picks(p, t, s, places)
  BY <1>2, <1>3, PicksInTurn
<1> QED
  BY <1>4 DEF t

\* The same elements, each as often as it was there, if all of it is picked.
LEMMA PickedElements ==
    ASSUME NEW t, NEW s, NEW places, NEW p, Picks(p, t, s, places)
    PROVE  /\ \A k \in 1..Len(t) : \E i \in places : t[k] = s[i]
           /\ \A i \in places : \E k \in 1..Len(t) : t[k] = s[i]
<1>1. \A k \in 1..Len(t) : p[k] \in places /\ t[k] = s[p[k]]
  BY DEF Picks, Bijection, Injection
<1>2. \A i \in places : \E k \in 1..Len(t) : p[k] = i
  BY DEF Picks, Bijection, Surjection
<1> QED
  BY <1>1, <1>2

\* What is picked is there as often as it was.
LEMMA PickedAsOften ==
    ASSUME NEW E, NEW s \in Seq(E), NEW t \in Seq(E), NEW places \in SUBSET DOMAIN s,
           NEW p, Picks(p, t, s, places), NEW w, \A i \in DOMAIN s : s[i] = w => i \in places
    PROVE  TimesIn(t, w) = TimesIn(s, w)
<1> DEFINE here == {k \in DOMAIN t : t[k] = w}
           there == {i \in DOMAIN s : s[i] = w}
           q == [k \in here |-> p[k]]
<1>1. /\ \A k \in 1..Len(t) : p[k] \in places /\ t[k] = s[p[k]]
      /\ \A k, l \in 1..Len(t) : p[k] = p[l] => k = l
      /\ \A i \in places : \E k \in 1..Len(t) : p[k] = i
  BY DEF Picks, Bijection, Injection, Surjection, IsInjective
<1>2. q \in Bijection(here, there)
  <2>1. q \in [here -> there]
    BY <1>1
  <2>2. \A k, l \in here : q[k] = q[l] => k = l
    BY <1>1
  <2>3. \A i \in there : \E k \in here : q[k] = i
    <3>1. SUFFICES ASSUME NEW i \in there PROVE \E k \in here : q[k] = i
      OBVIOUS
    <3>2. PICK k \in 1..Len(t) : p[k] = i
      BY <1>1
    <3>3. k \in here
      BY <1>1, <3>2
    <3> QED
      BY <3>2, <3>3
  <2> HIDE DEF q, here, there
  <2> QED
    BY <2>1, <2>2, <2>3, Fun_IsBij
<1>3. IsFiniteSet(here)
  <2>1. IsFiniteSet(1..Len(t))
    BY FS_Interval
  <2> QED
    BY <2>1, FS_Subset
<1> HIDE DEF q, here, there
<1>4. Cardinality(here) = Cardinality(there)
  BY <1>2, <1>3, FS_Bijection DEF ExistsBijection
<1> QED
  BY <1>4 DEF TimesIn, here, there

-----------------------------------------------------------------------------
(* Lines out of words.                                                     *)

\* sort(), here of words by their left edge: all of them, none further left than the one
\* before it.
LEMMA SortedByLeft ==
    ASSUME NEW s \in Seq(Rows)
    PROVE  LET t == Sorted(s, LeftOf)
           IN  /\ t \in Seq(Rows)
               /\ \E p : Picks(p, t, s, DOMAIN s)
               /\ \A k, l \in 1..Len(t) : k < l => t[k].left <= t[l].left
<1> DEFINE D == DOMAIN s
           before == [i \in D |-> {j \in D : s[j].left < s[i].left
                                              \/ (~(s[i].left < s[j].left) /\ j < i)}]
           t == Sorted(s, LeftOf)
<1>1. D \in SUBSET DOMAIN s /\ \A i \in D : i \in Int /\ s[i].left \in Int
  <2>1. \A i \in D : i \in Int /\ s[i] \in Rows
    OBVIOUS
  <2> QED
    BY <2>1 DEF Rows
<1>2. t = [k \in DOMAIN InTurn(before) |-> s[InTurn(before)[k]]]
  BY DEF Sorted, LeftOf
<1>3. /\ before \in [D -> SUBSET D]
      /\ \A i, j \in D : j \in before[i] <=> \/ s[j].left < s[i].left
                                             \/ s[j].left = s[i].left /\ j < i
  BY <1>1
<1> HIDE DEF D, before, t
<1>4. IsOrder(before, D)
  <2>1. \A i, j \in D : i \notin before[i] /\ (i # j => i \in before[j] \/ j \in before[i])
    BY <1>1, <1>3
  <2>2. ASSUME NEW i \in D, NEW j \in D, i \in before[j], NEW k \in before[i]
        PROVE  k \in before[j]
    <3>1. k \in D
      BY <1>3
    <3> QED
      BY <1>1, <1>3, <2>2, <3>1
  <2>3. \A i, j \in D : i \in before[j] => before[i] \subseteq before[j]
    BY <2>2
  <2> QED
    BY <1>3, <2>1, <2>3 DEF IsOrder
<1>5. /\ t \in Seq(Rows)
      /\ \E p : /\ Picks(p, t, s, D)
                /\ \A k, l \in 1..Len(t) : k < l => p[k] \in before[p[l]]
  BY <1>1, <1>2, <1>4, PicksInTurn
<1>6. PICK p : /\ Picks(p, t, s, D)
               /\ \A k, l \in 1..Len(t) : k < l => p[k] \in before[p[l]]
  BY <1>5
<1>7. ASSUME NEW k \in 1..Len(t), NEW l \in 1..Len(t), k < l PROVE t[k].left <= t[l].left
  <2>1. p[k] \in D /\ p[l] \in D /\ t[k] = s[p[k]] /\ t[l] = s[p[l]]
    BY <1>6 DEF Picks, Bijection, Injection
  <2>2. p[k] \in before[p[l]]
    BY <1>6, <1>7
  <2> QED
    BY <1>1, <1>3, <2>1, <2>2
<1> QED
  BY <1>5, <1>6, <1>7 DEF D, t

\* The same of lines, from top to bottom.
LEMMA SortedFromTheTop ==
    ASSUME NEW s \in Seq(Lines)
    PROVE  LET t == Sorted(s, AboveOrLeftOf)
           IN  /\ t \in Seq(Lines)
               /\ \E p : Picks(p, t, s, DOMAIN s)
               /\ \A k, l \in 1..Len(t) : k < l => t[k].top <= t[l].top
<1> DEFINE D == DOMAIN s
           less(a, b) == a.top < b.top \/ (a.top = b.top /\ a.left < b.left)
           before == [i \in D |-> {j \in D : less(s[j], s[i]) \/ (~less(s[i], s[j]) /\ j < i)}]
           t == Sorted(s, AboveOrLeftOf)
<1>1. D \in SUBSET DOMAIN s /\ \A i \in D : i \in Int /\ s[i].top \in Int /\ s[i].left \in Int
  <2>1. \A i \in D : i \in Int /\ s[i] \in Lines
    OBVIOUS
  <2> QED
    BY <2>1 DEF Lines
<1>2. t = [k \in DOMAIN InTurn(before) |-> s[InTurn(before)[k]]]
  BY DEF Sorted, AboveOrLeftOf
<1>3. /\ before \in [D -> SUBSET D]
      /\ \A i, j \in D :
            j \in before[i] <=> \/ s[j].top < s[i].top
                                \/ s[j].top = s[i].top /\ s[j].left < s[i].left
                                \/ s[j].top = s[i].top /\ s[j].left = s[i].left /\ j < i
  <2>1. \A i, j \in D : j \in before[i] <=> less(s[j], s[i]) \/ (~less(s[i], s[j]) /\ j < i)
    OBVIOUS
  <2>2. before \in [D -> SUBSET D]
    OBVIOUS
  <2> HIDE DEF before
  <2>3. ASSUME NEW i \in D, NEW j \in D
        PROVE  j \in before[i] <=> \/ s[j].top < s[i].top
                                   \/ s[j].top = s[i].top /\ s[j].left < s[i].left
                                   \/ s[j].top = s[i].top /\ s[j].left = s[i].left /\ j < i
    <3>1. /\ s[i].top \in Int /\ s[i].left \in Int
          /\ s[j].top \in Int /\ s[j].left \in Int
      BY <1>1
    <3>2. j \in before[i] <=> less(s[j], s[i]) \/ (~less(s[i], s[j]) /\ j < i)
      BY <2>1
    <3> QED
      BY ONLY <3>1, <3>2
  <2> QED
    BY <2>2, <2>3
<1> HIDE DEF D, before, t
<1>4. IsOrder(before, D)
  <2>1. \A i, j \in D : i \notin before[i] /\ (i # j => i \in before[j] \/ j \in before[i])
    <3>1. ASSUME NEW i \in D, NEW j \in D
          PROVE  i \notin before[i] /\ (i # j => i \in before[j] \/ j \in before[i])
      BY <1>1, <1>3
    <3> QED
      BY <3>1
  <2>2. ASSUME NEW i \in D, NEW j \in D, i \in before[j], NEW k \in before[i]
        PROVE  k \in before[j]
    <3>1. k \in D
      BY <1>3
    <3> QED
      BY <1>1, <1>3, <2>2, <3>1
  <2>3. \A i, j \in D : i \in before[j] => before[i] \subseteq before[j]
    BY <2>2
  <2> QED
    BY <1>3, <2>1, <2>3 DEF IsOrder
<1>5. /\ t \in Seq(Lines)
      /\ \E p : /\ Picks(p, t, s, D)
                /\ \A k, l \in 1..Len(t) : k < l => p[k] \in before[p[l]]
  BY <1>1, <1>2, <1>4, PicksInTurn
<1>6. PICK p : /\ Picks(p, t, s, D)
               /\ \A k, l \in 1..Len(t) : k < l => p[k] \in before[p[l]]
  BY <1>5
<1>7. ASSUME NEW k \in 1..Len(t), NEW l \in 1..Len(t), k < l PROVE t[k].top <= t[l].top
  <2>1. p[k] \in D /\ p[l] \in D /\ t[k] = s[p[k]] /\ t[l] = s[p[l]]
    BY <1>6 DEF Picks, Bijection, Injection
  <2>2. p[k] \in before[p[l]]
    BY <1>6, <1>7
  <2> QED
    BY <1>1, <1>3, <2>1, <2>2
<1> QED
  BY <1>5, <1>6, <1>7 DEF D, t

\* The words of a line, and their number: those of the group it is made of; its box is
\* around all of them.
ElementsOf(s) == {s[i] : i \in DOMAIN s}

\* _join(): a line has the words it is made of, in order, in a box around them.
LEMMA JoinIsALine ==
    ASSUME NEW words \in Seq(Rows), words # <<>>
    PROVE  LET line == _join(words)
           IN  /\ line \in Lines
               /\ ElementsOf(line.words) = ElementsOf(words)
               /\ \A w : TimesIn(line.words, w) = TimesIn(words, w)
               /\ \A i, j \in DOMAIN line.words :
                     i < j => line.words[i].left <= line.words[j].left
               /\ \A w \in ElementsOf(words) :
                     /\ w.left >= line.left /\ w.left + w.width <= line.left + line.width
                     /\ w.top >= line.top /\ w.top + w.height <= line.top + line.height
<1> DEFINE line == _join(words)
           all == {words[i] : i \in DOMAIN words}
           lefts == {w.left : w \in all}
           tops == {w.top : w \in all}
           rights == {w.left + w.width : w \in all}
           bottoms == {w.top + w.height : w \in all}
<1>1. line = [words |-> Sorted(words, LeftOf), left |-> Min(lefts), top |-> Min(tops),
              width |-> Max(rights) - Min(lefts), height |-> Max(bottoms) - Min(tops)]
  BY DEF _join
<1>2. all \in SUBSET Rows /\ all # {} /\ IsFiniteSet(all)
  <2>1. words \in Surjection(DOMAIN words, all)
    <3>1. words \in [DOMAIN words -> all] /\ \A w \in all : \E i \in DOMAIN words : words[i] = w
      OBVIOUS
    <3> QED
      BY <3>1, Fun_IsSurj
  <2>2. IsFiniteSet(DOMAIN words)
    BY FS_Interval
  <2> QED
    BY <2>1, <2>2, FS_Surjection
<1> HIDE DEF all
<1>3. /\ lefts \in SUBSET Int /\ lefts # {} /\ IsFiniteSet(lefts)
      /\ tops \in SUBSET Int /\ tops # {} /\ IsFiniteSet(tops)
      /\ rights \in SUBSET Int /\ rights # {} /\ IsFiniteSet(rights)
      /\ bottoms \in SUBSET Int /\ bottoms # {} /\ IsFiniteSet(bottoms)
  <2>1. IsFiniteSet(lefts)
    <3> DEFINE f == [w \in all |-> w.left]
    <3>1. DOMAIN f = all /\ f = [w \in all |-> f[w]] /\ lefts = {f[w] : w \in all}
      OBVIOUS
    <3> HIDE DEF f, lefts
    <3> QED
      BY <1>2, <3>1, FiniteImage
  <2>2. IsFiniteSet(tops)
    <3> DEFINE f == [w \in all |-> w.top]
    <3>1. DOMAIN f = all /\ f = [w \in all |-> f[w]] /\ tops = {f[w] : w \in all}
      OBVIOUS
    <3> HIDE DEF f, tops
    <3> QED
      BY <1>2, <3>1, FiniteImage
  <2>3. IsFiniteSet(rights)
    <3> DEFINE f == [w \in all |-> w.left + w.width]
    <3>1. DOMAIN f = all /\ f = [w \in all |-> f[w]] /\ rights = {f[w] : w \in all}
      OBVIOUS
    <3> HIDE DEF f, rights
    <3> QED
      BY <1>2, <3>1, FiniteImage
  <2>4. IsFiniteSet(bottoms)
    <3> DEFINE f == [w \in all |-> w.top + w.height]
    <3>1. DOMAIN f = all /\ f = [w \in all |-> f[w]] /\ bottoms = {f[w] : w \in all}
      OBVIOUS
    <3> HIDE DEF f, bottoms
    <3> QED
      BY <1>2, <3>1, FiniteImage
  <2>5. /\ lefts \in SUBSET Int /\ tops \in SUBSET Int
        /\ rights \in SUBSET Int /\ bottoms \in SUBSET Int
    <3>1. ASSUME NEW w \in all
          PROVE  w.left \in Int /\ w.top \in Int /\ w.width \in Int /\ w.height \in Int
      BY <1>2 DEF Rows
    <3> QED
      BY <3>1
  <2>6. lefts # {} /\ tops # {} /\ rights # {} /\ bottoms # {}
    BY <1>2
  <2> QED
    BY <2>1, <2>2, <2>3, <2>4, <2>5, <2>6
<1> DEFINE left == Min(lefts)
           top == Min(tops)
           right == Max(rights)
           bottom == Max(bottoms)
<1>4. /\ left \in Int /\ top \in Int /\ right \in Int /\ bottom \in Int
      /\ \A w \in all : /\ left <= w.left /\ top <= w.top
                        /\ w.left + w.width <= right /\ w.top + w.height <= bottom
  <2>1. left \in lefts /\ \A x \in lefts : left <= x
    BY <1>3, LeastAndGreatest
  <2>2. top \in tops /\ \A x \in tops : top <= x
    BY <1>3, LeastAndGreatest
  <2>3. right \in rights /\ \A x \in rights : right >= x
    BY <1>3, LeastAndGreatest
  <2>4. bottom \in bottoms /\ \A x \in bottoms : bottom >= x
    BY <1>3, LeastAndGreatest
  <2> HIDE DEF left, top, right, bottom
  <2> QED
    BY <1>2, <1>3, <2>1, <2>2, <2>3, <2>4 DEF Rows
<1> DEFINE sorted == Sorted(words, LeftOf)
<1>5. /\ sorted \in Seq(Rows)
      /\ \A i, j \in DOMAIN sorted : i < j => sorted[i].left <= sorted[j].left
  BY SortedByLeft
<1>6. PICK p : Picks(p, sorted, words, DOMAIN words)
  BY SortedByLeft
<1>7. line = [words |-> sorted, left |-> left, top |-> top, width |-> right - left,
              height |-> bottom - top]
  BY <1>1
<1> HIDE DEF left, top, right, bottom, sorted, line
<1>8. line \in Lines
  BY <1>4, <1>5, <1>7 DEF Lines
<1>9. ElementsOf(sorted) = ElementsOf(words)
  <2> DEFINE D == DOMAIN words
  <2>0. Picks(p, sorted, words, D)
    BY <1>6
  <2> HIDE DEF D
  <2>1. /\ \A k \in 1..Len(sorted) : \E i \in D : sorted[k] = words[i]
        /\ \A i \in D : \E k \in 1..Len(sorted) : sorted[k] = words[i]
    BY <2>0, PickedElements
  <2>2. ElementsOf(sorted) = {sorted[k] : k \in 1..Len(sorted)}
    BY <1>5 DEF ElementsOf
  <2>3. ElementsOf(words) = {words[i] : i \in D}
    BY DEF ElementsOf, D
  <2> QED
    BY <2>1, <2>2, <2>3
<1>10. ASSUME NEW w PROVE TimesIn(sorted, w) = TimesIn(words, w)
  BY <1>5, <1>6, PickedAsOften
<1>11. \A w \in ElementsOf(words) :
          /\ w.left >= line.left /\ w.left + w.width <= line.left + line.width
          /\ w.top >= line.top /\ w.top + w.height <= line.top + line.height
  <2>1. ElementsOf(words) = all
    BY DEF ElementsOf, all
  <2> QED
    BY <1>2, <1>4, <1>7, <2>1 DEF Rows
<1> QED
  BY <1>5, <1>7, <1>8, <1>9, <1>10, <1>11 DEF line

\* What At leaves of a sequence.
LEMMA AtElements ==
    ASSUME NEW E, NEW s \in Seq(E), NEW places \in SUBSET DOMAIN s
    PROVE  /\ At(s, places) \in Seq(E)
           /\ ElementsOf(At(s, places)) = {s[i] : i \in places}
           /\ \A w : (\A i \in DOMAIN s : s[i] = w => i \in places)
                        => TimesIn(At(s, places), w) = TimesIn(s, w)
<1> DEFINE t == At(s, places)
<1>1. t \in Seq(E) /\ \E p : Picks(p, t, s, places)
  BY AtPicks
<1>2. PICK p : Picks(p, t, s, places)
  BY <1>1
<1> HIDE DEF t
<1>3. ElementsOf(t) = {s[i] : i \in places}
  <2>1. /\ \A k \in 1..Len(t) : \E i \in places : t[k] = s[i]
        /\ \A i \in places : \E k \in 1..Len(t) : t[k] = s[i]
    BY <1>2, PickedElements
  <2>2. ElementsOf(t) = {t[k] : k \in 1..Len(t)}
    BY <1>1 DEF ElementsOf
  <2> QED
    BY <2>1, <2>2
<1>4. ASSUME NEW w, \A i \in DOMAIN s : s[i] = w => i \in places
      PROVE  TimesIn(t, w) = TimesIn(s, w)
  BY <1>1, <1>2, <1>4, PickedAsOften
<1> QED
  BY <1>1, <1>3, <1>4 DEF t

\* The words of a page are its rows that are words, each as often.
LEMMA WordsAreTheRows ==
    ASSUME NEW rows \in Seq(Rows)
    PROVE  /\ WordsOf(rows) \in Seq(Rows)
           /\ ElementsOf(WordsOf(rows)) = {rows[i] : i \in {j \in DOMAIN rows : IsWord(rows[j])}}
           /\ \A w \in ElementsOf(WordsOf(rows)) : TimesIn(WordsOf(rows), w) = TimesIn(rows, w)
<1> DEFINE places == {i \in DOMAIN rows : IsWord(rows[i])}
           words == At(rows, places)
<1>1. places \in SUBSET DOMAIN rows /\ words = WordsOf(rows)
  BY DEF WordsOf
<1>2. /\ words \in Seq(Rows)
      /\ ElementsOf(words) = {rows[i] : i \in places}
      /\ \A w : (\A i \in DOMAIN rows : rows[i] = w => i \in places)
                   => TimesIn(words, w) = TimesIn(rows, w)
  <2> HIDE DEF places
  <2> QED
    BY <1>1, AtElements
<1> HIDE DEF words
<1>3. ASSUME NEW w \in ElementsOf(words) PROVE \A i \in DOMAIN rows : rows[i] = w => i \in places
  BY <1>2, <1>3
<1>4. \A w \in ElementsOf(words) : TimesIn(words, w) = TimesIn(rows, w)
  <2> HIDE DEF places
  <2> QED
    BY <1>2, <1>3
<1> QED
  BY <1>1, <1>2, <1>4

\* The group of a key is the words with that key, each as often.
LEMMA GroupIsItsWords ==
    ASSUME NEW words \in Seq(Rows), NEW key
    PROVE  /\ Group(words, key) \in Seq(Rows)
           /\ ElementsOf(Group(words, key)) = {w \in ElementsOf(words) : KeyOf(w) = key}
           /\ \A w : KeyOf(w) = key => TimesIn(Group(words, key), w) = TimesIn(words, w)
<1> DEFINE places == {i \in DOMAIN words : KeyOf(words[i]) = key}
           group == At(words, places)
<1>1. places \in SUBSET DOMAIN words /\ group = Group(words, key)
  BY DEF Group
<1>2. /\ group \in Seq(Rows)
      /\ ElementsOf(group) = {words[i] : i \in places}
      /\ \A w : (\A i \in DOMAIN words : words[i] = w => i \in places)
                   => TimesIn(group, w) = TimesIn(words, w)
  <2> HIDE DEF places
  <2> QED
    BY <1>1, AtElements
<1> HIDE DEF group
<1>3. ASSUME NEW w, KeyOf(w) = key PROVE TimesIn(group, w) = TimesIn(words, w)
  <2>1. \A i \in DOMAIN words : words[i] = w => i \in places
    BY <1>3
  <2> HIDE DEF places
  <2> QED
    BY <1>2, <2>1
<1>4. ElementsOf(group) = {w \in ElementsOf(words) : KeyOf(w) = key}
  BY <1>2 DEF ElementsOf
<1> QED
  BY <1>1, <1>2, <1>3, <1>4

\* Every key has one first word.
LEMMA FirstsHaveEveryKeyOnce ==
    ASSUME NEW words \in Seq(Rows)
    PROVE  LET firsts == FirstOfTheirKey(words)
           IN  /\ firsts \in Seq(Rows)
               /\ \A k \in 1..Len(firsts) : firsts[k] \in ElementsOf(words)
               /\ \A w \in ElementsOf(words) :
                     \E k \in 1..Len(firsts) : KeyOf(firsts[k]) = KeyOf(w)
               /\ \A k, l \in 1..Len(firsts) : KeyOf(firsts[k]) = KeyOf(firsts[l]) => k = l
<1> DEFINE starts == {i \in DOMAIN words : \A j \in 1..(i - 1) : KeyOf(words[j]) # KeyOf(words[i])}
           firsts == At(words, starts)
<1>1. starts \in SUBSET DOMAIN words /\ firsts = FirstOfTheirKey(words)
  BY DEF FirstOfTheirKey
<1>2. ASSUME NEW i \in DOMAIN words PROVE \E j \in starts : KeyOf(words[j]) = KeyOf(words[i])
  <2> DEFINE same == {j \in DOMAIN words : KeyOf(words[j]) = KeyOf(words[i])}
  <2>1. same \in SUBSET Int /\ same # {} /\ IsFiniteSet(same)
    <3>1. IsFiniteSet(1..Len(words)) /\ same \in SUBSET (1..Len(words))
      BY FS_Interval
    <3> QED
      BY <3>1, FS_Subset
  <2>2. Min(same) \in same /\ \A j \in same : Min(same) <= j
    <3> HIDE DEF same
    <3> QED
      BY <2>1, LeastAndGreatest
  <2> DEFINE m == Min(same)
  <2>3. m \in DOMAIN words /\ KeyOf(words[m]) = KeyOf(words[i]) /\ \A j \in same : m <= j
    BY <2>2
  <2> HIDE DEF m
  <2>4. m \in starts
    <3>1. SUFFICES ASSUME NEW j \in 1..(m - 1), KeyOf(words[j]) = KeyOf(words[m]) PROVE FALSE
      BY <2>3
    <3>2. j \in DOMAIN words /\ j < m
      BY <2>3
    <3>3. j \in same
      BY <2>3, <3>1, <3>2
    <3> QED
      BY <2>3, <3>2, <3>3
  <2> QED
    BY <2>3, <2>4
<1>3. \A i, j \in starts : KeyOf(words[i]) = KeyOf(words[j]) => i = j
  <2>1. SUFFICES ASSUME NEW i \in starts, NEW j \in starts,
                        KeyOf(words[i]) = KeyOf(words[j]), i < j
                 PROVE  FALSE
    OBVIOUS
  <2>2. i \in 1..(j - 1)
    BY <2>1
  <2> QED
    BY <2>1, <2>2
<1> HIDE DEF starts
<1>4. firsts \in Seq(Rows) /\ \E p : Picks(p, firsts, words, starts)
  BY <1>1, AtPicks
<1>5. PICK p : Picks(p, firsts, words, starts)
  BY <1>4
<1> HIDE DEF firsts
<1>6. /\ \A k \in 1..Len(firsts) : p[k] \in starts /\ firsts[k] = words[p[k]]
      /\ \A k, l \in 1..Len(firsts) : p[k] = p[l] => k = l
      /\ \A i \in starts : \E k \in 1..Len(firsts) : p[k] = i
  BY <1>5 DEF Picks, Bijection, Injection, Surjection, IsInjective
<1>7. \A k \in 1..Len(firsts) : firsts[k] \in ElementsOf(words)
  BY <1>1, <1>6 DEF ElementsOf
<1>8. ASSUME NEW w \in ElementsOf(words)
      PROVE  \E k \in 1..Len(firsts) : KeyOf(firsts[k]) = KeyOf(w)
  <2>1. PICK i \in DOMAIN words : words[i] = w
    BY <1>8 DEF ElementsOf
  <2>2. PICK j \in starts : KeyOf(words[j]) = KeyOf(words[i])
    BY <1>2
  <2>3. PICK k \in 1..Len(firsts) : p[k] = j
    BY <1>6
  <2> QED
    BY <1>6, <2>1, <2>2, <2>3
<1>9. \A k, l \in 1..Len(firsts) : KeyOf(firsts[k]) = KeyOf(firsts[l]) => k = l
  BY <1>3, <1>6
<1> QED
  BY <1>1, <1>4, <1>7, <1>8, <1>9

\* _parse_tsv(): whatever tesseract prints, the lines of the page keep the words of it.
LEMMA ParsedIsAReading ==
    ASSUME NEW rows \in Seq(Rows)
    PROVE  _parse_tsv(rows) \in Seq(Lines) /\ IsReadingOf(_parse_tsv(rows), rows)
<1> DEFINE words == WordsOf(rows)
           firsts == FirstOfTheirKey(words)
           n == Len(firsts)
           group(k) == Group(words, KeyOf(firsts[k]))
           raw == [k \in 1..n |-> _join(group(k))]
           lines == _parse_tsv(rows)
<1>1. /\ words \in Seq(Rows)
      /\ ElementsOf(words) = {rows[i] : i \in {j \in DOMAIN rows : IsWord(rows[j])}}
      /\ \A w \in ElementsOf(words) : TimesIn(words, w) = TimesIn(rows, w)
  BY WordsAreTheRows
<1> HIDE DEF words
<1>2. /\ firsts \in Seq(Rows)
      /\ \A k \in 1..n : firsts[k] \in ElementsOf(words)
      /\ \A w \in ElementsOf(words) : \E k \in 1..n : KeyOf(firsts[k]) = KeyOf(w)
      /\ \A k, l \in 1..n : KeyOf(firsts[k]) = KeyOf(firsts[l]) => k = l
  BY <1>1, FirstsHaveEveryKeyOnce
<1>3. lines = Sorted(raw, AboveOrLeftOf)
  BY <1>2 DEF _parse_tsv, words
<1> HIDE DEF firsts
<1> DEFINE IsLineOf(line, k) ==
      /\ line \in Lines
      /\ ElementsOf(line.words) = {w \in ElementsOf(words) : KeyOf(w) = KeyOf(firsts[k])}
      /\ \A w \in ElementsOf(line.words) : TimesIn(line.words, w) = TimesIn(rows, w)
      /\ \A i, j \in DOMAIN line.words :
            i < j => line.words[i].left <= line.words[j].left
      /\ \A w \in ElementsOf(line.words) :
            /\ w.left >= line.left /\ w.left + w.width <= line.left + line.width
            /\ w.top >= line.top /\ w.top + w.height <= line.top + line.height
<1>4. ASSUME NEW k \in 1..n PROVE IsLineOf(_join(group(k)), k)
  <2> DEFINE key == KeyOf(firsts[k])
             g == Group(words, key)
             line == _join(g)
  <2>1. /\ g \in Seq(Rows)
        /\ ElementsOf(g) = {w \in ElementsOf(words) : KeyOf(w) = key}
        /\ \A w : KeyOf(w) = key => TimesIn(g, w) = TimesIn(words, w)
    BY <1>1, GroupIsItsWords
  <2>2. g # <<>>
    <3>1. firsts[k] \in ElementsOf(g)
      BY <1>2, <2>1
    <3> QED
      BY <3>1 DEF ElementsOf
  <2> HIDE DEF g
  <2>3. /\ line \in Lines
        /\ ElementsOf(line.words) = ElementsOf(g)
        /\ \A w : TimesIn(line.words, w) = TimesIn(g, w)
        /\ \A i, j \in DOMAIN line.words :
              i < j => line.words[i].left <= line.words[j].left
        /\ \A w \in ElementsOf(g) :
              /\ w.left >= line.left /\ w.left + w.width <= line.left + line.width
              /\ w.top >= line.top /\ w.top + w.height <= line.top + line.height
    BY <2>1, <2>2, JoinIsALine
  <2> HIDE DEF line
  <2>4. \A w \in ElementsOf(line.words) : TimesIn(line.words, w) = TimesIn(rows, w)
    BY <1>1, <2>1, <2>3
  <2>5. IsLineOf(line, k)
    BY <2>1, <2>3, <2>4
  <2> QED
    BY <2>5 DEF line, g
<1>5. raw \in Seq(Lines) /\ DOMAIN raw = 1..n /\ \A k \in 1..n : IsLineOf(raw[k], k)
  <2>1. n \in Nat
    BY <1>2
  <2> DEFINE joined(k) == _join(group(k))
  <2>2. raw = [k \in 1..n |-> joined(k)] /\ \A k \in 1..n : IsLineOf(joined(k), k)
    BY <1>4
  <2> HIDE DEF joined, raw, n
  <2> QED
    BY <2>1, <2>2
<1> HIDE DEF raw, n
<1>6. /\ lines \in Seq(Lines)
      /\ \E q : Picks(q, lines, raw, DOMAIN raw)
      /\ \A k, l \in 1..Len(lines) : k < l => lines[k].top <= lines[l].top
  BY <1>3, <1>5, SortedFromTheTop
<1> HIDE DEF lines
<1>7. PICK q : Picks(q, lines, raw, 1..n)
  BY <1>5, <1>6
<1>8. /\ \A k \in 1..Len(lines) : q[k] \in 1..n /\ IsLineOf(lines[k], q[k])
      /\ \A k, l \in 1..Len(lines) : q[k] = q[l] => k = l
      /\ \A i \in 1..n : \E k \in 1..Len(lines) : q[k] = i
  <2>1. /\ \A k \in 1..Len(lines) : q[k] \in 1..n /\ lines[k] = raw[q[k]]
        /\ \A k, l \in 1..Len(lines) : q[k] = q[l] => k = l
        /\ \A i \in 1..n : \E k \in 1..Len(lines) : q[k] = i
    BY <1>7 DEF Picks, Bijection, Injection, Surjection, IsInjective
  <2> HIDE DEF IsLineOf
  <2> QED
    BY <1>5, <2>1
<1> DEFINE in(line) == ElementsOf(line.words)
<1>9. UNION {in(lines[k]) : k \in DOMAIN lines} = ElementsOf(words)
  <2>1. \A k \in DOMAIN lines : in(lines[k]) \subseteq ElementsOf(words)
    BY <1>6, <1>8
  <2>2. ASSUME NEW w \in ElementsOf(words) PROVE \E k \in DOMAIN lines : w \in in(lines[k])
    <3>1. PICK i \in 1..n : KeyOf(firsts[i]) = KeyOf(w)
      BY <1>2
    <3>2. PICK k \in 1..Len(lines) : q[k] = i
      BY <1>8
    <3> QED
      BY <1>6, <1>8, <3>1, <3>2
  <2> QED
    BY <2>1, <2>2
<1>10. ASSUME NEW k \in DOMAIN lines, NEW v \in in(lines[k]), NEW w \in ElementsOf(words)
       PROVE  w \in in(lines[k]) <=> v.block = w.block /\ v.par = w.par /\ v.line = w.line
  <2>1. w \in in(lines[k]) <=> KeyOf(w) = KeyOf(v)
    BY <1>6, <1>8
  <2> QED
    BY <2>1 DEF KeyOf
<1>11. ASSUME NEW k \in DOMAIN lines, NEW l \in DOMAIN lines, k < l
       PROVE  in(lines[k]) \cap in(lines[l]) = {} /\ lines[k].top <= lines[l].top
  <2>1. k \in 1..Len(lines) /\ l \in 1..Len(lines) /\ k # l
    BY <1>6, <1>11
  <2>2. KeyOf(firsts[q[k]]) # KeyOf(firsts[q[l]])
    BY <1>2, <1>8, <2>1
  <2>3. ASSUME NEW w \in in(lines[k]), w \in in(lines[l]) PROVE FALSE
    <3>1. KeyOf(w) = KeyOf(firsts[q[k]]) /\ KeyOf(w) = KeyOf(firsts[q[l]])
      BY <1>8, <2>1, <2>3
    <3> QED
      BY <2>2, <3>1
  <2> QED
    BY <1>6, <1>11, <2>1, <2>3
<1>12. \A k \in DOMAIN lines :
          /\ \A w \in in(lines[k]) : TimesIn(lines[k].words, w) = TimesIn(rows, w)
          /\ \A i, j \in DOMAIN lines[k].words :
                i < j => lines[k].words[i].left <= lines[k].words[j].left
          /\ \A w \in in(lines[k]) :
                /\ w.left >= lines[k].left /\ w.left + w.width <= lines[k].left + lines[k].width
                /\ w.top >= lines[k].top /\ w.top + w.height <= lines[k].top + lines[k].height
  BY <1>6, <1>8
<1>13. IsReadingOf(lines, rows)
  BY <1>1, <1>9, <1>10, <1>11, <1>12 DEF IsReadingOf, ElementsOf
<1> QED
  BY <1>6, <1>13 DEF lines

-----------------------------------------------------------------------------
(* The pages of a document.                                                *)

\* _render(): the images are ordered by their pages, each once.
LEMMA ImagesAreInOrder ==
    ASSUME NEW f \in Files, NEW images \in SUBSET ImagesOf(f)
    PROVE  LET n == Cardinality(images)
               order == InOrder(images)
           IN  /\ n \in Nat /\ n <= PagesOf[f] /\ (images # {} => n > 0)
               /\ order \in Bijection(1..n, images)
               /\ order \in Seq(Images) /\ Len(order) = n
               /\ \A k, l \in 1..n : k < l => order[k].page < order[l].page
<1> USE TesseractAssumption
<1> DEFINE before == [i \in images |-> {j \in images : j.page < i.page}]
           n == Cardinality(images)
           order == InOrder(images)
<1>1. /\ PagesOf[f] \in Nat /\ images \in SUBSET Images
      /\ \A i \in images : i.of = f /\ i.page \in 1..PagesOf[f]
      /\ \A i, j \in images : i.page = j.page => i = j
  BY DEF Images, ImagesOf
<1>2. IsFiniteSet(images) /\ n <= PagesOf[f]
  <2> DEFINE number == [i \in images |-> i.page]
  <2>1. number \in Injection(images, 1..PagesOf[f])
    <3>1. number \in [images -> 1..PagesOf[f]] /\ \A i, j \in images : number[i] = number[j] => i = j
      BY <1>1
    <3> HIDE DEF number
    <3> QED
      BY <3>1, Fun_IsInj
  <2>2. IsFiniteSet(1..PagesOf[f]) /\ Cardinality(1..PagesOf[f]) = PagesOf[f]
    BY <1>1, FS_Interval
  <2> HIDE DEF number
  <2> QED
    BY <2>1, <2>2, FS_Injection
<1>3. order = InTurn(before)
  BY DEF InOrder
<1>4. before \in [images -> SUBSET images] /\ \A i, j \in images : j \in before[i] <=> j.page < i.page
  OBVIOUS
<1> HIDE DEF before, order
<1>5. IsOrder(before, images)
  <2>1. \A i, j \in images : i \notin before[i] /\ (i # j => i \in before[j] \/ j \in before[i])
    <3>1. ASSUME NEW i \in images, NEW j \in images
          PROVE  i \notin before[i] /\ (i # j => i \in before[j] \/ j \in before[i])
      BY <1>1, <1>4
    <3> QED
      BY <3>1
  <2>2. ASSUME NEW i \in images, NEW j \in images, i \in before[j], NEW k \in before[i]
        PROVE  k \in before[j]
    <3>1. k \in images
      BY <1>4
    <3> QED
      BY <1>1, <1>4, <2>2, <3>1
  <2>3. \A i, j \in images : i \in before[j] => before[i] \subseteq before[j]
    BY <2>2
  <2> QED
    BY <1>4, <2>1, <2>3 DEF IsOrder
<1>6. /\ n \in Nat
      /\ order \in Bijection(1..n, images)
      /\ \A k, l \in 1..n : k < l => order[k] \in before[order[l]]
  BY <1>2, <1>3, <1>5, InTurnIsInOrder
<1>7. images # {} => n > 0
  BY <1>2, <1>6, FS_EmptySet
<1> HIDE DEF n
<1>8. order \in [1..n -> images]
  BY <1>6 DEF Bijection, Injection
<1>9. order \in Seq(Images) /\ Len(order) = n
  BY <1>1, <1>6, <1>8
<1>10. \A k, l \in 1..n : k < l => order[k].page < order[l].page
  BY <1>4, <1>6, <1>8
<1> QED
  BY <1>2, <1>6, <1>7, <1>9, <1>10 DEF n, order

\* The pages read so far are the first of the document, the queue has the others.
Placed(read, rest, order) ==
    /\ Len(read) + Len(rest) = Len(order)
    /\ \A k \in 1..Len(read) : read[k].image = order[k] /\ read[k].number = k
    /\ \A k \in 1..Len(rest) : rest[k] = order[Len(read) + k]

\* _read_page(): the pages read stay as they are, the next is numbered one higher.
LEMMA OneMorePage ==
    ASSUME NEW read \in Seq(OcrPages), NEW rest \in Seq(Images), NEW order \in Seq(Images),
           Len(rest) > 0, Placed(read, rest, order), NEW lines \in Seq(Lines)
    PROVE  LET longer == Append(read, [number |-> Len(read) + 1, image |-> Head(rest),
                                       lines |-> lines])
           IN  /\ longer \in Seq(OcrPages) /\ Len(longer) = Len(read) + 1
               /\ \A k \in 1..Len(read) : longer[k] = read[k]
               /\ longer[Len(read) + 1].lines = lines
               /\ Tail(rest) \in Seq(Images) /\ Len(Tail(rest)) = Len(rest) - 1
               /\ Placed(longer, Tail(rest), order)
<1> DEFINE page == [number |-> Len(read) + 1, image |-> Head(rest), lines |-> lines]
           longer == Append(read, page)
<1>1. Head(rest) = rest[1] /\ rest[1] \in Images
  OBVIOUS
<1>2. page \in OcrPages /\ page.number = Len(read) + 1 /\ page.image = rest[1] /\ page.lines = lines
  BY <1>1 DEF OcrPages
<1> HIDE DEF page
<1>3. /\ longer \in Seq(OcrPages) /\ Len(longer) = Len(read) + 1
      /\ \A k \in 1..Len(read) : longer[k] = read[k]
      /\ longer[Len(read) + 1] = page
  BY <1>2
<1>4. /\ Tail(rest) \in Seq(Images) /\ Len(Tail(rest)) = Len(rest) - 1
      /\ \A k \in 1..Len(Tail(rest)) : Tail(rest)[k] = rest[k + 1]
  OBVIOUS
<1> HIDE DEF longer
<1>5. Placed(longer, Tail(rest), order)
  <2>1. ASSUME NEW k \in 1..Len(longer) PROVE longer[k].image = order[k] /\ longer[k].number = k
    <3>1. CASE k \in 1..Len(read)
      BY <1>3, <3>1 DEF Placed
    <3>2. CASE k = Len(read) + 1
      BY <1>2, <1>3, <3>2 DEF Placed
    <3> QED
      BY <1>3, <3>1, <3>2
  <2>2. ASSUME NEW k \in 1..Len(Tail(rest)) PROVE Tail(rest)[k] = order[Len(longer) + k]
    <3>1. k + 1 \in 1..Len(rest)
      BY <1>4
    <3>2. rest[k + 1] = order[Len(read) + (k + 1)]
      BY <3>1 DEF Placed
    <3> QED
      BY <1>3, <1>4, <3>2
  <2> QED
    BY <1>3, <1>4, <2>1, <2>2 DEF Placed
<1> QED
  BY <1>2, <1>3, <1>4, <1>5 DEF longer, page

-----------------------------------------------------------------------------
(* The invariant: where a read can be, with what it then has.              *)

Carries(read, outputs) ==
    /\ Len(read) = Len(outputs)
    /\ \A k \in 1..Len(read) : read[k].lines = _parse_tsv(outputs[k])

Cleared(w, q, p, t) == w = None /\ q = None /\ p = <<>> /\ t = 0

\* The values of file, got, work, queue, pages, waited, spent and printed for one reader.
NoRead(f, g, w, q, p, t, s, d) ==
    f = None /\ g = None /\ Cleared(w, q, p, t) /\ s = 0 /\ d = <<>>
BeingRendered(f, g, w, q, p, t, s, d) ==
    f \in Files /\ g = None /\ w = {} /\ q = None /\ p = <<>> /\ s = t /\ d = <<>>
BeingRead(f, g, w, q, p, t, s, d) ==
    /\ f \in Files /\ g = None
    /\ w \in SUBSET ImagesOf(f)
    /\ q \in Seq(Images) /\ Len(q) > 0 /\ p \in Seq(OcrPages)
    /\ Placed(p, q, InOrder(w)) /\ Carries(p, d)
    /\ s <= TIMEOUT_SECONDS * (1 + Len(p)) + t
Ending(f, s) == f \in Files /\ s <= TIMEOUT_SECONDS * (1 + PagesOf[f])
ReadFailed(f, g, w, q, p, t, s, d) ==
    g = Failed /\ Cleared(w, q, p, t) /\ Ending(f, s)
ReadDone(f, g, w, q, p, t, s, d) ==
    /\ g \in Seq(OcrPages) /\ Len(g) > 0
    /\ Cleared(w, q, p, t) /\ Ending(f, s) /\ Carries(g, d)
    /\ AsReading(g) \in [of : Files, take : PageLists]

InOneOfThem(f, g, w, q, p, t, s, d) ==
    /\ t \in 0..TIMEOUT_SECONDS /\ s \in Nat /\ d \in Seq(Outputs)
    /\ \/ NoRead(f, g, w, q, p, t, s, d)
       \/ BeingRendered(f, g, w, q, p, t, s, d)
       \/ BeingRead(f, g, w, q, p, t, s, d)
       \/ ReadFailed(f, g, w, q, p, t, s, d)
       \/ ReadDone(f, g, w, q, p, t, s, d)

OfReaders(f) == f = [r \in Readers |-> f[r]]

IInv ==
    /\ OfReaders(file) /\ OfReaders(got) /\ OfReaders(work) /\ OfReaders(queue)
    /\ OfReaders(pages) /\ OfReaders(waited) /\ OfReaders(spent) /\ OfReaders(printed)
    /\ produced \subseteq [of : Files, take : PageLists]
    /\ \A r \in Readers :
          InOneOfThem(file[r], got[r], work[r], queue[r], pages[r], waited[r], spent[r], printed[r])

\* A limit on every page is a limit on the whole.
LEMMA OneMoreLimit ==
    ASSUME NEW k \in Nat, NEW m \in Nat, k < m, NEW s \in Nat, NEW t \in 0..TIMEOUT_SECONDS,
           s <= TIMEOUT_SECONDS * (1 + k) + t
    PROVE  /\ s <= TIMEOUT_SECONDS * (1 + (k + 1)) + 0
           /\ s <= TIMEOUT_SECONDS * (1 + m)
<1> DEFINE T == TIMEOUT_SECONDS
<1>1. T \in Nat /\ t \in Nat /\ t <= T
  BY TesseractAssumption
<1> HIDE DEF T
<1>2. T * (1 + k) \in Nat /\ T * (1 + (k + 1)) = T * (1 + k) + T
  BY <1>1, Z3
<1>3. T * (1 + m) \in Nat /\ T * (1 + (k + 1)) <= T * (1 + m)
  BY <1>1, Z3
<1>4. s <= T * (1 + k) + t
  BY DEF T
<1>5. s <= T * (1 + (k + 1)) + 0 /\ s <= T * (1 + m)
  BY <1>1, <1>2, <1>3, <1>4
<1> QED
  BY <1>5 DEF T

\* One wait is within the limits of any number of pages.
LEMMA OneLimit ==
    ASSUME NEW m \in Nat, NEW t \in 0..TIMEOUT_SECONDS
    PROVE  t <= TIMEOUT_SECONDS * (1 + m) /\ t <= TIMEOUT_SECONDS * (1 + 0) + 0
<1> DEFINE T == TIMEOUT_SECONDS
<1>1. T \in Nat /\ t \in Nat /\ t <= T
  BY TesseractAssumption
<1> HIDE DEF T
<1>2. T * (1 + m) \in Nat /\ T <= T * (1 + m) /\ T * (1 + 0) = T
  BY <1>1, Z3
<1>3. t <= T * (1 + m) /\ t <= T * (1 + 0) + 0
  BY <1>1, <1>2
<1> QED
  BY <1>3 DEF T

\* A read that is in progress has taken no longer than its file may.
LEMMA InTime ==
    ASSUME NEW f, NEW g, NEW w, NEW q, NEW p, NEW t, NEW s, NEW d,
           InOneOfThem(f, g, w, q, p, t, s, d), f # None
    PROVE  Ending(f, s)
<1> USE TesseractAssumption
<1>1. CASE BeingRendered(f, g, w, q, p, t, s, d)
  <2>1. f \in Files /\ s = t /\ PagesOf[f] \in Nat /\ t \in 0..TIMEOUT_SECONDS
    BY <1>1 DEF BeingRendered, InOneOfThem
  <2> QED
    BY <2>1, OneLimit DEF Ending
<1>2. CASE BeingRead(f, g, w, q, p, t, s, d)
  <2>1. /\ f \in Files /\ w \in SUBSET ImagesOf(f) /\ p \in Seq(OcrPages) /\ q \in Seq(Images)
        /\ Len(q) > 0 /\ Placed(p, q, InOrder(w)) /\ s <= TIMEOUT_SECONDS * (1 + Len(p)) + t
        /\ PagesOf[f] \in Nat /\ t \in 0..TIMEOUT_SECONDS /\ s \in Nat
    BY <1>2 DEF BeingRead, InOneOfThem
  <2>2. Len(InOrder(w)) \in Nat /\ Len(InOrder(w)) <= PagesOf[f]
    BY <2>1, ImagesAreInOrder
  <2>3. Len(p) \in Nat /\ Len(p) < PagesOf[f]
    BY <2>1, <2>2 DEF Placed
  <2> QED
    BY <2>1, <2>3, OneMoreLimit DEF Ending
<1>3. CASE NoRead(f, g, w, q, p, t, s, d)
  BY <1>3 DEF NoRead
<1>4. CASE ReadFailed(f, g, w, q, p, t, s, d) \/ ReadDone(f, g, w, q, p, t, s, d)
  BY <1>4 DEF ReadFailed, ReadDone
<1> QED
  BY <1>1, <1>2, <1>3, <1>4 DEF InOneOfThem

\* Where a read is can be told from file, got and queue.
LEMMA ReadingMeans ==
    ASSUME NEW f, NEW g, NEW w, NEW q, NEW p, NEW t, NEW s, NEW d,
           InOneOfThem(f, g, w, q, p, t, s, d)
    PROVE  /\ f = None => NoRead(f, g, w, q, p, t, s, d)
           /\ f # None /\ g = None /\ q = None => BeingRendered(f, g, w, q, p, t, s, d)
           /\ f # None /\ g = None /\ q # None => BeingRead(f, g, w, q, p, t, s, d)
           /\ g = Failed => ReadFailed(f, g, w, q, p, t, s, d)
           /\ g # None /\ g # Failed => ReadDone(f, g, w, q, p, t, s, d)
BY TesseractAssumption
   DEF InOneOfThem, NoRead, BeingRendered, BeingRead, ReadFailed, ReadDone, Ending, Cleared

Here(r) ==
    InOneOfThem(file[r], got[r], work[r], queue[r], pages[r], waited[r], spent[r], printed[r])

\* A step of one reader: the others keep what they have.
LEMMA OneReaderMoves ==
    ASSUME IInv, NEW r \in Readers, Here(r)',
           file' = [file EXCEPT ![r] = file'[r]], got' = [got EXCEPT ![r] = got'[r]],
           work' = [work EXCEPT ![r] = work'[r]], queue' = [queue EXCEPT ![r] = queue'[r]],
           pages' = [pages EXCEPT ![r] = pages'[r]], waited' = [waited EXCEPT ![r] = waited'[r]],
           spent' = [spent EXCEPT ![r] = spent'[r]],
           printed' = [printed EXCEPT ![r] = printed'[r]],
           produced' \subseteq [of : Files, take : PageLists]
    PROVE  IInv'
<1>1. /\ OfReaders(file)' /\ OfReaders(got)' /\ OfReaders(work)' /\ OfReaders(queue)'
      /\ OfReaders(pages)' /\ OfReaders(waited)' /\ OfReaders(spent)' /\ OfReaders(printed)'
  BY DEF IInv, OfReaders
<1>2. ASSUME NEW q \in Readers PROVE Here(q)'
  <2>1. CASE q = r
    BY <2>1
  <2>2. CASE q # r
    <3>1. /\ file'[q] = file[q] /\ got'[q] = got[q] /\ work'[q] = work[q] /\ queue'[q] = queue[q]
          /\ pages'[q] = pages[q] /\ waited'[q] = waited[q] /\ spent'[q] = spent[q]
          /\ printed'[q] = printed[q]
      BY <2>2 DEF IInv, OfReaders
    <3>2. Here(q)
      BY DEF IInv, Here
    <3> QED
      BY <3>1, <3>2 DEF Here
  <2> QED
    BY <2>1, <2>2
<1> QED
  BY <1>1, <1>2 DEF IInv, Here

\* What a reader of IInv has.
LEMMA ReaderOfInvariant ==
    ASSUME IInv, NEW r \in Readers
    PROVE  /\ Here(r)
           /\ file = [q \in Readers |-> file[q]] /\ got = [q \in Readers |-> got[q]]
           /\ work = [q \in Readers |-> work[q]] /\ queue = [q \in Readers |-> queue[q]]
           /\ pages = [q \in Readers |-> pages[q]] /\ waited = [q \in Readers |-> waited[q]]
           /\ spent = [q \in Readers |-> spent[q]] /\ printed = [q \in Readers |-> printed[q]]
BY DEF IInv, Here, OfReaders

\* Starting a read keeps the invariant.
LEMMA ReadKeeps ==
    ASSUME IInv, NEW r \in Readers, NEW f \in Files, Read(r, f)
    PROVE  IInv'
<1> USE TesseractAssumption
<1>1. NoRead(file[r], got[r], work[r], queue[r], pages[r], waited[r], spent[r], printed[r])
  BY ReaderOfInvariant, ReadingMeans DEF Here, Read, Idle
<1>2. /\ file'[r] = f /\ got'[r] = got[r] /\ work'[r] = {} /\ queue'[r] = queue[r]
      /\ pages'[r] = pages[r] /\ waited'[r] = waited[r] /\ spent'[r] = spent[r]
      /\ printed'[r] = printed[r]
  BY ReaderOfInvariant DEF Read
<1>3. BeingRendered(f, got[r], {}, queue[r], pages[r], waited[r], spent[r], printed[r])
  BY <1>1 DEF NoRead, BeingRendered, Cleared
<1>4. Here(r)'
  BY <1>2, <1>3, ReaderOfInvariant DEF Here, InOneOfThem
<1>5. produced' \subseteq [of : Files, take : PageLists]
  BY DEF IInv, Read
<1> QED
  BY <1>4, <1>5, ReaderOfInvariant, OneReaderMoves DEF Read

\* So does pdftoppm ending.
LEMMA RenderedKeeps ==
    ASSUME IInv, NEW r \in Readers, NEW images \in SUBSET ImagesOf(file[r]), Rendered(r, images)
    PROVE  IInv'
<1> USE TesseractAssumption
<1>1. BeingRendered(file[r], got[r], work[r], queue[r], pages[r], waited[r], spent[r], printed[r])
  BY ReaderOfInvariant, ReadingMeans DEF Here, Rendered, Reading
<1>2. /\ file'[r] = file[r] /\ got'[r] = got[r] /\ work'[r] = images
      /\ queue'[r] = InOrder(images) /\ pages'[r] = pages[r] /\ waited'[r] = 0
      /\ spent'[r] = spent[r] /\ printed'[r] = printed[r]
  BY ReaderOfInvariant DEF Rendered
<1> DEFINE order == InOrder(images)
<1>3. order \in Seq(Images) /\ Len(order) > 0
  BY <1>1, ImagesAreInOrder DEF BeingRendered, Rendered
<1>4. Placed(<<>>, order, order)
  BY <1>3 DEF Placed
<1>5. Carries(<<>>, <<>>)
  BY DEF Carries
<1>6. waited[r] \in 0..TIMEOUT_SECONDS /\ spent[r] = waited[r] /\ printed[r] = <<>> /\ pages[r] = <<>>
  BY <1>1, ReaderOfInvariant DEF BeingRendered, Here, InOneOfThem
<1>7. spent[r] <= TIMEOUT_SECONDS * (1 + Len(pages[r])) + 0
  <2>1. Len(pages[r]) = 0
    BY <1>6
  <2> QED
    BY <1>6, <2>1, OneLimit
<1>8. BeingRead(file[r], got[r], images, order, pages[r], 0, spent[r], printed[r])
  BY <1>1, <1>3, <1>4, <1>5, <1>6, <1>7 DEF BeingRead, BeingRendered
<1>9. Here(r)'
  BY <1>2, <1>8, ReaderOfInvariant DEF Here, InOneOfThem
<1>10. produced' \subseteq [of : Files, take : PageLists]
  BY DEF IInv, Rendered
<1> QED
  BY <1>9, <1>10, ReaderOfInvariant, OneReaderMoves DEF Rendered

\* The page is the next of the document.
LEMMA PageReadIsNext ==
    ASSUME IInv, NEW r \in Readers, NEW rows \in Outputs, Reading(r), queue[r] # None
    PROVE  LET page == [number |-> Len(pages[r]) + 1, image |-> Head(queue[r]),
                        lines |-> _parse_tsv(rows)]
               longer == Append(pages[r], page)
               more == Append(printed[r], rows)
           IN  /\ BeingRead(file[r], got[r], work[r], queue[r], pages[r], waited[r], spent[r],
                            printed[r])
               /\ longer \in Seq(OcrPages) /\ Len(longer) = Len(pages[r]) + 1
               /\ Tail(queue[r]) \in Seq(Images) /\ Len(Tail(queue[r])) = Len(queue[r]) - 1
               /\ Placed(longer, Tail(queue[r]), InOrder(work[r]))
               /\ more \in Seq(Outputs) /\ Carries(longer, more)
<1> DEFINE parsed == _parse_tsv(rows)
           page == [number |-> Len(pages[r]) + 1, image |-> Head(queue[r]), lines |-> parsed]
           longer == Append(pages[r], page)
           more == Append(printed[r], rows)
           order == InOrder(work[r])
           p == pages[r]
           q == queue[r]
           d == printed[r]
<1>1. BeingRead(file[r], got[r], work[r], q, p, waited[r], spent[r], d)
  BY ReaderOfInvariant, ReadingMeans DEF Here, Reading
<1>2. /\ p \in Seq(OcrPages) /\ q \in Seq(Images) /\ Len(q) > 0 /\ Placed(p, q, order)
      /\ Carries(p, d) /\ d \in Seq(Outputs)
  BY <1>1, ReaderOfInvariant DEF BeingRead, Here, InOneOfThem
<1>3. order \in Seq(Images)
  BY <1>1, ImagesAreInOrder DEF BeingRead
<1>4. parsed \in Seq(Lines)
  BY ParsedIsAReading, TesseractAssumption
<1> HIDE DEF parsed
<1>5. /\ longer \in Seq(OcrPages) /\ Len(longer) = Len(p) + 1
      /\ \A k \in 1..Len(p) : longer[k] = p[k]
      /\ longer[Len(p) + 1].lines = parsed
      /\ Tail(q) \in Seq(Images) /\ Len(Tail(q)) = Len(q) - 1
      /\ Placed(longer, Tail(q), order)
  BY <1>2, <1>3, <1>4, OneMorePage
<1> HIDE DEF longer
<1>6. more \in Seq(Outputs) /\ Len(more) = Len(d) + 1 /\ more[Len(d) + 1] = rows
      /\ \A k \in 1..Len(d) : more[k] = d[k]
  BY <1>2
<1> HIDE DEF more, p, q, d, order
<1>7. Carries(longer, more)
  <2>1. Len(p) = Len(d) /\ Len(p) \in Nat
    BY <1>2 DEF Carries
  <2>2. ASSUME NEW k \in 1..Len(longer) PROVE longer[k].lines = _parse_tsv(more[k])
    <3>1. CASE k \in 1..Len(p)
      BY <1>2, <1>5, <1>6, <2>1, <3>1 DEF Carries
    <3>2. CASE k = Len(p) + 1
      BY <1>5, <1>6, <2>1, <3>2 DEF parsed
    <3> QED
      BY <1>5, <2>1, <3>1, <3>2
  <2> QED
    BY <1>5, <1>6, <2>1, <2>2 DEF Carries
<1> QED
  BY <1>1, <1>5, <1>6, <1>7 DEF longer, more, p, q, d, order, parsed

\* The reading of a document: its file, and the numbers of its pages.
LEMMA ReadingOfDocument ==
    ASSUME NEW f \in Files, NEW w \in SUBSET ImagesOf(f), NEW longer \in Seq(OcrPages),
           Len(longer) > 0, Placed(longer, <<>>, InOrder(w))
    PROVE  /\ AsReading(longer).of = f /\ AsReading(longer).take \in PageLists
           /\ AsReading(longer) = [of |-> f, take |-> AsReading(longer).take]
<1> DEFINE order == InOrder(w)
           n == Len(longer)
           take == [k \in DOMAIN longer |-> longer[k].image.page]
<1>1. /\ Len(order) \in Nat /\ Len(order) <= PagesOf[f]
      /\ order \in Bijection(1..Len(order), w)
  BY ImagesAreInOrder
<1>2. Len(order) = n /\ n \in Nat /\ DOMAIN longer = 1..n
      /\ \A k \in 1..n : longer[k].image = order[k]
  BY DEF Placed
<1>3. \A k \in 1..n : order[k] \in w
  BY <1>1, <1>2 DEF Bijection, Injection
<1>4. \A k \in 1..n : longer[k].image.of = f /\ longer[k].image.page \in 1..PagesOf[f]
  BY <1>2, <1>3 DEF ImagesOf
<1>5. take \in [1..n -> 1..PagesOf[f]]
  BY <1>2, <1>4
<1>6. n \in 1..PagesOf[f]
  BY <1>1, <1>2, TesseractAssumption
<1>7. take \in PageLists
  <2> HIDE DEF take, n
  <2> QED
    BY <1>5, <1>6 DEF PageLists
<1>8. AsReading(longer) = [of |-> longer[1].image.of, take |-> take]
  BY DEF AsReading
<1>9. longer[1].image.of = f
  BY <1>4, <1>6
<1> HIDE DEF take
<1> QED
  BY <1>7, <1>8, <1>9

\* So does tesseract ending, whatever it printed.
LEMMA PageReadKeeps ==
    ASSUME IInv, NEW r \in Readers, NEW rows \in Outputs, PageRead(r, rows)
    PROVE  IInv'
<1> USE TesseractAssumption
<1> DEFINE page == [number |-> Len(pages[r]) + 1, image |-> Head(queue[r]),
                    lines |-> _parse_tsv(rows)]
           longer == Append(pages[r], page)
           more == Append(printed[r], rows)
           rest == Tail(queue[r])
<1>1. /\ BeingRead(file[r], got[r], work[r], queue[r], pages[r], waited[r], spent[r], printed[r])
      /\ longer \in Seq(OcrPages) /\ Len(longer) = Len(pages[r]) + 1
      /\ rest \in Seq(Images) /\ Len(rest) = Len(queue[r]) - 1
      /\ Placed(longer, rest, InOrder(work[r]))
      /\ more \in Seq(Outputs) /\ Carries(longer, more)
  BY PageReadIsNext DEF PageRead
<1>2. \/ /\ Len(queue[r]) > 1
         /\ pages' = [pages EXCEPT ![r] = longer] /\ queue' = [queue EXCEPT ![r] = rest]
         /\ waited' = [waited EXCEPT ![r] = 0] /\ got' = got /\ work' = work
         /\ produced' = produced
      \/ /\ Len(queue[r]) = 1 /\ Ended(r, longer) /\ produced' = produced \cup {AsReading(longer)}
  BY DEF PageRead
<1>3. printed' = [printed EXCEPT ![r] = more] /\ UNCHANGED <<file, spent>>
  BY DEF PageRead
<1> HIDE DEF longer, more, rest
<1>4. /\ file[r] \in Files /\ got[r] = None /\ work[r] \in SUBSET ImagesOf(file[r])
      /\ Len(pages[r]) \in Nat /\ Len(queue[r]) \in Nat
      /\ Placed(pages[r], queue[r], InOrder(work[r]))
      /\ waited[r] \in 0..TIMEOUT_SECONDS /\ spent[r] \in Nat
      /\ spent[r] <= TIMEOUT_SECONDS * (1 + Len(pages[r])) + waited[r]
      /\ PagesOf[file[r]] \in Nat
  BY <1>1, ReaderOfInvariant DEF BeingRead, Here, InOneOfThem
<1>5. 0 \in 0..TIMEOUT_SECONDS
  OBVIOUS
<1>6. CASE Len(queue[r]) > 1
  <2>1. /\ pages' = [pages EXCEPT ![r] = longer] /\ queue' = [queue EXCEPT ![r] = rest]
        /\ waited' = [waited EXCEPT ![r] = 0] /\ got' = got /\ work' = work
        /\ produced' = produced
    <3>1. \A n \in Nat : n > 1 => n # 1
      OBVIOUS
    <3>2. Len(queue[r]) # 1
      BY <1>4, <1>6, <3>1, Zenon
    <3> QED
      BY <1>2, <3>2, Zenon
  <2>2. /\ file'[r] = file[r] /\ got'[r] = got[r] /\ work'[r] = work[r]
        /\ queue'[r] = rest /\ pages'[r] = longer /\ waited'[r] = 0
        /\ spent'[r] = spent[r] /\ printed'[r] = more
    BY <1>3, <2>1, ReaderOfInvariant
  <2>3. spent[r] <= TIMEOUT_SECONDS * (1 + Len(longer)) + 0
    BY <1>1, <1>4, OneMoreLimit
  <2>4. BeingRead(file[r], got[r], work[r], rest, longer, 0, spent[r], more)
    BY <1>1, <1>4, <1>6, <2>3 DEF BeingRead
  <2>5. InOneOfThem(file[r], got[r], work[r], rest, longer, 0, spent[r], more)
    BY <1>1, <1>4, <1>5, <2>4 DEF InOneOfThem
  <2>6. Here(r)'
    BY <2>5, <2>2 DEF Here
  <2>7. produced' \subseteq [of : Files, take : PageLists]
    BY <2>1 DEF IInv
  <2>8. /\ file' = [file EXCEPT ![r] = file'[r]] /\ got' = [got EXCEPT ![r] = got'[r]]
        /\ work' = [work EXCEPT ![r] = work'[r]] /\ queue' = [queue EXCEPT ![r] = queue'[r]]
        /\ pages' = [pages EXCEPT ![r] = pages'[r]]
        /\ waited' = [waited EXCEPT ![r] = waited'[r]]
        /\ spent' = [spent EXCEPT ![r] = spent'[r]]
        /\ printed' = [printed EXCEPT ![r] = printed'[r]]
    BY <1>3, <2>1, ReaderOfInvariant
  <2> QED
    BY <2>6, <2>7, <2>8, OneReaderMoves
<1>7. CASE Len(queue[r]) = 1
  <2>1. /\ file'[r] = file[r] /\ got'[r] = longer /\ work'[r] = None
        /\ queue'[r] = None /\ pages'[r] = <<>> /\ waited'[r] = 0
        /\ spent'[r] = spent[r] /\ printed'[r] = more
    BY <1>2, <1>3, <1>7, ReaderOfInvariant DEF Ended
  <2>2. Ending(file[r], spent[r])
    BY <1>4, InTime, ReaderOfInvariant DEF Here
  <2>3. rest = <<>>
    BY ONLY <1>1, <1>4, <1>7
  <2>4. AsReading(longer) \in [of : Files, take : PageLists]
    <3>1. Placed(longer, <<>>, InOrder(work[r])) /\ Len(longer) > 0
      BY <1>1, <1>4, <2>3
    <3>2. /\ AsReading(longer) = [of |-> file[r], take |-> AsReading(longer).take]
          /\ AsReading(longer).take \in PageLists
      BY <1>1, <1>4, <3>1, ReadingOfDocument
    <3> QED
      BY <1>4, <3>2
  <2>5. ReadDone(file[r], longer, None, None, <<>>, 0, spent[r], more)
    BY <1>1, <1>4, <2>2, <2>4 DEF ReadDone, Cleared
  <2>6. InOneOfThem(file[r], longer, None, None, <<>>, 0, spent[r], more)
    BY <1>1, <1>4, <1>5, <2>5 DEF InOneOfThem
  <2>7. Here(r)'
    BY <2>1, <2>6 DEF Here
  <2>8. produced' \subseteq [of : Files, take : PageLists]
    BY <1>2, <1>7, <2>4 DEF IInv
  <2>9. /\ file' = [file EXCEPT ![r] = file'[r]] /\ got' = [got EXCEPT ![r] = got'[r]]
        /\ work' = [work EXCEPT ![r] = work'[r]] /\ queue' = [queue EXCEPT ![r] = queue'[r]]
        /\ pages' = [pages EXCEPT ![r] = pages'[r]]
        /\ waited' = [waited EXCEPT ![r] = waited'[r]]
        /\ spent' = [spent EXCEPT ![r] = spent'[r]]
        /\ printed' = [printed EXCEPT ![r] = printed'[r]]
    BY <1>2, <1>3, <1>7, ReaderOfInvariant DEF Ended
  <2> QED
    BY <2>7, <2>8, <2>9, OneReaderMoves
<1> QED
  BY <1>2, <1>6, <1>7

\* A read ends with an error, in whatever it was doing.
LEMMA FailureKeeps ==
    ASSUME IInv, NEW r \in Readers, Reading(r), Ended(r, Failed),
           UNCHANGED <<file, produced, spent, printed>>
    PROVE  IInv'
<1> USE TesseractAssumption
<1>1. /\ file'[r] = file[r] /\ got'[r] = Failed /\ work'[r] = None /\ queue'[r] = None
      /\ pages'[r] = <<>> /\ waited'[r] = 0 /\ spent'[r] = spent[r] /\ printed'[r] = printed[r]
  BY ReaderOfInvariant DEF Ended
<1>2. Ending(file[r], spent[r])
  BY InTime, ReaderOfInvariant DEF Here, Reading
<1>3. ReadFailed(file[r], Failed, None, None, <<>>, 0, spent[r], printed[r])
  BY <1>2 DEF ReadFailed, Cleared
<1>4. Here(r)'
  BY <1>1, <1>3, ReaderOfInvariant DEF Here, InOneOfThem
<1>5. produced' \subseteq [of : Files, take : PageLists]
  BY DEF IInv
<1> QED
  BY <1>4, <1>5, ReaderOfInvariant, OneReaderMoves DEF Ended

\* So does handing the reading on.
LEMMA LeaveKeeps ==
    ASSUME IInv, NEW r \in Readers, Leave(r)
    PROVE  IInv'
<1> USE TesseractAssumption
<1>1. /\ file'[r] = None /\ got'[r] = None /\ work'[r] = work[r] /\ queue'[r] = queue[r]
      /\ pages'[r] = pages[r] /\ waited'[r] = waited[r] /\ spent'[r] = 0 /\ printed'[r] = <<>>
  BY ReaderOfInvariant DEF Leave
<1>2. Cleared(work[r], queue[r], pages[r], waited[r])
  <2>1. \/ ReadFailed(file[r], got[r], work[r], queue[r], pages[r], waited[r], spent[r], printed[r])
        \/ ReadDone(file[r], got[r], work[r], queue[r], pages[r], waited[r], spent[r], printed[r])
    BY ReaderOfInvariant, ReadingMeans DEF Here, Leave
  <2> QED
    BY <2>1 DEF ReadFailed, ReadDone
<1>3. NoRead(None, None, work[r], queue[r], pages[r], waited[r], 0, <<>>)
  BY <1>2 DEF NoRead
<1>4. Here(r)'
  BY <1>1, <1>3, ReaderOfInvariant DEF Here, InOneOfThem
<1>5. produced' \subseteq [of : Files, take : PageLists]
  BY DEF IInv, Leave
<1> QED
  BY <1>4, <1>5, ReaderOfInvariant, OneReaderMoves DEF Leave

\* So does time that passes: no tool waits beyond its limit.
LEMMA TickKeeps ==
    ASSUME IInv, Tick
    PROVE  IInv'
<1> USE TesseractAssumption
<1>1. /\ OfReaders(file)' /\ OfReaders(got)' /\ OfReaders(work)' /\ OfReaders(queue)'
      /\ OfReaders(pages)' /\ OfReaders(waited)' /\ OfReaders(spent)' /\ OfReaders(printed)'
  BY DEF IInv, OfReaders, Tick
<1>2. ASSUME NEW r \in Readers PROVE Here(r)'
  <2>1. /\ file'[r] = file[r] /\ got'[r] = got[r] /\ work'[r] = work[r] /\ queue'[r] = queue[r]
        /\ pages'[r] = pages[r] /\ printed'[r] = printed[r]
        /\ waited'[r] = IF Reading(r) THEN waited[r] + 1 ELSE waited[r]
        /\ spent'[r] = IF Reading(r) THEN spent[r] + 1 ELSE spent[r]
    BY DEF Tick
  <2>2. Here(r)
    BY ReaderOfInvariant
  <2>3. CASE ~Reading(r)
    BY <2>1, <2>2, <2>3 DEF Here
  <2>4. CASE Reading(r)
    <3>1. waited[r] + 1 \in 0..TIMEOUT_SECONDS /\ spent[r] + 1 \in Nat
      BY <2>2, <2>4 DEF Tick, Here, InOneOfThem
    <3>2. CASE queue[r] = None
      <4>1. BeingRendered(file[r], got[r], work[r], queue[r], pages[r], waited[r], spent[r],
                          printed[r])
        BY <2>2, <2>4, <3>2, ReadingMeans DEF Here, Reading
      <4>2. BeingRendered(file[r], got[r], work[r], queue[r], pages[r], waited[r] + 1,
                          spent[r] + 1, printed[r])
        BY <4>1 DEF BeingRendered
      <4> QED
        BY <2>1, <2>2, <2>4, <3>1, <4>2 DEF Here, InOneOfThem
    <3>3. CASE queue[r] # None
      <4>1. BeingRead(file[r], got[r], work[r], queue[r], pages[r], waited[r], spent[r],
                      printed[r])
        BY <2>2, <2>4, <3>3, ReadingMeans DEF Here, Reading
      <4> DEFINE limit == TIMEOUT_SECONDS * (1 + Len(pages[r]))
      <4>2. limit \in Nat
        <5>1. Len(pages[r]) \in Nat
          BY <4>1 DEF BeingRead
        <5> QED
          BY <5>1, Z3
      <4>3. spent[r] <= limit + waited[r]
        BY <4>1 DEF BeingRead
      <4> HIDE DEF limit
      <4>4. spent[r] + 1 <= limit + (waited[r] + 1)
        BY <2>2, <4>2, <4>3 DEF Here, InOneOfThem
      <4>5. BeingRead(file[r], got[r], work[r], queue[r], pages[r], waited[r] + 1,
                      spent[r] + 1, printed[r])
        BY <4>1, <4>4 DEF BeingRead, limit
      <4> QED
        BY <2>1, <2>2, <2>4, <3>1, <4>5 DEF Here, InOneOfThem
    <3> QED
      BY <3>2, <3>3
  <2> QED
    BY <2>3, <2>4
<1> QED
  BY <1>1, <1>2 DEF IInv, Here, Tick

\* Before anybody reads it holds.
LEMMA NoReaderAtAll ==
    ASSUME file = [r \in Readers |-> None], got = [r \in Readers |-> None], produced = {},
           work = [r \in Readers |-> None], queue = [r \in Readers |-> None],
           pages = [r \in Readers |-> <<>>], waited = [r \in Readers |-> 0],
           spent = [r \in Readers |-> 0], printed = [r \in Readers |-> <<>>]
    PROVE  IInv
BY TesseractAssumption DEF IInv, OfReaders, InOneOfThem, NoRead, Cleared

\* So it does after a restart.
LEMMA RestartKeeps == Restart => IInv'
BY TesseractAssumption DEF Restart, IInv, OfReaders, InOneOfThem, NoRead, Cleared

\* Every step keeps the invariant.
LEMMA StepKeeps == IInv /\ [Next]_vars => IInv'
<1> SUFFICES ASSUME IInv, [Next]_vars PROVE IInv'
  OBVIOUS
<1>1. CASE \E r \in Readers, f \in Files : Read(r, f)
  BY <1>1, ReadKeeps
<1>2. CASE \E r \in {q \in Readers : Reading(q)} :
              \E images \in SUBSET ImagesOf(file[r]) : Rendered(r, images)
  BY <1>2, RenderedKeeps
<1>3. CASE \E r \in Readers, rows \in Outputs : PageRead(r, rows)
  BY <1>3, PageReadKeeps
<1>4. CASE \E r \in Readers : ToolFails(r)
  BY <1>4, FailureKeeps DEF ToolFails
<1>5. CASE \E r \in Readers : TimesOut(r)
  BY <1>5, FailureKeeps DEF TimesOut
<1>6. CASE \E r \in Readers : Leave(r)
  BY <1>6, LeaveKeeps
<1>7. CASE Tick
  BY <1>7, TickKeeps
<1>8. CASE Restart
  BY <1>8, RestartKeeps
<1>9. CASE UNCHANGED vars
  BY <1>9 DEF vars, IInv, OfReaders
<1> QED
  BY <1>1, <1>2, <1>3, <1>4, <1>5, <1>6, <1>7, <1>8, <1>9 DEF Next

\* In every state each read is at one of its five places: not begun, rendering, reading
\* pages, answered, failed.
THEOREM Invariant == Spec => []IInv
<1>1. Init => IInv
  BY NoReaderAtAll DEF Init
<1> QED
  BY <1>1, StepKeeps, PTL DEF Spec

-----------------------------------------------------------------------------
(* What follows of every read.                                             *)

\* Types: a file, an answer of at least one page or none, images waiting only while they
\* are being read, and no clock past its limit.
THEOREM TypeCorrect == Spec => []TypeOK
<1>1. IInv => TypeOK
  <2> SUFFICES ASSUME IInv PROVE TypeOK
    OBVIOUS
  <2>1. ASSUME NEW r \in Readers
        PROVE  /\ file[r] \in Files \cup {None}
               /\ got[r] \in {None, Failed} \cup (Seq(OcrPages) \ {<<>>})
               /\ work[r] \in {None} \cup SUBSET Images
               /\ queue[r] \in {None} \cup (Seq(Images) \ {<<>>})
               /\ pages[r] \in Seq(OcrPages)
               /\ waited[r] \in 0..TIMEOUT_SECONDS
               /\ spent[r] \in Nat
               /\ printed[r] \in Seq(Outputs)
    <3> USE DEF Cleared, Ending
    <3>1. Here(r)
      BY ReaderOfInvariant
    <3>2. <<>> \in Seq(OcrPages)
      OBVIOUS
    <3>3. CASE BeingRead(file[r], got[r], work[r], queue[r], pages[r], waited[r], spent[r],
                         printed[r])
      <4>1. work[r] \in SUBSET Images
        BY <3>3, TesseractAssumption DEF BeingRead, Images, ImagesOf
      <4> QED
        BY <3>1, <3>3, <4>1 DEF BeingRead, Here, InOneOfThem
    <3>4. CASE ReadDone(file[r], got[r], work[r], queue[r], pages[r], waited[r], spent[r],
                        printed[r])
      BY <3>1, <3>2, <3>4 DEF ReadDone, Here, InOneOfThem
    <3> QED
      BY <3>1, <3>2, <3>3, <3>4 DEF Here, InOneOfThem, NoRead, BeingRendered, ReadFailed
  <2>2. produced \subseteq [of : Files, take : PageLists]
    BY DEF IInv
  <2> QED
    BY <2>1, <2>2, ReaderOfInvariant DEF TypeOK, IInv, OfReaders
<1> QED
  BY <1>1, Invariant, PTL

\* TemporaryDirectory(): no way out of read() leaves the directory behind, and no read is
\* without one.
THEOREM DirectoriesGo == Spec => []DirectoryOnlyWhileReading
<1>1. IInv => DirectoryOnlyWhileReading
  <2> SUFFICES ASSUME IInv, NEW r \in Readers PROVE work[r] # None <=> Reading(r)
    BY DEF DirectoryOnlyWhileReading
  <2>1. Here(r)
    BY ReaderOfInvariant
  <2>2. file[r] \in Files => {} # None /\ \A images \in SUBSET ImagesOf(file[r]) : images # None
    BY TesseractAssumption
  <2>3. \A g \in Seq(OcrPages) : g # None
    BY TesseractAssumption
  <2> QED
    BY <2>1, <2>2, <2>3, TesseractAssumption
       DEF Here, InOneOfThem, NoRead, BeingRendered, BeingRead, ReadFailed, ReadDone, Cleared,
           Ending, Reading
<1> QED
  BY <1>1, Invariant, PTL

\* TIMEOUT_SECONDS is a limit for each tool; for the read it is one limit for pdftoppm and
\* one for every page, whatever the tools do.
THEOREM ReadsAreBounded == Spec => []ReadIsBounded
<1>1. IInv => ReadIsBounded
  BY ReaderOfInvariant, InTime DEF ReadIsBounded, Here, Ending
<1> QED
  BY <1>1, Invariant, PTL

\* _parse_tsv() and _join(): on every page that was read the lines have the words that were
\* printed for its image, each as often, none with those of another line.
THEOREM LinesDoKeepTheWords == Spec => []LinesKeepTheWords
<1>1. IInv => LinesKeepTheWords
  <2> SUFFICES ASSUME IInv, NEW r \in Readers, NEW k \in DOMAIN ReadSoFar(r)
               PROVE  IsReadingOf(ReadSoFar(r)[k].lines, printed[r][k])
    BY DEF LinesKeepTheWords
  <2>1. Here(r)
    BY ReaderOfInvariant
  <2> DEFINE p == ReadSoFar(r)
             d == printed[r]
  <2>2. p = <<>> \/ (p \in Seq(OcrPages) /\ Carries(p, d))
    <3>1. CASE BeingRead(file[r], got[r], work[r], queue[r], pages[r], waited[r], spent[r], d)
      BY <3>1 DEF BeingRead, ReadSoFar
    <3>2. CASE ReadDone(file[r], got[r], work[r], queue[r], pages[r], waited[r], spent[r], d)
      BY <3>2, TesseractAssumption DEF ReadDone, ReadSoFar
    <3> QED
      BY <2>1, <3>1, <3>2
         DEF Here, InOneOfThem, NoRead, BeingRendered, ReadFailed, Cleared, ReadSoFar
  <2>3. d \in Seq(Outputs)
    BY <2>1 DEF Here, InOneOfThem
  <2> HIDE DEF p, d
  <2>4. k \in DOMAIN p
    BY DEF p
  <2>5. p[k].lines = _parse_tsv(d[k]) /\ d[k] \in Outputs
    BY <2>2, <2>3, <2>4 DEF Carries
  <2>6. IsReadingOf(_parse_tsv(d[k]), d[k])
    BY <2>5, ParsedIsAReading, TesseractAssumption
  <2> QED
    BY <2>5, <2>6 DEF p, d
<1> QED
  BY <1>1, Invariant, PTL

\* The last page: what it completes.
LEMMA LastPage ==
    ASSUME IInv, NEW r \in Readers, NEW rows \in Outputs, PageRead(r, rows), got'[r] # None
    PROVE  LET longer == got'[r]
           IN  /\ longer \in Seq(OcrPages) /\ Len(longer) > 0
               /\ file[r] \in Files /\ work[r] \in SUBSET ImagesOf(file[r])
               /\ Placed(longer, <<>>, InOrder(work[r]))
               /\ got' = [got EXCEPT ![r] = longer]
               /\ produced' = produced \cup {AsReading(longer)}
<1> DEFINE page == [number |-> Len(pages[r]) + 1, image |-> Head(queue[r]),
                    lines |-> _parse_tsv(rows)]
           longer == Append(pages[r], page)
           rest == Tail(queue[r])
<1>1. /\ BeingRead(file[r], got[r], work[r], queue[r], pages[r], waited[r], spent[r], printed[r])
      /\ longer \in Seq(OcrPages) /\ Len(longer) = Len(pages[r]) + 1
      /\ rest \in Seq(Images) /\ Len(rest) = Len(queue[r]) - 1
      /\ Placed(longer, rest, InOrder(work[r]))
  BY PageReadIsNext DEF PageRead
<1>2. \/ got' = got
      \/ Len(queue[r]) = 1 /\ Ended(r, longer) /\ produced' = produced \cup {AsReading(longer)}
  BY DEF PageRead
<1> HIDE DEF longer, rest
<1>3. got[r] = None /\ Len(pages[r]) \in Nat
  BY <1>1 DEF BeingRead
<1>4. Len(queue[r]) = 1 /\ Ended(r, longer) /\ produced' = produced \cup {AsReading(longer)}
  BY <1>2, <1>3
<1>5. got' = [got EXCEPT ![r] = longer] /\ got'[r] = longer
  BY <1>4, ReaderOfInvariant DEF Ended
<1>6. rest = <<>>
  <2>1. Len(rest) = 0
    BY <1>1, <1>4
  <2> QED
    BY <1>1, <2>1
<1>7. Len(longer) > 0
  BY <1>1, <1>3
<1> QED
  BY <1>1, <1>4, <1>5, <1>6, <1>7 DEF BeingRead

\* Every answer of read() is the whole of what pdftoppm left of the file, in its order and
\* numbered so.
THEOREM DocumentsAreWhole == Spec => WholeDocument
<1>1. IInv /\ [Next]_vars => [AnswerIsTheDocument]_vars
  <2> SUFFICES ASSUME IInv, Next, NEW r \in Readers, got[r] = None, got'[r] \notin {None, Failed}
               PROVE  /\ {got'[r][k].image : k \in DOMAIN got'[r]} = work[r]
                      /\ \A k \in DOMAIN got'[r] :
                            got'[r][k].number = k /\ got'[r][k].image.of = file[r]
                      /\ \A i, j \in DOMAIN got'[r] :
                            i < j => got'[r][i].image.page < got'[r][j].image.page
    BY DEF AnswerIsTheDocument
  <2>1. \E rows \in Outputs : PageRead(r, rows)
    <3>1. ASSUME NEW q \in Readers, q # r, NEW answer, Ended(q, answer) PROVE FALSE
      BY <3>1, ReaderOfInvariant DEF Ended
    <3>2. ASSUME Ended(r, Failed) PROVE FALSE
      BY <3>2, ReaderOfInvariant DEF Ended
    <3>3. ASSUME got' = got PROVE FALSE
      BY <3>3
    <3>4. ASSUME NEW q \in Readers, got' = [got EXCEPT ![q] = None] PROVE FALSE
      BY <3>4, ReaderOfInvariant
    <3>5. ASSUME got' = [q \in Readers |-> None] PROVE FALSE
      BY <3>5
    <3>6. PICK q \in Readers : \E rows \in Outputs : PageRead(q, rows)
      BY <3>1, <3>2, <3>3, <3>4, <3>5
         DEF Next, Read, Rendered, ToolFails, TimesOut, Leave, Tick, Restart
    <3>7. q = r
      BY <3>1, <3>3, <3>6 DEF PageRead
    <3> QED
      BY <3>6, <3>7
  <2> DEFINE longer == got'[r]
             n == Len(longer)
             order == InOrder(work[r])
  <2>2. /\ longer \in Seq(OcrPages) /\ Len(longer) > 0
        /\ file[r] \in Files /\ work[r] \in SUBSET ImagesOf(file[r])
        /\ Placed(longer, <<>>, order)
    BY <2>1, LastPage
  <2>3. /\ order \in Bijection(1..Len(order), work[r])
        /\ \A k, l \in 1..Len(order) : k < l => order[k].page < order[l].page
    BY <2>2, ImagesAreInOrder
  <2> HIDE DEF longer, order
  <2>4. /\ Len(order) = n /\ DOMAIN longer = 1..n
        /\ \A k \in 1..n : longer[k].image = order[k] /\ longer[k].number = k
    BY <2>2 DEF Placed
  <2>5. /\ \A k \in 1..n : order[k] \in work[r]
        /\ \A i \in work[r] : \E k \in 1..n : order[k] = i
    BY <2>3, <2>4 DEF Bijection, Injection, Surjection
  <2>6. \A k \in 1..n : order[k].of = file[r]
    BY <2>2, <2>5 DEF ImagesOf
  <2>7. {longer[k].image : k \in DOMAIN longer} = work[r]
    <3>1. {longer[k].image : k \in DOMAIN longer} = {order[k] : k \in 1..n}
      BY <2>4
    <3>2. {order[k] : k \in 1..n} = work[r]
      BY <2>5
    <3> QED
      BY <3>1, <3>2
  <2> QED
    BY <2>3, <2>4, <2>6, <2>7 DEF longer
<1> QED
  BY <1>1, Invariant, PTL DEF Spec, WholeDocument

-----------------------------------------------------------------------------
(* To its callers: an OCR engine.                                          *)

\* What the caller sees of an answer.
Seen == [r \in Readers |-> IF got[r] \in {None, Failed} THEN got[r] ELSE AsReading(got[r])]

\* What the engine shows of the reads, by cases.
LEMMA SeenIsWhatIsMapped ==
    /\ Seen = [r \in Readers |-> IF got[r] \in {None, Failed} THEN got[r] ELSE AsReading(got[r])]
    /\ Seen' = [r \in Readers |-> IF got'[r] \in {None, Failed} THEN got'[r]
                                 ELSE AsReading(got'[r])]
BY DEF Seen, AsReading

\* A sequence of pages is not taken for nothing.
LEMMA AnswersAreReadings ==
    ASSUME IInv, NEW r \in Readers, got[r] \notin {None, Failed}
    PROVE  AsReading(got[r]) # None
<1>1. ReadDone(file[r], got[r], work[r], queue[r], pages[r], waited[r], spent[r], printed[r])
  BY ReaderOfInvariant, ReadingMeans DEF Here
<1> QED
  BY <1>1, TesseractAssumption DEF ReadDone

\* To the cache, TesseractEngine does what an OCR engine may do: its reads are answered once,
\* with a reading of the very file, or fail.
THEOREM EngineIsImplemented == Spec => ImplementsEngine
<1> USE TesseractAssumption
<1>1. Init => Engine!Init
  BY DEF Init, Engine!Init
<1>2. ASSUME IInv, IInv', [Next]_vars PROVE [Engine!Next]_(Engine!vars)
  <2>1. ASSUME NEW r \in Readers, NEW f \in Files, Read(r, f) PROVE Engine!Next
    <3>1. Engine!Ask(r, f)
      BY <2>1, SeenIsWhatIsMapped DEF Read, Idle, Engine!Ask, Engine!Idle
    <3> QED
      BY <3>1 DEF Engine!Next
  <2>2. ASSUME UNCHANGED <<file, got, produced>> PROVE UNCHANGED Engine!vars
    BY <2>2, SeenIsWhatIsMapped DEF Engine!vars
  <2>3. ASSUME NEW r \in Readers, NEW rows \in Outputs, PageRead(r, rows), got'[r] # None
        PROVE  Engine!Next
    <3> DEFINE longer == got'[r]
               take == AsReading(longer).take
    <3>1. /\ longer \in Seq(OcrPages) /\ Len(longer) > 0
          /\ file[r] \in Files /\ work[r] \in SUBSET ImagesOf(file[r])
          /\ Placed(longer, <<>>, InOrder(work[r]))
          /\ got' = [got EXCEPT ![r] = longer]
          /\ produced' = produced \cup {AsReading(longer)}
      BY <1>2, <2>3, LastPage
    <3>2. /\ take \in PageLists
          /\ AsReading(longer) = [of |-> file[r], take |-> take]
      BY <3>1, ReadingOfDocument
    <3>3. longer \notin {None, Failed}
      BY <3>1
    <3>4. Seen' = [Seen EXCEPT ![r] = AsReading(longer)]
      BY <1>2, <3>1, <3>3, SeenIsWhatIsMapped, ReaderOfInvariant
    <3> HIDE DEF longer, take
    <3>5. PICK t \in PageLists : t = take
      BY <3>2
    <3>6. Engine!Answer(r, t)
      BY <2>3, <3>1, <3>2, <3>4, <3>5, SeenIsWhatIsMapped
         DEF PageRead, Reading, Engine!Answer, Engine!Reading
    <3> QED
      BY <3>6 DEF Engine!Next
  <2>4. ASSUME NEW r \in Readers, Reading(r), Ended(r, Failed), UNCHANGED <<file, produced>>
        PROVE  Engine!Next
    <3>1. Seen' = [Seen EXCEPT ![r] = Failed]
      BY <1>2, <2>4, SeenIsWhatIsMapped, ReaderOfInvariant DEF Ended
    <3>2. Engine!Fail(r)
      BY <2>4, <3>1, SeenIsWhatIsMapped DEF Reading, Engine!Fail, Engine!Reading
    <3> QED
      BY <3>2 DEF Engine!Next
  <2>5. ASSUME NEW r \in Readers, Leave(r) PROVE Engine!Next
    <3>1. Seen' = [Seen EXCEPT ![r] = None]
      BY <1>2, <2>5, SeenIsWhatIsMapped, ReaderOfInvariant DEF Leave
    <3>2. Seen[r] # None
      BY <2>5, <1>2, SeenIsWhatIsMapped, AnswersAreReadings DEF Leave
    <3>3. Engine!Leave(r)
      BY <2>5, <3>1, <3>2, SeenIsWhatIsMapped DEF Leave, Engine!Leave
    <3> QED
      BY <3>3 DEF Engine!Next
  <2>6. ASSUME Restart PROVE Engine!Next
    <3>1. Engine!Restart
      BY <2>6, SeenIsWhatIsMapped DEF Restart, Engine!Restart
    <3> QED
      BY <3>1 DEF Engine!Next
  <2>7. CASE \E r \in Readers, f \in Files : Read(r, f)
    BY <2>1, <2>7
  <2>8. CASE \E r \in {q \in Readers : Reading(q)} :
                \E images \in SUBSET ImagesOf(file[r]) : Rendered(r, images)
    BY <2>2, <2>8 DEF Rendered
  <2>9. CASE \E r \in Readers, rows \in Outputs : PageRead(r, rows)
    <3>1. PICK r \in Readers, rows \in Outputs : PageRead(r, rows)
      BY <2>9
    <3>2. CASE got'[r] # None
      BY <2>3, <3>1, <3>2
    <3>3. CASE got'[r] = None
      <4>1. ~Ended(r, Append(pages[r], [number |-> Len(pages[r]) + 1, image |-> Head(queue[r]),
                                        lines |-> _parse_tsv(rows)]))
        <5>1. Append(pages[r], [number |-> Len(pages[r]) + 1, image |-> Head(queue[r]),
                                lines |-> _parse_tsv(rows)]) \in Seq(OcrPages)
          BY <3>1, PageReadIsNext, <1>2 DEF PageRead
        <5> QED
          BY <3>3, <5>1, <1>2, ReaderOfInvariant DEF Ended
      <4> QED
        BY <2>2, <3>1, <4>1 DEF PageRead
    <3> QED
      BY <3>2, <3>3
  <2>10. CASE \E r \in Readers : ToolFails(r)
    BY <2>4, <2>10 DEF ToolFails
  <2>11. CASE \E r \in Readers : TimesOut(r)
    BY <2>4, <2>11 DEF TimesOut
  <2>12. CASE \E r \in Readers : Leave(r)
    BY <2>5, <2>12
  <2>13. CASE Tick
    BY <2>2, <2>13 DEF Tick
  <2>14. CASE Restart
    BY <2>6, <2>14
  <2>15. CASE UNCHANGED vars
    BY <2>2, <2>15 DEF vars
  <2> QED
    BY <1>2, <2>7, <2>8, <2>9, <2>10, <2>11, <2>12, <2>13, <2>14, <2>15 DEF Next
<1>3. IInv /\ IInv' /\ [Next]_vars => [Engine!Next]_(Engine!vars)
  BY <1>2
<1> QED
  BY <1>1, <1>3, Invariant, PTL DEF Spec, ImplementsEngine, Engine!Spec
=============================================================================
