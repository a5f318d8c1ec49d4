--------------------------- MODULE RunViewsProofs ---------------------------
(***************************************************************************)
(* Theorems about the two views of a run.  The first part is about         *)
(* SectionProgress, for any number of sections, any rows and any number of *)
(* lost connections; the second is about RunViews, which extends it, for   *)
(* any registry in addition.                                               *)
(***************************************************************************)
EXTENDS RunViews, SequenceTheorems, FiniteSetTheorems, NaturalsInduction, TLAPS

-----------------------------------------------------------------------------
(***************************************************************************)
(* The operators of Orders.  The places of a strict order are found by     *)
(* counting: an element that comes later has more before it, so no two     *)
(* have the same place, and as many places as elements are then all taken. *)
(***************************************************************************)

IsOrder(S, before) ==
  /\ \A x \in S : <<x, x>> \notin before
  /\ \A x, y, z \in S : <<x, y>> \in before /\ <<y, z>> \in before => <<x, z>> \in before
  /\ \A x, y \in S : x # y => <<x, y>> \in before \/ <<y, x>> \in before

Place(S, before, x) == Cardinality({y \in S : <<y, x>> \in before}) + 1

LEMMA ArrangedInOrder ==
  ASSUME NEW S, IsFiniteSet(S), NEW before, IsOrder(S, before)
  PROVE  /\ Cardinality(S) \in Nat /\ Arranged(S, before) \in [1..Cardinality(S) -> S]
         /\ \A x \in S : /\ Place(S, before, x) \in 1..Cardinality(S)
                         /\ Arranged(S, before)[Place(S, before, x)] = x
         /\ \A k, l \in 1..Cardinality(S) :
              k < l => <<Arranged(S, before)[k], Arranged(S, before)[l]>> \in before
<1> DEFINE n == Cardinality(S)
           earlier(x) == {y \in S : <<y, x>> \in before}
           place == [x \in S |-> Place(S, before, x)]
           a == Arranged(S, before)
<1>1. n \in Nat /\ IsFiniteSet(1..n) /\ Cardinality(1..n) = n
  <2>1. n \in Nat
    BY FS_CardinalityType
  <2>2. QED
    BY <2>1, FS_Interval
<1>2. ASSUME NEW x \in S
      PROVE  /\ IsFiniteSet(earlier(x)) /\ Cardinality(earlier(x)) \in Nat
             /\ place[x] = Cardinality(earlier(x)) + 1 /\ place[x] \in 1..n
  <2>1. IsFiniteSet(S \ {x}) /\ Cardinality(S \ {x}) = n - 1
    BY FS_RemoveElement
  <2>2. earlier(x) \in SUBSET (S \ {x})
    BY DEF IsOrder
  <2>3. IsFiniteSet(earlier(x)) /\ Cardinality(earlier(x)) <= n - 1
    <3>1. PICK T : T = earlier(x)
      OBVIOUS
    <3>2. T \in SUBSET (S \ {x})
      BY <2>2, <3>1
    <3>3. IsFiniteSet(T) /\ Cardinality(T) <= n - 1
      BY <2>1, <3>2, FS_Subset
    <3>4. QED
      BY <3>1, <3>3
  <2>4. Cardinality(earlier(x)) \in Nat
    BY <2>3, FS_CardinalityType
  <2>5. place[x] = Cardinality(earlier(x)) + 1
    BY DEF Place
  <2>6. QED
    BY <1>1, <2>3, <2>4, <2>5
<1>3. ASSUME NEW x \in S, NEW y \in S, <<x, y>> \in before PROVE place[x] < place[y]
  <2>1. earlier(x) \in SUBSET earlier(y) /\ x \in earlier(y) /\ x \notin earlier(x)
    BY <1>3 DEF IsOrder
  <2>2. /\ Cardinality(earlier(x)) <= Cardinality(earlier(y))
        /\ Cardinality(earlier(x)) # Cardinality(earlier(y))
    BY <1>2, <2>1, FS_Subset
  <2>3. QED
    BY <1>2, <2>2
<1> HIDE DEF n, place, earlier
<1>4. ASSUME NEW x \in S, NEW y \in S, place[x] = place[y] PROVE x = y
  <2>1. place[x] \in Nat /\ place[y] \in Nat
    BY <1>1, <1>2
  <2>2. ~(<<x, y>> \in before) /\ ~(<<y, x>> \in before)
    BY <1>3, <1>4, <2>1
  <2>3. QED
    BY <2>2 DEF IsOrder
<1>5. place \in Injection(S, 1..n)
  <2>1. place \in [S -> 1..n]
    BY <1>2 DEF place
  <2>2. QED
    BY <1>4, <2>1 DEF Injection, IsInjective
<1>6. ASSUME NEW k \in 1..n PROVE \E x \in S : place[x] = k
  <2>1. place \in Surjection(S, 1..n)
    BY <1>1, <1>5, FS_Injection DEF n
  <2>2. QED
    BY <2>1 DEF Surjection
<1>7. a = [k \in 1..n |-> CHOOSE x \in S : place[x] = k]
  <2>1. \A x \in S : place[x] = Cardinality({y \in S : <<y, x>> \in before}) + 1
    BY DEF place, Place
  <2>2. QED
    BY <2>1 DEF Arranged, n
<1>8. \A k \in 1..n : a[k] \in S /\ place[a[k]] = k
  BY <1>6, <1>7
<1>9. a \in [1..n -> S]
  BY <1>7, <1>8
<1>10. \A x \in S : place[x] \in 1..n /\ a[place[x]] = x
  BY <1>2, <1>4, <1>8
<1>11. ASSUME NEW k \in 1..n, NEW l \in 1..n, k < l PROVE <<a[k], a[l]>> \in before
  <2>1. a[k] \in S /\ a[l] \in S /\ place[a[k]] = k /\ place[a[l]] = l
    BY <1>8
  <2>2. a[k] # a[l] /\ ~(<<a[l], a[k]>> \in before)
    BY <1>1, <1>3, <1>11, <2>1
  <2>3. QED
    BY <2>1, <2>2 DEF IsOrder
<1>12. \A x \in S : place[x] = Place(S, before, x)
  BY DEF place
<1>13. QED
  BY <1>1, <1>9, <1>10, <1>11, <1>12 DEF n

\* The order of numbers, as Picked takes it.
Smaller(places) == {pair \in places \X places : pair[1] < pair[2]}
InTurn(places)  == Arranged(places, Smaller(places))

LEMMA SmallerIsOrder ==
  ASSUME NEW places \in SUBSET Int
  PROVE  IsOrder(places, Smaller(places))
BY DEF IsOrder, Smaller

\* Places that are added at the end come last in what is picked.
LEMMA PickedAppend ==
  ASSUME NEW places \in SUBSET Int, IsFiniteSet(places), NEW m \in Int, \A x \in places : x < m
  PROVE  /\ Cardinality(places \cup {m}) = Cardinality(places) + 1
         /\ InTurn(places \cup {m})[Cardinality(places) + 1] = m
         /\ \A k \in 1..Cardinality(places) : InTurn(places \cup {m})[k] = InTurn(places)[k]
<1> DEFINE more == places \cup {m}
           a == Arranged(places, Smaller(places))
           b == Arranged(more, Smaller(more))
           n == Cardinality(places)
<1>1. more \in SUBSET Int /\ IsFiniteSet(more) /\ Cardinality(more) = n + 1 /\ n \in Nat
  <2>1. m \notin places
    OBVIOUS
  <2>2. QED
    BY <2>1, FS_AddElement, FS_CardinalityType
<1>2. IsOrder(places, Smaller(places)) /\ IsOrder(more, Smaller(more))
  BY <1>1, SmallerIsOrder
<1>3. Place(more, Smaller(more), m) = n + 1
  <2>1. {y \in more : <<y, m>> \in Smaller(more)} = places
    <3>1. \A y \in more : <<y, m>> \in Smaller(more) <=> y < m
      BY DEF Smaller
    <3>2. \A y \in more : y < m <=> y \in places
      OBVIOUS
    <3>3. QED
      BY <3>1, <3>2
  <2>2. QED
    BY <2>1 DEF Place
<1>4. ASSUME NEW x \in places PROVE Place(more, Smaller(more), x) = Place(places, Smaller(places), x)
  <2>1. {y \in more : <<y, x>> \in Smaller(more)} = {y \in places : <<y, x>> \in Smaller(places)}
    BY DEF Smaller
  <2>2. QED
    BY <2>1 DEF Place
<1>5. b[n + 1] = m
  <2>1. m \in more
    OBVIOUS
  <2>2. b[Place(more, Smaller(more), m)] = m
    BY <1>1, <1>2, <2>1, ArrangedInOrder
  <2>3. QED
    BY <1>3, <2>2
<1>6. ASSUME NEW k \in 1..n PROVE b[k] = a[k]
  <2>1. PICK x : x = a[k]
    OBVIOUS
  <2>2. x \in places /\ Place(places, Smaller(places), x) = k
    <3>1. a \in [1..n -> places] /\ \A y \in places : /\ Place(places, Smaller(places), y) \in 1..n
                                                      /\ a[Place(places, Smaller(places), y)] = y
          /\ \A i, j \in 1..n : i < j => <<a[i], a[j]>> \in Smaller(places)
      BY <1>2, ArrangedInOrder
    <3>2. x \in places
      BY <2>1, <3>1
    <3>3. PICK l \in 1..n : l = Place(places, Smaller(places), x) /\ a[l] = a[k]
      BY <2>1, <3>1, <3>2
    <3>4. <<x, x>> \notin Smaller(places)
      BY <1>2, <3>2 DEF IsOrder
    <3>5. ~(l < k) /\ ~(k < l)
      BY <2>1, <3>1, <3>3, <3>4
    <3>6. QED
      BY <3>2, <3>3, <3>5
  <2>3. x \in more /\ Place(more, Smaller(more), x) = k
    BY <1>4, <2>2
  <2>4. b[Place(more, Smaller(more), x)] = x
    BY <1>1, <1>2, <2>3, ArrangedInOrder
  <2>5. QED
    BY <2>1, <2>3, <2>4
<1>7. QED
  BY <1>1, <1>5, <1>6 DEF InTurn

\* What Picked returns.
LEMMA PickedOrder ==
  ASSUME NEW list, NEW places \in SUBSET Int, IsFiniteSet(places)
  PROVE  /\ Cardinality(places) \in Nat /\ InTurn(places) \in [1..Cardinality(places) -> places]
         /\ Picked(list, places) = [k \in 1..Cardinality(places) |-> list[InTurn(places)[k]]]
         /\ \A x \in places : \E k \in 1..Cardinality(places) : InTurn(places)[k] = x
         /\ \A k, l \in 1..Cardinality(places) : k < l => InTurn(places)[k] < InTurn(places)[l]
<1> DEFINE a == InTurn(places)
<1>1. /\ Cardinality(places) \in Nat /\ a \in [1..Cardinality(places) -> places]
      /\ \A x \in places : /\ Place(places, Smaller(places), x) \in 1..Cardinality(places)
                           /\ a[Place(places, Smaller(places), x)] = x
      /\ \A k, l \in 1..Cardinality(places) : k < l => <<a[k], a[l]>> \in Smaller(places)
  BY SmallerIsOrder, ArrangedInOrder DEF InTurn
<1> HIDE DEF a
<1>2. Picked(list, places) = [k \in DOMAIN a |-> list[a[k]]]
  BY DEF Picked, Smaller, a, InTurn
<1>3. \A k, l \in 1..Cardinality(places) : k < l => a[k] < a[l]
  BY <1>1 DEF Smaller
<1>4. QED
  BY <1>1, <1>2, <1>3 DEF a

\* The places of a list that Array.filter keeps.
LEMMA FinitePlaces ==
  ASSUME NEW S, NEW list \in Seq(S), NEW places \in SUBSET DOMAIN list
  PROVE  places \in SUBSET Int /\ IsFiniteSet(places) /\ DOMAIN list = 1..Len(list) /\ Len(list) \in Nat
<1>1. DOMAIN list = 1..Len(list) /\ Len(list) \in Nat
  OBVIOUS
<1>2. IsFiniteSet(1..Len(list))
  BY <1>1, FS_Interval
<1>3. QED
  BY <1>1, <1>2, FS_Subset

Mine(list, n) == {i \in DOMAIN list : list[i].section = n}

LEMMA InSectionOrder ==
  ASSUME NEW S, NEW list \in Seq(S), NEW n
  PROVE  LET mine == Mine(list, n)
             a    == InTurn(mine)
         IN  /\ mine \in SUBSET (1..Len(list)) /\ Cardinality(mine) \in Nat
             /\ mine \in SUBSET Int /\ IsFiniteSet(mine)
             /\ a \in [1..Cardinality(mine) -> mine]
             /\ InSection(list, n) = [k \in 1..Cardinality(mine) |-> list[a[k]]]
             /\ InSection(list, n) \in Seq(S) /\ Len(InSection(list, n)) = Cardinality(mine)
             /\ \A i \in mine : \E k \in 1..Cardinality(mine) : a[k] = i
<1> DEFINE mine == Mine(list, n)
           a    == InTurn(mine)
<1>1. mine \in SUBSET DOMAIN list
  BY DEF Mine
<1>2. mine \in SUBSET Int /\ IsFiniteSet(mine) /\ DOMAIN list = 1..Len(list)
  BY <1>1, FinitePlaces
<1>3. InSection(list, n) = Picked(list, mine)
  BY DEF InSection, Mine
<1> HIDE DEF mine
<1>4. /\ Cardinality(mine) \in Nat /\ a \in [1..Cardinality(mine) -> mine]
      /\ Picked(list, mine) = [k \in 1..Cardinality(mine) |-> list[a[k]]]
      /\ \A i \in mine : \E k \in 1..Cardinality(mine) : a[k] = i
  BY <1>2, PickedOrder
<1> HIDE DEF a
<1>5. \A k \in 1..Cardinality(mine) : list[a[k]] \in S
  BY <1>1, <1>2, <1>4
<1>6. InSection(list, n) \in Seq(S) /\ Len(InSection(list, n)) = Cardinality(mine)
  BY <1>3, <1>4, <1>5
<1>7. QED
  BY <1>1, <1>2, <1>3, <1>4, <1>6 DEF mine, a

LEMMA InSectionNone ==
  ASSUME NEW S, NEW list \in Seq(S), NEW n, n \notin WithRows(list)
  PROVE  InSection(list, n) = <<>>
<1>1. Mine(list, n) = {}
  BY DEF Mine, WithRows
<1>2. Cardinality(Mine(list, n)) = 0
  BY <1>1, FS_EmptySet
<1>3. InSection(list, n) \in Seq(S) /\ Len(InSection(list, n)) = 0
  BY <1>2, InSectionOrder
<1>4. QED
  BY <1>3, EmptySeq

LEMMA InSectionAppend ==
  ASSUME NEW S, NEW list \in Seq(S), NEW row \in S, NEW n
  PROVE  InSection(Append(list, row), n) =
           IF row.section = n THEN Append(InSection(list, n), row) ELSE InSection(list, n)
<1> DEFINE v == Append(list, row)
           m == Len(list) + 1
           mine == Mine(list, n)
           more == Mine(v, n)
           a == InTurn(mine)
           b == InTurn(more)
           w == InSection(list, n)
           c == Cardinality(mine)
<1>1. /\ v \in Seq(S) /\ Len(list) \in Nat /\ m \in Int /\ Len(v) = m /\ v[m] = row
      /\ DOMAIN v = 1..m /\ DOMAIN list = 1..Len(list)
      /\ \A i \in 1..Len(list) : v[i] = list[i]
  BY LenProperties, AppendProperties
<1> HIDE DEF v
<1>2. /\ mine \in SUBSET (1..Len(list)) /\ c \in Nat /\ mine \in SUBSET Int /\ IsFiniteSet(mine)
      /\ a \in [1..c -> mine] /\ w = [k \in 1..c |-> list[a[k]]]
      /\ w \in Seq(S) /\ Len(w) = c
  BY InSectionOrder
<1>3. /\ InSection(v, n) = [k \in 1..Cardinality(more) |-> v[b[k]]]
      /\ InSection(v, n) \in Seq(S)
  BY <1>1, InSectionOrder
<1> HIDE DEF w, a, b, c
<1>4. \A k \in 1..c : v[a[k]] = w[k]
  BY <1>1, <1>2
<1>5. CASE row.section = n
  <2>1. more = mine \cup {m} /\ \A x \in mine : x < m
    BY <1>1, <1>2, <1>5 DEF Mine
  <2>2. Cardinality(more) = c + 1 /\ b[c + 1] = m /\ \A k \in 1..c : b[k] = a[k]
    <3> HIDE DEF m, mine, more
    <3>1. /\ Cardinality(mine \cup {m}) = Cardinality(mine) + 1
          /\ InTurn(mine \cup {m})[Cardinality(mine) + 1] = m
          /\ \A k \in 1..Cardinality(mine) : InTurn(mine \cup {m})[k] = InTurn(mine)[k]
      BY <1>1, <1>2, <2>1, PickedAppend
    <3>2. QED
      BY <2>1, <3>1 DEF a, b, c
  <2> HIDE DEF more, mine
  <2>3. /\ Append(w, row) \in Seq(S) /\ Len(Append(w, row)) = c + 1
        /\ Append(w, row)[c + 1] = row /\ \A k \in 1..c : Append(w, row)[k] = w[k]
    BY <1>2
  <2>4. Len(InSection(v, n)) = c + 1
    BY <1>2, <1>3, <2>2
  <2>5. ASSUME NEW k \in 1..(c + 1) PROVE InSection(v, n)[k] = Append(w, row)[k]
    <3>1. CASE k = c + 1
      BY <1>1, <1>3, <2>2, <2>3, <3>1
    <3>2. CASE k \in 1..c
      BY <1>3, <1>4, <2>2, <2>3, <3>2
    <3>3. QED
      BY <1>2, <3>1, <3>2
  <2>6. InSection(v, n) = Append(w, row)
    BY <1>3, <2>3, <2>4, <2>5, SeqEqual
  <2>7. QED
    BY <1>5, <2>6 DEF v, w
<1>6. CASE row.section # n
  <2>1. more = mine
    BY <1>1, <1>2, <1>6 DEF Mine
  <2>2. InSection(v, n) = [k \in 1..c |-> v[a[k]]]
    BY <1>3, <2>1 DEF a, b, c
  <2>3. InSection(v, n) = w
    BY <1>2, <1>4, <2>2
  <2>4. QED
    BY <1>6, <2>3 DEF v, w
<1>7. QED
  BY <1>5, <1>6
-----------------------------------------------------------------------------
(***************************************************************************)
(* What the frames on the wire will make of what the page knows of one     *)
(* section.                                                                *)
(***************************************************************************)

Unknown == Entry("unknown", <<>>)

EntryAfter(entry, n, frame) ==
  CASE frame.kind = "snapshot" ->
         IF n \in WithRows(frame.rows) THEN Entry("completed", InSection(frame.rows, n)) ELSE Unknown
    [] frame.kind = "section-started" /\ n = frame.section  -> Entry("running", entry.checks)
    [] frame.kind = "check-completed" /\ n = frame.section  ->
         Entry(IF entry.status = "unknown" THEN "running" ELSE entry.status, entry.checks \o frame.rows)
    [] frame.kind = "section-error" /\ n = frame.section    -> Entry("failed", entry.checks)
    [] frame.kind = "section-finished" /\ n = frame.section ->
         IF entry.status = "unknown" THEN entry ELSE Entry("completed", entry.checks)
    [] OTHER -> entry

Trace(g, n, s, w) ==
  g[0] = s /\ \A i \in 1..Len(w) : g[i] = EntryAfter(g[i - 1], n, w[i])

\* The page knows s of section n, and e once the frames of w are read.
EndsAs(n, s, w, e) == \E g : Trace(g, n, s, w) /\ g[Len(w)] = e

LEMMA NoFrames ==
  ASSUME NEW n, NEW s, NEW e
  PROVE  EndsAs(n, s, <<>>, e) <=> s = e
<1>1. Len(<<>>) = 0
  BY EmptySeq
<1>2. ASSUME s = e PROVE EndsAs(n, s, <<>>, e)
  <2> DEFINE g == [i \in {0} |-> s]
  <2>1. Trace(g, n, s, <<>>) /\ g[Len(<<>>)] = e
    BY <1>1, <1>2 DEF Trace
  <2>2. QED
    BY <2>1 DEF EndsAs
<1>3. QED
  BY <1>1, <1>2 DEF EndsAs, Trace

LEMMA OneFrameMore ==
  ASSUME NEW S, NEW w \in Seq(S), NEW frame \in S, NEW n, NEW s, NEW e, EndsAs(n, s, w, e)
  PROVE  EndsAs(n, s, Append(w, frame), EntryAfter(e, n, frame))
<1> DEFINE v == Append(w, frame)
           new == EntryAfter(e, n, frame)
<1>1. /\ Len(w) \in Nat /\ Len(v) = Len(w) + 1 /\ v[Len(w) + 1] = frame
      /\ \A i \in 1..Len(w) : v[i] = w[i]
  BY LenProperties, AppendProperties
<1> HIDE DEF v
<1>2. PICK g : Trace(g, n, s, w) /\ g[Len(w)] = e
  BY DEF EndsAs
<1> DEFINE h == [i \in 0..Len(v) |-> IF i <= Len(w) THEN g[i] ELSE new]
<1>3. h[0] = s /\ h[Len(v)] = new
  BY <1>1, <1>2 DEF Trace
<1>4. ASSUME NEW i \in 1..Len(v) PROVE h[i] = EntryAfter(h[i - 1], n, v[i])
  <2>1. CASE i \in 1..Len(w)
    <3>1. h[i] = g[i] /\ h[i - 1] = g[i - 1] /\ v[i] = w[i]
      BY <1>1, <2>1
    <3>2. g[i] = EntryAfter(g[i - 1], n, w[i])
      BY <1>2, <2>1 DEF Trace
    <3>3. QED
      BY <3>1, <3>2
  <2>2. CASE i = Len(w) + 1
    <3>1. h[i] = new /\ h[i - 1] = g[Len(w)] /\ v[i] = frame
      BY <1>1, <2>2
    <3>2. QED
      BY <1>2, <3>1
  <2>3. QED
    BY <1>1, <2>1, <2>2
<1> HIDE DEF h, new
<1>5. Trace(h, n, s, v)
  BY <1>3, <1>4 DEF Trace
<1>6. EndsAs(n, s, v, new)
  BY <1>3, <1>5 DEF EndsAs
<1>7. QED
  BY <1>6 DEF v, new

LEMMA OneFrameLess ==
  ASSUME NEW S, NEW w \in Seq(S), w # <<>>, NEW n, NEW s, NEW e, EndsAs(n, s, w, e)
  PROVE  EndsAs(n, EntryAfter(s, n, Head(w)), Tail(w), e)
<1> DEFINE v == Tail(w)
           first == EntryAfter(s, n, w[1])
<1>1. /\ Len(w) \in Nat /\ Len(w) # 0 /\ Len(v) = Len(w) - 1 /\ Head(w) = w[1]
      /\ \A i \in 1..Len(v) : v[i] = w[i + 1]
  BY EmptySeq, HeadTailProperties, LenProperties
<1> HIDE DEF v
<1>2. PICK g : Trace(g, n, s, w) /\ g[Len(w)] = e
  BY DEF EndsAs
<1>3. /\ g[0] = s
      /\ \A i \in 1..Len(w) : g[i] = EntryAfter(g[i - 1], n, w[i])
  BY <1>2 DEF Trace
<1> DEFINE h == [i \in 0..Len(v) |-> g[i + 1]]
<1>4. h[0] = first
  BY <1>1, <1>3
<1>5. h[Len(v)] = e
  BY <1>1, <1>2
<1>6. ASSUME NEW i \in 1..Len(v) PROVE h[i] = EntryAfter(h[i - 1], n, v[i])
  <2>1. i + 1 \in 1..Len(w) /\ h[i] = g[i + 1] /\ h[i - 1] = g[i] /\ v[i] = w[i + 1]
    BY <1>1
  <2>2. g[i + 1] = EntryAfter(g[i], n, w[i + 1])
    BY <1>3, <2>1
  <2>3. QED
    BY <2>1, <2>2
<1> HIDE DEF h, first
<1>7. EndsAs(n, first, v, e)
  BY <1>4, <1>5, <1>6 DEF Trace, EndsAs
<1>8. QED
  BY <1>1, <1>7 DEF v, first

\* A sequence is one of its own elements.
Elements(w) == {w[i] : i \in 1..Len(w)}

LEMMA OwnElements ==
  ASSUME NEW S, NEW w \in Seq(S)
  PROVE  w \in Seq(Elements(w))
<1>1. Len(w) \in Nat /\ w = [i \in 1..Len(w) |-> w[i]]
  OBVIOUS
<1>2. w \in [1..Len(w) -> Elements(w)]
  BY <1>1 DEF Elements
<1>3. QED
  BY <1>1, <1>2, SeqDef

-----------------------------------------------------------------------------
(***************************************************************************)
(* The checks that the engine has emitted.  No two of them are the same,   *)
(* since the number of each is above those of the checks like it.          *)
(***************************************************************************)

TableOK ==
  /\ IsFiniteSet(lost)
  /\ IsInjective(rows)
  /\ \A i \in DOMAIN rows : rows[i] \notin lost
  /\ \A row \in Emitted :
       row.number \in Nat /\ row.number <= Cardinality(Like(row.section, row.base))

\* What a page may list under a section: each check once, every stored one, and beyond
\* them only lost ones.
Shows(n, checks) ==
  /\ checks \in Seq(Emitted)
  /\ IsInjective(checks)
  /\ Range(checks) \ lost = Range(InSection(rows, n))

LEMMA EmittedIsFinite ==
  ASSUME NEW S, rows \in Seq(S), IsFiniteSet(lost)
  PROVE  /\ IsFiniteSet(Emitted)
         /\ \A n, base : IsFiniteSet(Like(n, base)) /\ Cardinality(Like(n, base)) \in Nat
<1> DEFINE T == {rows[i] : i \in DOMAIN rows}
           g == [i \in DOMAIN rows |-> rows[i]]
<1>1. IsFiniteSet(DOMAIN rows)
  <2>1. DOMAIN rows \in SUBSET DOMAIN rows
    OBVIOUS
  <2>2. QED
    BY <2>1, FinitePlaces
<1>2. g \in Surjection(DOMAIN rows, T)
  BY DEF Surjection
<1> HIDE DEF g
<1>3. IsFiniteSet(T)
  BY <1>1, <1>2, FS_Surjection
<1>4. IsFiniteSet(Emitted)
  BY <1>3, FS_Union DEF Emitted
<1>5. ASSUME NEW n, NEW base
      PROVE  IsFiniteSet(Like(n, base)) /\ Cardinality(Like(n, base)) \in Nat
  <2>1. Like(n, base) \in SUBSET Emitted
    BY DEF Like
  <2>2. IsFiniteSet(Like(n, base))
    BY <1>4, <2>1, FS_Subset
  <2>3. QED
    BY <2>2, FS_CardinalityType
<1>6. QED
  BY <1>4, <1>5

\* The number that a row is given makes it another than all before.
LEMMA RowIsNew ==
  ASSUME NEW S, rows \in Seq(S), TableOK, NEW input
  PROVE  Row(input) \notin Emitted
<1>1. PICK row : row = Row(input)
  OBVIOUS
<1>2. row.section = at /\ row.base = input.base /\ row.number = Cardinality(Like(at, input.base)) + 1
  BY <1>1 DEF Row
<1>3. Cardinality(Like(at, input.base)) \in Nat
  BY EmittedIsFinite DEF TableOK
<1>4. row \in Emitted => row.number <= Cardinality(Like(at, input.base))
  BY <1>2 DEF TableOK
<1>5. QED
  BY <1>1, <1>2, <1>3, <1>4

LEMMA TableStep ==
  ASSUME NEW S, rows \in Seq(S), TableOK, NEW input, NEW row, row = Row(input),
         \/ rows' = Append(rows, row) /\ lost' = lost
         \/ lost' = lost \cup {row} /\ rows' = rows
  PROVE  TableOK' /\ Emitted' = Emitted \cup {row} /\ row \notin Emitted
<1>1. row \notin Emitted
  BY RowIsNew
<1>2. /\ Len(rows) \in Nat /\ DOMAIN rows = 1..Len(rows)
      /\ \A i \in 1..Len(rows) : rows[i] \in Emitted
  BY DEF Emitted
<1>3. rows' = Append(rows, row) =>
        /\ DOMAIN rows' = 1..(Len(rows) + 1) /\ rows'[Len(rows) + 1] = row
        /\ \A i \in 1..Len(rows) : rows'[i] = rows[i]
  <2>1. PICK v, U : v = Append(rows, row) /\ rows \in Seq(U) /\ row \in U
    <3>1. rows \in Seq(S \cup {row}) /\ row \in S \cup {row}
      OBVIOUS
    <3>2. QED
      BY <3>1
  <2>2. /\ v \in Seq(U) /\ Len(v) = Len(rows) + 1 /\ v[Len(rows) + 1] = row
        /\ \A i \in 1..Len(rows) : v[i] = rows[i]
    BY <2>1, AppendProperties
  <2>3. DOMAIN v = 1..(Len(rows) + 1)
    BY <2>2
  <2>4. QED
    BY <2>1, <2>2, <2>3
<1>4. Emitted' = Emitted \cup {row}
  <2>1. CASE rows' = Append(rows, row) /\ lost' = lost
    <3>1. {rows'[i] : i \in DOMAIN rows'} = {rows[i] : i \in DOMAIN rows} \cup {row}
      BY <1>2, <1>3, <2>1
    <3>2. QED
      BY <2>1, <3>1 DEF Emitted
  <2>2. CASE lost' = lost \cup {row} /\ rows' = rows
    BY <2>2 DEF Emitted
  <2>3. QED
    BY <2>1, <2>2
<1>5. rows' \in Seq(S \cup {row}) /\ IsFiniteSet(lost')
  <2>1. rows \in Seq(S \cup {row}) /\ row \in S \cup {row}
    OBVIOUS
  <2>2. Append(rows, row) \in Seq(S \cup {row})
    BY <2>1, AppendProperties
  <2>3. IsFiniteSet(lost \cup {row})
    BY FS_AddElement DEF TableOK
  <2>4. QED
    BY <2>1, <2>2, <2>3 DEF TableOK
<1>6. \A n, base : /\ IsFiniteSet(Like(n, base)) /\ Cardinality(Like(n, base)) \in Nat
                   /\ IsFiniteSet(Like(n, base)') /\ Cardinality(Like(n, base)') \in Nat
  <2>1. \A n, base : IsFiniteSet(Like(n, base)) /\ Cardinality(Like(n, base)) \in Nat
    BY EmittedIsFinite DEF TableOK
  <2>2. IsFiniteSet(Emitted)
    BY EmittedIsFinite DEF TableOK
  <2>3. IsFiniteSet(Emitted')
    BY <1>4, <2>2, FS_AddElement
  <2>4. ASSUME NEW n, NEW base PROVE IsFiniteSet(Like(n, base)') /\ Cardinality(Like(n, base)') \in Nat
    <3>1. PICK T : T = Like(n, base)'
      OBVIOUS
    <3>2. T \in SUBSET (Emitted')
      BY <3>1 DEF Like
    <3>3. IsFiniteSet(T)
      BY <2>3, <3>2, FS_Subset
    <3>4. QED
      BY <3>1, <3>3, FS_CardinalityType
  <2>5. QED
    BY <2>1, <2>4
<1>7. ASSUME NEW r \in Emitted'
      PROVE  r.number \in Nat /\ r.number <= Cardinality(Like(r.section, r.base)')
  <2>1. PICK old, new : old = Like(r.section, r.base) /\ new = Like(r.section, r.base)'
    OBVIOUS
  <2>2. old \in SUBSET new /\ IsFiniteSet(new) /\ Cardinality(old) \in Nat /\ Cardinality(new) \in Nat
    <3>1. old = {x \in Emitted : x.section = r.section /\ x.base = r.base}
      BY <2>1 DEF Like
    <3>2. new = {x \in Emitted' : x.section = r.section /\ x.base = r.base}
      BY <2>1 DEF Like
    <3>3. old \in SUBSET new
      BY <1>4, <3>1, <3>2
    <3>4. QED
      BY <1>6, <2>1, <3>3
  <2>3. Cardinality(old) <= Cardinality(new)
    BY <2>2, FS_Subset
  <2>4. CASE r \in Emitted
    <3>1. r.number \in Nat /\ r.number <= Cardinality(old)
      BY <2>1, <2>4 DEF TableOK
    <3>2. QED
      BY <2>1, <2>2, <2>3, <3>1
  <2>5. CASE r \notin Emitted
    <3>1. r = row /\ r.section = at /\ r.base = input.base
      BY <1>4, <2>5 DEF Row
    <3>2. new = old \cup {row} /\ row \notin old
      BY <1>1, <1>4, <2>1, <3>1 DEF Like
    <3>3. IsFiniteSet(old) /\ Cardinality(new) = Cardinality(old) + 1
      BY <1>6, <2>1, <3>2, FS_AddElement
    <3>4. r.number = Cardinality(old) + 1
      BY <2>1, <3>1 DEF Row
    <3>5. QED
      BY <2>1, <2>2, <3>3, <3>4
  <2>6. QED
    BY <2>4, <2>5
<1>8. IsInjective(rows')
  <2>1. CASE rows' = rows
    BY <2>1 DEF TableOK
  <2>2. CASE rows' = Append(rows, row)
    <3>1. \A i \in 1..Len(rows) : rows'[i] = rows[i] /\ rows[i] # row
      BY <1>1, <1>2, <1>3, <2>2
    <3>2. \A i, j \in 1..Len(rows) : rows[i] = rows[j] => i = j
      BY <1>2 DEF TableOK, IsInjective
    <3>3. DOMAIN rows' = 1..(Len(rows) + 1) /\ rows'[Len(rows) + 1] = row
      BY <1>3, <2>2
    <3>4. \A i \in DOMAIN rows' : i \in 1..Len(rows) \/ i = Len(rows) + 1
      BY <1>2, <3>3
    <3>5. QED
      BY <3>1, <3>2, <3>3, <3>4 DEF IsInjective
  <2>3. QED
    BY <2>1, <2>2
<1>9. \A i \in DOMAIN rows' : rows'[i] \notin lost'
  <2>1. CASE rows' = Append(rows, row) /\ lost' = lost
    <3>1. row \notin lost
      BY <1>1 DEF Emitted
    <3>2. QED
      BY <1>2, <1>3, <2>1, <3>1 DEF TableOK
  <2>2. CASE lost' = lost \cup {row} /\ rows' = rows
    BY <1>1, <1>2, <2>2 DEF TableOK
  <2>3. QED
    BY <2>1, <2>2
<1>10. QED
  BY <1>1, <1>4, <1>5, <1>7, <1>8, <1>9 DEF TableOK

LEMMA RangeOfAppend ==
  ASSUME NEW S, NEW list \in Seq(S), NEW row
  PROVE  /\ Range(Append(list, row)) = Range(list) \cup {row}
         /\ row \notin Range(list) /\ IsInjective(list) => IsInjective(Append(list, row))
<1>1. PICK v : v = Append(list, row)
  OBVIOUS
<1>2. /\ Len(list) \in Nat /\ DOMAIN list = 1..Len(list) /\ DOMAIN v = 1..(Len(list) + 1)
      /\ v[Len(list) + 1] = row /\ \A i \in 1..Len(list) : v[i] = list[i]
  <2>1. list \in Seq(S \cup {row}) /\ row \in S \cup {row}
    OBVIOUS
  <2>2. QED
    BY <1>1, <2>1, AppendProperties
<1>3. Range(v) = Range(list) \cup {row}
  BY <1>2 DEF Range
<1>4. row \notin Range(list) /\ IsInjective(list) => IsInjective(v)
  BY <1>2 DEF Range, IsInjective
<1>5. QED
  BY <1>1, <1>3, <1>4

\* A check that is emitted is shown, whether its insert fails or not.
LEMMA ShowsMore ==
  ASSUME NEW S, rows \in Seq(S), NEW row \in S, row \notin Emitted, Emitted' = Emitted \cup {row},
         \/ rows' = Append(rows, row) /\ lost' = lost
         \/ lost' = lost \cup {row} /\ rows' = rows,
         NEW n, NEW checks, Shows(n, checks)
  PROVE  Shows(n, IF row.section = n THEN Append(checks, row) ELSE checks)'
<1>1. PICK list : list = InSection(rows, n) /\ list \in Seq(S)
  BY InSectionOrder
<1>2. rows' = Append(rows, row) =>
        InSection(rows', n) = IF row.section = n THEN Append(list, row) ELSE list
  BY <1>1, InSectionAppend
<1>3. /\ checks \in Seq(Emitted) /\ IsInjective(checks)
      /\ Range(checks) \ lost = Range(list)
  BY <1>1 DEF Shows
<1>4. row \notin Range(checks) /\ row \notin lost
  BY <1>3 DEF Range, Emitted
<1>5. /\ Range(Append(checks, row)) = Range(checks) \cup {row}
      /\ IsInjective(Append(checks, row))
      /\ Range(Append(list, row)) = Range(list) \cup {row}
  BY <1>1, <1>3, <1>4, RangeOfAppend
<1>6. PICK more : more = IF row.section = n THEN Append(checks, row) ELSE checks
  OBVIOUS
<1>7. more \in Seq(Emitted') /\ IsInjective(more)
  <2>1. checks \in Seq(Emitted') /\ row \in Emitted'
    BY <1>3
  <2>2. QED
    BY <1>3, <1>5, <1>6, <2>1, AppendProperties
<1>8. Range(more) \ lost' = Range(InSection(rows', n))
  <2>1. CASE rows' = Append(rows, row) /\ lost' = lost
    <3>1. CASE row.section = n
      BY <1>2, <1>3, <1>4, <1>5, <1>6, <2>1, <3>1
    <3>2. CASE row.section # n
      BY <1>2, <1>3, <1>6, <2>1, <3>2
    <3>3. QED
      BY <3>1, <3>2
  <2>2. CASE lost' = lost \cup {row} /\ rows' = rows
    <3>1. InSection(rows', n) = list
      BY <1>1, <2>2
    <3>2. Range(more) \ lost' = Range(checks) \ lost
      BY <1>4, <1>5, <1>6, <2>2
    <3>3. QED
      BY <1>3, <3>1, <3>2
  <2>3. QED
    BY <2>1, <2>2
<1>9. QED
  BY <1>6, <1>7, <1>8 DEF Shows

\* A snapshot has each stored row of a section once.
LEMMA ShowsSnapshot ==
  ASSUME NEW S, rows \in Seq(S), TableOK, NEW n
  PROVE  Shows(n, InSection(rows, n))
<1>1. PICK mine, a, w, c : /\ mine = Mine(rows, n) /\ a = InTurn(mine) /\ w = InSection(rows, n)
                          /\ c = Cardinality(mine)
  OBVIOUS
<1>2. /\ mine \in SUBSET (1..Len(rows)) /\ c \in Nat
      /\ mine \in SUBSET Int /\ IsFiniteSet(mine)
      /\ a \in [1..c -> mine] /\ w = [k \in 1..c |-> rows[a[k]]]
  BY <1>1, InSectionOrder
<1>3. \A k, l \in 1..c : k < l => a[k] < a[l]
  BY <1>1, <1>2, PickedOrder
<1>4. DOMAIN rows = 1..Len(rows) /\ \A i \in DOMAIN rows : rows[i] \in Emitted
  BY DEF Emitted
<1>5. w \in Seq(Emitted)
  <2>1. \A k \in 1..c : rows[a[k]] \in Emitted
    BY <1>2, <1>4
  <2>2. QED
    BY <1>2, <2>1
<1>6. IsInjective(w)
  <2>1. ASSUME NEW k \in 1..c, NEW l \in 1..c, w[k] = w[l] PROVE k = l
    <3>1. a[k] \in DOMAIN rows /\ a[l] \in DOMAIN rows /\ rows[a[k]] = rows[a[l]]
      BY <1>2, <1>4, <2>1
    <3>2. a[k] = a[l]
      BY <3>1 DEF TableOK, IsInjective
    <3>3. a[k] \in Int /\ a[l] \in Int
      BY <1>2
    <3>4. QED
      BY <1>2, <1>3, <3>2, <3>3
  <2>2. QED
    BY <1>2, <2>1 DEF IsInjective
<1>7. \A row \in Range(w) : row \notin lost
  BY <1>2, <1>4 DEF Range, TableOK
<1>8. Range(w) \ lost = Range(w)
  BY <1>7
<1>9. QED
  BY <1>1, <1>5, <1>6, <1>8 DEF Shows

-----------------------------------------------------------------------------
(***************************************************************************)
(* The inductive invariant.  That no idle section is shown as running and  *)
(* no row is missing holds only once the wire is read, so the invariant    *)
(* says what the page will know of each section then.                      *)
(***************************************************************************)

KnownEntry(n) == IF Knows(n) THEN known[n] ELSE Unknown

KnownOK ==
  \A n \in DOMAIN known :
    known[n].status # "unknown" /\ known[n] = Entry(known[n].status, known[n].checks)

\* The end is the last that is sent.
WireOK ==
  /\ attached \in BOOLEAN
  /\ rows \in Seq(Elements(rows))
  /\ wire \in Seq(Elements(wire))
  /\ ~attached => wire = <<>>
  /\ attached => connection \in {"live", "reconnecting"}
  /\ \A i \in 1..Len(wire) :
       wire[i].kind = "run-terminal" => i = Len(wire) /\ last = "run-finished"

\* Neither is a section that has ended running, nor is a stored row missing.
Current(n, entry) ==
  /\ entry.status = "running" => IsUnderWay(n)
  /\ Shows(n, entry.checks)

EntriesOK ==
  /\ attached => \A n \in Sections : \E e : EndsAs(n, KnownEntry(n), wire, e) /\ Current(n, e)
  /\ connection = "terminal" =>
       last = "run-finished" /\ \A n \in Sections : Current(n, KnownEntry(n))

IInv == TableOK /\ KnownOK /\ WireOK /\ EntriesOK

LEMMA InitOK == ProgressInit => IInv
<1> SUFFICES ASSUME ProgressInit PROVE IInv
  OBVIOUS
<1>1. /\ attached = FALSE /\ wire = <<>> /\ connection = "closed" /\ known = <<>>
      /\ Len(wire) = 0 /\ rows = <<>> /\ lost = {}
  BY EmptySeq DEF ProgressInit
<1>2. KnownOK
  BY <1>1 DEF KnownOK
<1>3. WireOK
  <2>1. wire \in Seq(Elements(wire)) /\ rows \in Seq(Elements(rows))
    BY <1>1
  <2>2. \A i \in 1..Len(wire) : FALSE
    BY <1>1
  <2>3. QED
    BY <1>1, <2>1, <2>2, Zenon DEF WireOK
<1>4. EntriesOK
  BY <1>1 DEF EntriesOK
<1>5. TableOK
  <2>1. DOMAIN rows = {} /\ Emitted = {}
    BY <1>1 DEF Emitted
  <2>2. QED
    BY <1>1, <2>1, FS_EmptySet DEF TableOK, IsInjective
<1>6. QED
  BY <1>2, <1>3, <1>4, <1>5 DEF IInv

-----------------------------------------------------------------------------
(* Steps of the engine *)

\* An event comes last on the wire, if the page has a stream.
LEMMA SendStep ==
  ASSUME IInv, NEW frame,
         wire' = IF attached THEN Append(wire, frame) ELSE wire,
         UNCHANGED <<attached, connection, known>>, rows' \in Seq(Elements(rows')), TableOK',
         last # "run-finished", frame.kind = "run-terminal" => last' = "run-finished",
         \A n \in Sections : \A e : Current(n, e) => Current(n, EntryAfter(e, n, frame))'
  PROVE  IInv'
<1>1. KnownOK'
  BY DEF IInv, KnownOK
<1>2. PICK S : wire \in Seq(S) /\ frame \in S /\ Len(wire) \in Nat
  <2>1. wire \in Seq(Elements(wire) \cup {frame})
    BY DEF IInv, WireOK
  <2>2. QED
    BY <2>1
<1>3. WireOK'
  <2>1. wire' \in Seq(S)
    BY <1>2
  <2>2. wire' \in Seq(Elements(wire'))
    BY <2>1, OwnElements
  <2>3. ASSUME NEW i \in 1..Len(wire'), wire'[i].kind = "run-terminal"
        PROVE  i = Len(wire') /\ last' = "run-finished"
    <3>1. CASE i \in 1..Len(wire)
      <4>1. wire'[i] = wire[i]
        BY <1>2, <3>1
      <4>2. QED
        BY <2>3, <3>1, <4>1 DEF IInv, WireOK
    <3>2. CASE i \notin 1..Len(wire)
      <4>1. i = Len(wire') /\ wire'[i] = frame
        BY <1>2, <2>3, <3>2
      <4>2. QED
        BY <2>3, <4>1
    <3>3. QED
      BY <3>1, <3>2
  <2>4. QED
    BY <2>2, <2>3 DEF IInv, WireOK, Elements
<1>4. EntriesOK'
  <2> connection' # "terminal"
    BY DEF IInv, EntriesOK
  <2>1. ASSUME attached, NEW n \in Sections, NEW s, s = KnownEntry(n)
        PROVE  \E e : EndsAs(n, s, wire', e) /\ Current(n, e)'
    <3>1. PICK e : EndsAs(n, s, wire, e) /\ Current(n, e)
      BY <2>1 DEF IInv, EntriesOK
    <3>2. EndsAs(n, s, wire', EntryAfter(e, n, frame))
      BY <1>2, <2>1, <3>1, OneFrameMore
    <3>3. PICK f : f = EntryAfter(e, n, frame) /\ Current(n, f)'
      BY <3>1
    <3>4. QED
      BY <3>2, <3>3
  <2>2. \A n : KnownEntry(n)' = KnownEntry(n)
    BY DEF KnownEntry, Knows
  <2>3. QED
    BY <2>1, <2>2 DEF EntriesOK, EndsAs
<1>5. QED
  BY <1>1, <1>3, <1>4 DEF IInv

\* A step that neither emits nor inserts.
LEMMA SameTable ==
  ASSUME TableOK, UNCHANGED <<rows, lost>>
  PROVE  TableOK' /\ \A n, c : Shows(n, c) <=> Shows(n, c)'
BY DEF TableOK, Shows, Emitted, Like

LEMMA EngineStepOK ==
  ASSUME IInv, EngineStep
  PROVE  IInv'
<1>Rows. rows' = rows /\ lost' = lost => rows' \in Seq(Elements(rows')) /\ TableOK'
  <2>1. rows' = rows => rows' \in Seq(Elements(rows'))
    BY DEF IInv, WireOK, Elements
  <2>2. QED
    BY <2>1, SameTable DEF IInv
<1>Shows. rows' = rows /\ lost' = lost => \A n, c : Shows(n, c) <=> Shows(n, c)'
  BY SameTable DEF IInv
<1>1. CASE Unheard
  <2>1. /\ UNCHANGED <<wire, attached, connection, known, at, rows, lost>>
        /\ last \in {"none"} \cup Collecting
        /\ last' \in {"run-started"} \cup Collecting
    BY <1>1 DEF Unheard, page, table, RunStarted, Collected
  <2>2. last # "run-finished" /\ \A n \in Sections : \A e : Current(n, e) => Current(n, e)'
    BY <1>Shows, <1>1, <2>1 DEF Current, IsUnderWay, Collecting, Unheard, RunStarted, Collected
  <2>3. TableOK' /\ KnownOK' /\ WireOK'
    BY <1>Rows, <2>1, <2>2 DEF IInv, KnownOK, WireOK, Elements
  <2>4. EntriesOK'
    <3>1. \A n : KnownEntry(n)' = KnownEntry(n)
      BY <2>1 DEF KnownEntry, Knows
    <3>2. QED
      BY <2>1, <2>2, <3>1 DEF IInv, EntriesOK, EndsAs
  <2>5. QED
    BY <2>3, <2>4 DEF IInv
<1>2. ASSUME NEW kind, NEW section, NEW added, Send(kind, section, added),
             rows' \in Seq(Elements(rows')), TableOK',
             last # "run-finished", kind = "run-terminal" => last' = "run-finished",
             \A n \in Sections : \A e :
               Current(n, e) => Current(n, EntryAfter(e, n, Frame(kind, section, added)))'
      PROVE  IInv'
  <2>1. PICK frame : frame = Frame(kind, section, added)
    OBVIOUS
  <2>2. \A n \in Sections : \A e : Current(n, e) => Current(n, EntryAfter(e, n, frame))'
    BY <1>2, <2>1
  <2>3. /\ wire' = IF attached THEN Append(wire, frame) ELSE wire
        /\ UNCHANGED <<attached, connection, known>>
        /\ frame.kind = kind
    BY <1>2, <2>1 DEF Send, page, Frame
  <2>4. QED
    BY <1>2, <2>2, <2>3, SendStep
<1>3. CASE Started
  <2>1. PICK section : section = at'
    OBVIOUS
  <2>2. Send("section-started", section, <<>>) /\ last # "run-finished" /\ rows' = rows /\ lost' = lost
    BY <1>3, <2>1 DEF Started, SectionStarted, table
  <2>3. ASSUME NEW n \in Sections, NEW e, Current(n, e)
        PROVE  Current(n, EntryAfter(e, n, Frame("section-started", section, <<>>)))'
    <3>1. e.status # "running"
      BY <1>3, <2>3 DEF Current, IsUnderWay, Started, SectionStarted, Collecting
    <3>2. PICK f : /\ f = EntryAfter(e, n, Frame("section-started", section, <<>>))
                   /\ f = IF n = section THEN Entry("running", e.checks) ELSE e
      BY DEF EntryAfter, Frame
    <3>3. n = section => IsUnderWay(n)'
      BY <1>3, <2>1 DEF IsUnderWay, Started, SectionStarted, Collecting
    <3>4. Current(n, f)'
      BY <1>Shows, <2>2, <2>3, <3>1, <3>2, <3>3 DEF Current, Entry
    <3>5. QED
      BY <3>2, <3>4
  <2>4. QED
    BY <1>2, <1>Rows, <2>2, <2>3
<1>4. ASSUME at > 0, NEW input \in Inputs[at], Completed(input)
      PROVE  IInv'
  <2>1. PICK row, section, added : row = Row(input) /\ section = at /\ added = <<row>>
    OBVIOUS
  <2>2. /\ Send("check-completed", section, added) /\ last # "run-finished"
        /\ \/ rows' = Append(rows, row) /\ lost' = lost
           \/ lost' = lost \cup {row} /\ rows' = rows
        /\ row.section = section
    BY <1>4, <2>1 DEF Completed, Collected, Collecting, Row
  <2>3. PICK S : rows \in Seq(S) /\ row \in S
    <3>1. rows \in Seq(Elements(rows) \cup {row})
      BY DEF IInv, WireOK
    <3>2. QED
      BY <3>1
  <2>4. rows' \in Seq(Elements(rows'))
    <3>1. rows' \in Seq(S)
      BY <2>2, <2>3
    <3>2. QED
      BY <3>1, OwnElements
  <2>5. TableOK' /\ Emitted' = Emitted \cup {row} /\ row \notin Emitted
    BY <2>1, <2>2, <2>3, TableStep DEF IInv
  <2>6. ASSUME NEW n \in Sections, NEW e, Current(n, e)
        PROVE  Current(n, EntryAfter(e, n, Frame("check-completed", section, added)))'
    <3>1. Shows(n, e.checks) /\ (e.status = "running" => IsUnderWay(n))
      BY <2>6 DEF Current
    <3>2. PICK checks : checks = e.checks
      OBVIOUS
    <3>3. PICK more : more = IF row.section = n THEN Append(checks, row) ELSE checks
      OBVIOUS
    <3>4. Shows(n, more)'
      BY <2>2, <2>3, <2>5, <3>1, <3>2, <3>3, ShowsMore
    <3>5. checks \o added = Append(checks, row)
      <4>1. checks \in Seq(Emitted \cup {row})
        BY <3>1, <3>2 DEF Shows
      <4>2. QED
        BY <2>1, <4>1
    <3>6. PICK f : f = EntryAfter(e, n, Frame("check-completed", section, added))
      OBVIOUS
    <3>7. f = IF n = section
                THEN Entry(IF e.status = "unknown" THEN "running" ELSE e.status, checks \o added)
                ELSE e
      BY <3>2, <3>6 DEF EntryAfter, Frame
    <3>8. f.checks = more
      BY <2>2, <3>2, <3>3, <3>5, <3>7 DEF Entry
    <3>9. (n = section \/ e.status = "running") => IsUnderWay(n)'
      BY <1>4, <2>1, <3>1 DEF IsUnderWay, Completed, Collected, Collecting
    <3>10. f.status = "running" => IsUnderWay(n)'
      BY <3>7, <3>9 DEF Entry
    <3>11. Current(n, f)'
      BY <3>4, <3>8, <3>10 DEF Current
    <3>12. QED
      BY <3>6, <3>11
  <2>7. QED
    BY <1>2, <2>2, <2>4, <2>5, <2>6
<1>5. CASE Failed
  <2>1. PICK section : section = at
    OBVIOUS
  <2>2. Send("section-error", section, <<>>) /\ last # "run-finished" /\ rows' = rows /\ lost' = lost
    BY <1>5, <2>1 DEF Failed, SectionError, Collecting, table
  <2>3. ASSUME NEW n \in Sections, NEW e, Current(n, e)
        PROVE  Current(n, EntryAfter(e, n, Frame("section-error", section, <<>>)))'
    <3>1. PICK f : /\ f = EntryAfter(e, n, Frame("section-error", section, <<>>))
                   /\ f = IF n = section THEN Entry("failed", e.checks) ELSE e
      BY DEF EntryAfter, Frame
    <3>2. e.status = "running" => n = section
      BY <2>1, <2>3 DEF Current, IsUnderWay
    <3>3. Current(n, f)'
      BY <1>Shows, <2>2, <2>3, <3>1, <3>2 DEF Current, Entry
    <3>4. QED
      BY <3>1, <3>3
  <2>4. QED
    BY <1>2, <1>Rows, <2>2, <2>3
<1>6. CASE Finished
  <2>1. PICK section : section = at
    OBVIOUS
  <2>2. Send("section-finished", section, <<>>) /\ last # "run-finished" /\ rows' = rows /\ lost' = lost
    BY <1>6, <2>1 DEF Finished, SectionFinished, Collecting, table
  <2>3. ASSUME NEW n \in Sections, NEW e, Current(n, e)
        PROVE  Current(n, EntryAfter(e, n, Frame("section-finished", section, <<>>)))'
    <3>1. PICK f : /\ f = EntryAfter(e, n, Frame("section-finished", section, <<>>))
                   /\ f = IF n = section /\ e.status # "unknown" THEN Entry("completed", e.checks) ELSE e
      BY DEF EntryAfter, Frame
    <3>2. e.status = "running" => n = section
      BY <2>1, <2>3 DEF Current, IsUnderWay
    <3>3. Current(n, f)'
      BY <1>Shows, <2>2, <2>3, <3>1, <3>2 DEF Current, Entry
    <3>4. QED
      BY <3>1, <3>3
  <2>4. QED
    BY <1>2, <1>Rows, <2>2, <2>3
<1>7. CASE Ended
  <2>1. PICK section : section = at
    OBVIOUS
  <2>2. Send("run-terminal", section, <<>>) /\ last # "run-finished" /\ rows' = rows /\ lost' = lost /\ last' = "run-finished"
    BY <1>7, <2>1 DEF Ended, RunFinished, table
  <2>3. ASSUME NEW n \in Sections, NEW e, Current(n, e)
        PROVE  Current(n, EntryAfter(e, n, Frame("run-terminal", section, <<>>)))'
    <3>1. PICK f : /\ f = EntryAfter(e, n, Frame("run-terminal", section, <<>>))
                   /\ f = e
      BY DEF EntryAfter, Frame
    <3>2. e.status = "running" => FALSE
      BY <1>7, <2>3 DEF Current, IsUnderWay, Ended, RunFinished, Collecting
    <3>3. Current(n, f)'
      BY <1>Shows, <2>2, <2>3, <3>1, <3>2 DEF Current, Entry
    <3>4. QED
      BY <3>1, <3>3
  <2>4. QED
    BY <1>2, <1>Rows, <2>2, <2>3
<1>8. QED
  BY <1>1, <1>3, <1>4, <1>5, <1>6, <1>7 DEF EngineStep

-----------------------------------------------------------------------------
(* Steps of the page *)

\* Each handler does to what is known of a section what EntryAfter says.
LEMMA ApplyEffect ==
  ASSUME KnownOK, NEW frame, Apply(frame)
  PROVE  KnownOK' /\ \A n : KnownEntry(n)' = EntryAfter(KnownEntry(n), n, frame)
<1> USE DEF KnownOK, KnownEntry, Knows, EntryAfter, Unknown, Checks
<1>1. CASE frame.kind = "snapshot" /\ handleSnapshot(frame.rows)
  BY <1>1 DEF handleSnapshot, Entry
<1>2. CASE frame.kind = "section-started" /\ Learn(frame.section, Entry("running", Checks(frame.section)))
  BY <1>2 DEF Learn, Entry
<1>3. CASE frame.kind = "check-completed" /\ checkCompleted(frame.section, frame.rows)
  BY <1>3 DEF checkCompleted, Learn, Entry
<1>4. CASE frame.kind = "section-error" /\ Learn(frame.section, Entry("failed", Checks(frame.section)))
  BY <1>4 DEF Learn, Entry
<1>5. CASE frame.kind = "section-finished" /\ sectionFinished(frame.section)
  BY <1>5 DEF sectionFinished, Learn, Entry
<1>6. CASE frame.kind = "run-terminal" /\ UNCHANGED known
  BY <1>6
<1>7. QED
  BY <1>1, <1>2, <1>3, <1>4, <1>5, <1>6 DEF Apply

LEMMA ReadStep ==
  ASSUME IInv, Read
  PROVE  IInv'
<1>1. PICK frame, rest : frame = Head(wire) /\ rest = Tail(wire)
  OBVIOUS
<1>2. /\ wire # <<>> /\ Apply(frame) /\ wire' = rest /\ last' = last /\ at' = at /\ rows' = rows /\ lost' = lost
      /\ connection' = IF frame.kind = "run-terminal" THEN "terminal" ELSE "live"
      /\ attached' = (frame.kind # "run-terminal")
  BY <1>1 DEF Read, engine, table
<1>3. PICK S : wire \in Seq(S)
  BY DEF IInv, WireOK
<1>4. /\ rest \in Seq(S) /\ Len(wire) \in Nat /\ Len(wire) > 0 /\ Len(rest) = Len(wire) - 1
      /\ frame = wire[1] /\ \A i \in 1..Len(rest) : rest[i] = wire[i + 1]
  BY <1>1, <1>2, <1>3, EmptySeq, LenProperties, HeadTailProperties
<1>5. KnownOK' /\ \A n : KnownEntry(n)' = EntryAfter(KnownEntry(n), n, frame)
  BY <1>2, ApplyEffect DEF IInv
<1>6. attached
  BY <1>2 DEF IInv, WireOK
<1>7. frame.kind = "run-terminal" => Len(wire) = 1 /\ last = "run-finished"
  BY <1>4 DEF IInv, WireOK
<1>NoRest. Len(wire) = 1 => rest = <<>>
  <2>1. Len(wire) = 1 => Len(rest) = 0
    BY <1>4
  <2>2. Len(rest) = 0 => rest = <<>>
    BY <1>4, EmptySeq
  <2>3. QED
    BY <2>1, <2>2
<1>8. WireOK'
  <2>1. wire' \in Seq(Elements(wire'))
    BY <1>2, <1>4, OwnElements
  <2>2. frame.kind = "run-terminal" => rest = <<>>
    BY <1>7, <1>NoRest
  <2>3. ASSUME NEW i \in 1..Len(wire'), wire'[i].kind = "run-terminal"
        PROVE  i = Len(wire') /\ last' = "run-finished"
    <3>1. i + 1 \in 1..Len(wire) /\ wire[i + 1].kind = "run-terminal"
      BY <1>2, <1>4, <2>3
    <3>2. i + 1 = Len(wire) /\ last = "run-finished"
      BY <3>1 DEF IInv, WireOK
    <3>3. QED
      BY <1>2, <1>4, <3>2
  <2>4. QED
    BY <1>2, <2>1, <2>2, <2>3 DEF IInv, WireOK, Elements
<1>9. \A n \in Sections : \E e : EndsAs(n, KnownEntry(n)', rest, e) /\ Current(n, e)
  <2>1. ASSUME NEW n \in Sections, NEW s, s = KnownEntry(n)
        PROVE  \E e : EndsAs(n, EntryAfter(s, n, frame), rest, e) /\ Current(n, e)
    <3>1. PICK e : EndsAs(n, s, wire, e) /\ Current(n, e)
      BY <1>6, <2>1 DEF IInv, EntriesOK
    <3>2. EndsAs(n, EntryAfter(s, n, frame), rest, e)
      BY <1>1, <1>2, <1>3, <3>1, OneFrameLess
    <3>3. QED
      BY <3>1, <3>2
  <2>2. QED
    BY <1>5, <2>1
<1>10. EntriesOK'
  <2>1. \A n, e : Current(n, e) <=> Current(n, e)'
    BY <1>2, SameTable DEF IInv, Current, IsUnderWay
  <2>2. attached' => \A n \in Sections : \E e : EndsAs(n, KnownEntry(n)', wire', e) /\ Current(n, e)'
    BY <1>2, <1>9, <2>1
  <2>3. ASSUME connection' = "terminal"
        PROVE  last' = "run-finished" /\ \A n \in Sections : Current(n, KnownEntry(n))'
    <3>1. frame.kind = "run-terminal"
      BY <1>2, <2>3
    <3>2. rest = <<>> /\ last = "run-finished"
      BY <1>7, <1>NoRest, <3>1
    <3>3. ASSUME NEW n \in Sections, NEW s, s = KnownEntry(n)' PROVE Current(n, s)
      <4>1. PICK e : EndsAs(n, s, rest, e) /\ Current(n, e)
        BY <1>9, <3>3
      <4>2. s = e
        BY <3>2, <4>1, NoFrames
      <4>3. QED
        BY <4>1, <4>2
    <3>4. \A n \in Sections : Current(n, KnownEntry(n)')
      BY <3>3
    <3>5. \A n \in Sections : \A s : s = KnownEntry(n)' => Current(n, s)'
      BY <2>1, <3>4
    <3>6. QED
      BY <1>2, <3>2, <3>5
  <2>4. QED
    BY <2>2, <2>3 DEF EntriesOK, EndsAs
<1>11. QED
  BY <1>2, <1>5, <1>8, <1>10, SameTable DEF IInv

\* The snapshot makes the page forget every section that it took for running.
LEMMA ConnectStep ==
  ASSUME IInv, Connect
  PROVE  IInv'
<1>1. PICK snapshot, terminal : snapshot = Frame("snapshot", 0, rows)
                                /\ terminal = Frame("run-terminal", 0, <<>>)
  OBVIOUS
<1>2. /\ connection \in {"live", "reconnecting"} /\ attached'
      /\ UNCHANGED <<connection, known, last, at, rows, lost>>
      /\ wire' = IF last = "run-finished" THEN <<snapshot, terminal>> ELSE <<snapshot>>
  BY <1>1 DEF Connect, engine, page, table
<1>3. snapshot.kind = "snapshot" /\ terminal.kind = "run-terminal" /\ snapshot.rows = rows
  BY <1>1 DEF Frame
<1>4. /\ <<snapshot>> = Append(<<>>, snapshot)
      /\ <<snapshot, terminal>> = Append(<<snapshot>>, terminal)
  OBVIOUS
<1>5. KnownOK'
  BY <1>2 DEF IInv, KnownOK
<1>6. WireOK'
  <2>1. wire' \in Seq({snapshot, terminal})
    <3>1. <<snapshot>> \in Seq({snapshot, terminal})
      OBVIOUS
    <3>2. <<snapshot, terminal>> \in Seq({snapshot, terminal})
      OBVIOUS
    <3>3. QED
      BY <1>2, <3>1, <3>2
  <2>2. wire' \in Seq(Elements(wire'))
    BY <2>1, OwnElements
  <2>3. ASSUME NEW i \in 1..Len(wire'), wire'[i].kind = "run-terminal"
        PROVE  i = Len(wire') /\ last' = "run-finished"
    BY <1>2, <1>3, <2>3
  <2>4. QED
    BY <1>2, <2>2, <2>3 DEF IInv, WireOK, Elements
<1>7. ASSUME NEW n \in Sections, NEW s
      PROVE  \E e : EndsAs(n, s, wire', e) /\ Current(n, e)
  <2>1. PICK e : e = EntryAfter(s, n, snapshot)
    OBVIOUS
  <2>2. Current(n, e) /\ EntryAfter(e, n, terminal) = e
    <3>1. e = IF n \in WithRows(rows) THEN Entry("completed", InSection(rows, n)) ELSE Unknown
      BY <1>3, <2>1 DEF EntryAfter
    <3>2. n \notin WithRows(rows) => InSection(rows, n) = <<>>
      BY InSectionNone DEF IInv, WireOK
    <3>3. Current(n, e)
      <4>1. Shows(n, InSection(rows, n))
        BY ShowsSnapshot DEF IInv, WireOK
      <4>2. QED
        BY <3>1, <3>2, <4>1 DEF Current, Entry, Unknown
    <3>4. EntryAfter(e, n, terminal) = e
      BY <1>3 DEF EntryAfter
    <3>5. QED
      BY <3>3, <3>4
  <2>3. EndsAs(n, s, <<snapshot>>, e)
    <3>1. EndsAs(n, s, <<>>, s)
      BY NoFrames
    <3>2. <<>> \in Seq({snapshot}) /\ snapshot \in {snapshot}
      OBVIOUS
    <3>3. EndsAs(n, s, Append(<<>>, snapshot), e)
      BY <2>1, <3>1, <3>2, OneFrameMore
    <3>4. QED
      BY <1>4, <3>3
  <2>4. EndsAs(n, s, <<snapshot, terminal>>, e)
    <3>1. <<snapshot>> \in Seq({snapshot, terminal}) /\ terminal \in {snapshot, terminal}
      OBVIOUS
    <3>2. EndsAs(n, s, Append(<<snapshot>>, terminal), EntryAfter(e, n, terminal))
      BY <2>3, <3>1, OneFrameMore
    <3>3. QED
      BY <1>4, <2>2, <3>2
  <2>5. QED
    BY <1>2, <2>2, <2>3, <2>4
<1>8. EntriesOK'
  <2>1. \A n, e : Current(n, e) <=> Current(n, e)'
    BY <1>2, SameTable DEF IInv, Current, IsUnderWay
  <2>2. \A n \in Sections : \E e : EndsAs(n, KnownEntry(n)', wire', e) /\ Current(n, e)'
    BY <1>7, <2>1
  <2>3. QED
    BY <1>2, <2>2 DEF EntriesOK, EndsAs
<1>9. QED
  BY <1>2, <1>5, <1>6, <1>8, SameTable DEF IInv

LEMMA DropStep ==
  ASSUME IInv, Drop
  PROVE  IInv'
<1>1. attached' = FALSE /\ wire' = <<>> /\ connection' = "reconnecting" /\ known' = known
      /\ wire' \in Seq(Elements(wire')) /\ Len(wire') = 0 /\ rows' = rows /\ lost' = lost
  BY EmptySeq DEF Drop, table
<1>2. \A i \in 1..Len(wire') : FALSE
  BY <1>1
<1>3. KnownOK'
  BY <1>1 DEF IInv, KnownOK
<1>4. WireOK'
  <2>1. rows' \in Seq(Elements(rows'))
    BY <1>1 DEF IInv, WireOK, Elements
  <2>2. QED
    BY <1>1, <1>2, <2>1, Zenon DEF WireOK, Elements
<1>5. EntriesOK'
  BY <1>1 DEF EntriesOK
<1>6. QED
  BY <1>1, <1>3, <1>4, <1>5, SameTable DEF IInv

\* A step that changes none of these.
LEMMA SameStep ==
  ASSUME IInv, UNCHANGED <<attached, wire, known, last, at, rows, lost>>,
         connection' = connection \/ (connection = "closed" /\ connection' = "live")
  PROVE  IInv'
<1>1. KnownOK'
  BY DEF IInv, KnownOK
<1>2. WireOK'
  BY DEF IInv, WireOK, Elements
<1>3. EntriesOK'
  <2>1. \A n : KnownEntry(n)' = KnownEntry(n)
    BY DEF KnownEntry, Knows
  <2>2. \A n, e : Current(n, e)' <=> Current(n, e)
    BY SameTable DEF IInv, Current, IsUnderWay
  <2>3. QED
    BY <2>1, <2>2 DEF IInv, EntriesOK, EndsAs
<1>4. QED
  BY <1>1, <1>2, <1>3, SameTable DEF IInv

-----------------------------------------------------------------------------

\* The page is driven by EngineEvents, and so by any engine that implements it.
THEOREM FollowsEvents == ProgressSpec => ESpec
<1>1. ProgressInit => EInit
  BY DEF ProgressInit
<1>2. [ProgressNext]_progressVars => [ENext]_<<last, at>>
  <2> SUFFICES ASSUME [ProgressNext]_progressVars PROVE [ENext]_<<last, at>>
    OBVIOUS
  <2>1. CASE EngineStep
    BY <2>1 DEF EngineStep, Unheard, Started, Completed, Failed, Finished, Ended, ENext
  <2>2. CASE Open \/ Connect \/ Drop \/ Read \/ UNCHANGED progressVars
    BY <2>2 DEF Open, Connect, Drop, Read, progressVars, engine
  <2>3. QED
    BY <2>1, <2>2 DEF ProgressNext
<1>3. QED
  BY <1>1, <1>2, PTL DEF ProgressSpec, ESpec

\* Whatever is lost on the way, the frames that a page has still to read bring what it
\* knows of each section up to date: its status, and all its stored rows.
THEOREM Inductive == ProgressSpec => []IInv
<1>1. IInv /\ [ProgressNext]_progressVars => IInv'
  <2> SUFFICES ASSUME IInv, [ProgressNext]_progressVars PROVE IInv'
    OBVIOUS
  <2>1. CASE EngineStep
    BY <2>1, EngineStepOK
  <2>2. CASE Open
    BY <2>2, SameStep DEF Open, engine, table
  <2>3. CASE Connect
    BY <2>3, ConnectStep
  <2>4. CASE Drop
    BY <2>4, DropStep
  <2>5. CASE Read
    BY <2>5, ReadStep
  <2>6. CASE UNCHANGED progressVars
    BY <2>6, SameStep DEF progressVars, engine, page, table
  <2>7. QED
    BY <2>1, <2>2, <2>3, <2>4, <2>5, <2>6 DEF ProgressNext
<1>2. QED
  BY <1>1, InitOK, PTL DEF ProgressSpec

\* A section that LiveProgress shows as running is the one that the engine is in, once the
\* page has read what it was sent, and none is shown as running after run-terminal: the
\* snapshot of a reconnect takes no section for running.
THEOREM RunningStaysCurrent == ProgressSpec => []RunningIsCurrent
<1>1. IInv => RunningIsCurrent
  <2> SUFFICES ASSUME IInv, NEW n \in Sections, statusOf(n) = "running"
               PROVE  /\ attached /\ wire = <<>> => IsUnderWay(n)
                      /\ connection # "terminal"
    BY DEF RunningIsCurrent
  <2>1. KnownEntry(n).status = "running"
    BY DEF statusOf, KnownEntry
  <2>2. ASSUME attached, wire = <<>> PROVE IsUnderWay(n)
    <3>1. PICK e : EndsAs(n, KnownEntry(n), <<>>, e) /\ Current(n, e)
      BY <2>2 DEF IInv, EntriesOK
    <3>2. e.status = "running"
      BY <2>1, <3>1, NoFrames
    <3>3. QED
      BY <3>1, <3>2 DEF Current
  <2>3. connection # "terminal"
    BY <2>1 DEF IInv, EntriesOK, Current, IsUnderWay, Collecting
  <2>4. QED
    BY <2>2, <2>3
<1>2. QED
  BY <1>1, Inductive, PTL

-----------------------------------------------------------------------------
(* Sorting *)

Keys(m) == [1..m -> Int]

LEMMA BeforeIsStrict ==
  ASSUME NEW m \in Nat, NEW k \in Keys(m)
  PROVE  ~Before(k, k)
BY DEF Before, Keys

LEMMA BeforeIsTransitive ==
  ASSUME NEW m \in Nat, NEW j \in Keys(m), NEW k \in Keys(m), NEW l \in Keys(m),
         Before(j, k), Before(k, l)
  PROVE  Before(j, l)
<1>1. PICK a \in 1..m : j[a] < k[a] /\ \A i \in 1..(a - 1) : j[i] = k[i]
  BY DEF Before, Keys
<1>2. PICK b \in 1..m : k[b] < l[b] /\ \A i \in 1..(b - 1) : k[i] = l[i]
  BY DEF Before, Keys
<1>3. \A i \in 1..m : j[i] \in Int /\ k[i] \in Int /\ l[i] \in Int
  BY DEF Keys
<1>4. CASE a <= b
  <2>1. j[a] < l[a]
    BY <1>1, <1>2, <1>3, <1>4
  <2>2. \A i \in 1..(a - 1) : j[i] = l[i]
    BY <1>1, <1>2, <1>4
  <2>3. QED
    BY <2>1, <2>2 DEF Before, Keys
<1>5. CASE b < a
  <2>1. j[b] < l[b]
    BY <1>1, <1>2, <1>3, <1>5
  <2>2. \A i \in 1..(b - 1) : j[i] = l[i]
    BY <1>1, <1>2, <1>5
  <2>3. QED
    BY <2>1, <2>2 DEF Before, Keys
<1>6. QED
  BY <1>4, <1>5

\* A set of numbers has a least one.
LEMMA Least ==
  ASSUME NEW T \in SUBSET Nat, T # {}
  PROVE  \E m \in T : \A k \in T : m <= k
<1>1. OpToRel(<, Nat) = {pair \in Nat \X Nat : pair[1] < pair[2]}
  BY DEF OpToRel
<1>2. PICK m \in T : \A k \in T : ~(<<k, m>> \in OpToRel(<, Nat))
  BY NatLessThanWellFounded, WFMin
<1>3. ASSUME NEW k \in T PROVE m <= k
  <2>1. k \in Nat /\ m \in Nat /\ <<k, m>> \in Nat \X Nat
    OBVIOUS
  <2>2. ~(k < m)
    BY <1>1, <1>2, <2>1
  <2>3. QED
    BY <2>1, <2>2
<1>4. QED
  BY <1>3

LEMMA BeforeIsTotal ==
  ASSUME NEW m \in Nat, NEW k \in Keys(m), NEW l \in Keys(m), k # l
  PROVE  Before(k, l) \/ Before(l, k)
<1>1. PICK T : T = {i \in 1..m : k[i] # l[i]}
  OBVIOUS
<1>2. T \in SUBSET Nat /\ T # {}
  <2>1. k = [i \in 1..m |-> k[i]] /\ l = [i \in 1..m |-> l[i]]
    BY DEF Keys
  <2>2. \E i \in 1..m : k[i] # l[i]
    BY <2>1
  <2>3. QED
    BY <1>1, <2>2
<1>3. PICK a \in T : \A i \in T : a <= i
  BY <1>2, Least
<1>4. a \in 1..m /\ k[a] # l[a] /\ k[a] \in Int /\ l[a] \in Int
  BY <1>1, <1>3 DEF Keys
<1>5. \A i \in 1..(a - 1) : k[i] = l[i]
  BY <1>1, <1>3, <1>4
<1>6. k[a] < l[a] => Before(k, l)
  BY <1>4, <1>5 DEF Before, Keys
<1>7. l[a] < k[a] => Before(l, k)
  BY <1>4, <1>5 DEF Before, Keys
<1>8. QED
  BY <1>4, <1>6, <1>7

Permutation(p, n) ==
  /\ p \in [1..n -> 1..n]
  /\ \A i, j \in 1..n : p[i] = p[j] => i = j
  /\ \A x \in 1..n : \E i \in 1..n : p[i] = x

\* p lists the places in the order of their keys, and those of equal keys in their own.
Sorts(p, key, n) ==
  \A i, j \in 1..n :
    i < j => Before(key[p[i]], key[p[j]]) \/ (key[p[i]] = key[p[j]] /\ p[i] < p[j])

LEMMA SortedSorts ==
  ASSUME NEW S, NEW list \in Seq(S), NEW m \in Nat, NEW key \in [1..Len(list) -> Keys(m)]
  PROVE  \E p : /\ Permutation(p, Len(list)) /\ Sorts(p, key, Len(list))
                /\ Sorted(list, key) = [n \in 1..Len(list) |-> list[p[n]]]
<1> DEFINE n == Len(list)
           places == 1..n
           isBefore(i, j) == Before(key[i], key[j]) \/ (key[i] = key[j] /\ i < j)
           R == {pair \in places \X places : isBefore(pair[1], pair[2])}
           p == Arranged(places, R)
<1>1. n \in Nat /\ DOMAIN list = places
  OBVIOUS
<1>2. IsFiniteSet(places) /\ Cardinality(places) = n
  <2>1. IsFiniteSet(1..n) /\ Cardinality(1..n) = IF 1 > n THEN 0 ELSE n - 1 + 1
    BY <1>1, FS_Interval
  <2>2. QED
    BY <1>1, <2>1
<1>3. Sorted(list, key) = [i \in places |-> list[p[i]]]
  BY <1>1 DEF Sorted
<1>4. \A i, j \in places : <<i, j>> \in R <=> isBefore(i, j)
  OBVIOUS
<1> HIDE DEF R, n
<1>5. IsOrder(places, R)
  <2>1. \A x \in places : <<x, x>> \notin R
    BY <1>4, BeforeIsStrict DEF n
  <2>2. ASSUME NEW x \in places, NEW y \in places, NEW z \in places,
               <<x, y>> \in R, <<y, z>> \in R
        PROVE  <<x, z>> \in R
    <3>1. key[x] \in Keys(m) /\ key[y] \in Keys(m) /\ key[z] \in Keys(m)
      BY DEF n
    <3>2. isBefore(x, y) /\ isBefore(y, z)
      BY <1>4, <2>2
    <3>3. isBefore(x, z)
      BY <1>1, <3>1, <3>2, BeforeIsTransitive
    <3>4. QED
      BY <1>4, <3>3
  <2>3. ASSUME NEW x \in places, NEW y \in places, x # y PROVE <<x, y>> \in R \/ <<y, x>> \in R
    <3>1. key[x] \in Keys(m) /\ key[y] \in Keys(m)
      BY DEF n
    <3>2. isBefore(x, y) \/ isBefore(y, x)
      BY <1>1, <2>3, <3>1, BeforeIsTotal
    <3>3. QED
      BY <1>4, <3>2
  <2>4. QED
    BY <2>1, <2>2, <2>3 DEF IsOrder
<1>6. /\ p \in [places -> places]
      /\ \A x \in places : Place(places, R, x) \in places /\ p[Place(places, R, x)] = x
      /\ \A i, j \in places : i < j => <<p[i], p[j]>> \in R
  BY <1>2, <1>5, ArrangedInOrder
<1> HIDE DEF p
<1>7. Permutation(p, n)
  <2>1. ASSUME NEW i \in places, NEW j \in places, p[i] = p[j] PROVE i = j
    <3>1. <<p[i], p[i]>> \notin R
      BY <1>5, <1>6 DEF IsOrder
    <3>2. ~(i < j) /\ ~(j < i)
      BY <1>6, <2>1, <3>1
    <3>3. QED
      BY <1>1, <3>2
  <2>2. \A x \in places : \E i \in places : p[i] = x
    BY <1>6
  <2>3. QED
    BY <1>6, <2>1, <2>2 DEF Permutation
<1>8. Sorts(p, key, n)
  <2>1. \A i, j \in places : i < j => isBefore(p[i], p[j])
    BY <1>4, <1>6
  <2>2. QED
    BY <2>1 DEF Sorts
<1>9. QED
  BY <1>3, <1>7, <1>8 DEF n

-----------------------------------------------------------------------------
(* The rows *)

RowType ==
  [section : Sections, base : Range(Bases), status : DOMAIN StatusOrder, number : Nat]

RowsOK == at \in 0..NumSections /\ rows \in Seq(RowType)

LEMMA RowsAreTyped == ProgressSpec => []RowsOK
<1>1. ProgressInit => RowsOK
  BY ProgressAssumption DEF ProgressInit, EInit, RowsOK
<1>2. IInv /\ RowsOK /\ [ProgressNext]_progressVars => RowsOK'
  <2> SUFFICES ASSUME IInv, RowsOK, [ProgressNext]_progressVars PROVE RowsOK'
    OBVIOUS
  <2>1. ASSUME rows' = rows, at' = at PROVE RowsOK'
    BY <2>1 DEF RowsOK
  <2>2. CASE Unheard
    BY <2>1, <2>2 DEF Unheard, RunStarted, Collected, table
  <2>3. CASE Started
    BY <2>3, ProgressAssumption DEF Started, SectionStarted, RowsOK, table
  <2>4. CASE Failed
    BY <2>1, <2>4 DEF Failed, SectionError, table
  <2>5. CASE Finished
    BY <2>1, <2>5 DEF Finished, SectionFinished, table
  <2>6. CASE Ended
    BY <2>1, <2>6 DEF Ended, RunFinished, table
  <2>7. ASSUME at > 0, NEW input \in Inputs[at], Completed(input) PROVE RowsOK'
    <3>1. at \in Sections
      BY <2>7, ProgressAssumption DEF RowsOK, Sections
    <3>2. input.base \in Range(Bases) /\ input.status \in DOMAIN StatusOrder
      BY <2>7, <3>1, ViewsAssumption
    <3>3. PICK same : same = Like(at, input.base)
      OBVIOUS
    <3>4. Cardinality(same) + 1 \in Nat
      BY <3>3, EmittedIsFinite DEF IInv, TableOK, WireOK
    <3>5. Row(input) = [section |-> at, base |-> input.base, status |-> input.status,
                        number |-> Cardinality(same) + 1]
      BY <3>3 DEF Row
    <3>6. Row(input) \in RowType
      BY <3>1, <3>2, <3>4, <3>5 DEF RowType
    <3>7. (rows' = Append(rows, Row(input)) \/ rows' = rows) /\ at' = at
      BY <2>7 DEF Completed, Collected
    <3>8. QED
      BY <3>6, <3>7 DEF RowsOK
  <2>8. CASE Open \/ Connect \/ Drop \/ Read \/ UNCHANGED progressVars
    BY <2>1, <2>8 DEF Open, Connect, Drop, Read, progressVars, engine, table
  <2>9. QED
    BY <2>2, <2>3, <2>4, <2>5, <2>6, <2>7, <2>8 DEF ProgressNext, EngineStep
<1>3. QED
  BY <1>1, <1>2, Inductive, PTL DEF ProgressSpec

LEMMA FindingKeys ==
  ASSUME NEW row \in RowType
  PROVE  /\ findingSortKey(row) \in Keys(4)
         /\ severityRank(row) \in Int /\ StatusOrder[row.status] \in Int
         /\ Alphabetical(row.base) \in Int /\ row.number \in Int
<1>1. severityRank(row) \in Int
  BY ReportAssumption DEF severityRank, Unranked
<1>2. StatusOrder[row.status] \in Int
  BY DEF RowType, StatusOrder
<1>3. Alphabetical(row.base) \in Int
  <2>1. row.base \in Range(Bases)
    BY DEF RowType
  <2>2. \E i \in DOMAIN Bases : Bases[i] = row.base
    BY <2>1 DEF Range
  <2>3. Alphabetical(row.base) \in DOMAIN Bases
    BY <2>2 DEF Alphabetical
  <2>4. QED
    BY <2>3, ReportAssumption
<1>4. row.number \in Int
  BY DEF RowType
<1>5. findingSortKey(row) \in Keys(4)
  BY <1>1, <1>2, <1>3, <1>4 DEF findingSortKey, Keys
<1>6. QED
  BY <1>1, <1>2, <1>3, <1>4, <1>5

FindingKeysOf(list) == [i \in DOMAIN list |-> findingSortKey(list[i])]

\* The findings are the rows of the run in another order.
LEMMA FindingsOrder ==
  ASSUME NEW list \in Seq(RowType)
  PROVE  \E p : /\ Permutation(p, Len(list)) /\ Sorts(p, FindingKeysOf(list), Len(list))
                /\ findings(list) = [n \in 1..Len(list) |-> list[p[n]]]
                /\ findings(list) \in Seq(RowType) /\ Len(findings(list)) = Len(list)
<1>1. FindingKeysOf(list) \in [1..Len(list) -> Keys(4)]
  <2>1. \A i \in 1..Len(list) : list[i] \in RowType
    OBVIOUS
  <2>2. \A i \in 1..Len(list) : findingSortKey(list[i]) \in Keys(4)
    BY <2>1, FindingKeys
  <2>3. QED
    BY <2>2 DEF FindingKeysOf
<1>2. PICK p : /\ Permutation(p, Len(list)) /\ Sorts(p, FindingKeysOf(list), Len(list))
               /\ Sorted(list, FindingKeysOf(list)) = [n \in 1..Len(list) |-> list[p[n]]]
  <2>1. PICK key, m : key = FindingKeysOf(list) /\ m = 4
    OBVIOUS
  <2>2. m \in Nat /\ key \in [1..Len(list) -> Keys(m)]
    BY <1>1, <2>1
  <2>3. \E p : /\ Permutation(p, Len(list)) /\ Sorts(p, key, Len(list))
               /\ Sorted(list, key) = [n \in 1..Len(list) |-> list[p[n]]]
    BY <2>2, SortedSorts
  <2>4. QED
    BY <2>1, <2>3
<1>3. findings(list) = [n \in 1..Len(list) |-> list[p[n]]]
  BY <1>2 DEF findings, FindingKeysOf
<1>4. \A n \in 1..Len(list) : list[p[n]] \in RowType
  <2>1. p \in [1..Len(list) -> 1..Len(list)]
    BY <1>2 DEF Permutation
  <2>2. \A i \in 1..Len(list) : list[i] \in RowType
    OBVIOUS
  <2>3. QED
    BY <2>1, <2>2
<1>5. findings(list) \in Seq(RowType) /\ Len(findings(list)) = Len(list)
  BY <1>3, <1>4
<1>6. QED
  BY <1>2, <1>3, <1>5

-----------------------------------------------------------------------------
(* The page and the report *)

LEMMA RowsOfSection ==
  ASSUME NEW list \in Seq(RowType), NEW n
  PROVE  Range(InSection(list, n)) = {row \in Range(list) : row.section = n}
<1>1. PICK mine, a : mine = Mine(list, n) /\ a = InTurn(mine)
  OBVIOUS
<1>2. /\ mine \in SUBSET (1..Len(list)) /\ Cardinality(mine) \in Nat
      /\ a \in [1..Cardinality(mine) -> mine]
      /\ InSection(list, n) = [k \in 1..Cardinality(mine) |-> list[a[k]]]
      /\ \A i \in mine : \E k \in 1..Cardinality(mine) : a[k] = i
  BY <1>1, InSectionOrder
<1>3. DOMAIN list = 1..Len(list)
  OBVIOUS
<1>4. \A i \in DOMAIN list : i \in mine <=> list[i].section = n
  BY <1>1 DEF Mine
<1>5. ASSUME NEW row \in Range(InSection(list, n)) PROVE row \in Range(list) /\ row.section = n
  <2>1. PICK k \in 1..Cardinality(mine) : row = list[a[k]]
    BY <1>2 DEF Range
  <2>2. a[k] \in mine /\ a[k] \in DOMAIN list
    BY <1>2, <1>3
  <2>3. QED
    BY <1>4, <2>1, <2>2 DEF Range
<1>6. ASSUME NEW row \in Range(list), row.section = n PROVE row \in Range(InSection(list, n))
  <2>1. PICK i \in DOMAIN list : row = list[i]
    BY DEF Range
  <2>2. PICK k \in 1..Cardinality(mine) : a[k] = i
    BY <1>2, <1>4, <1>6, <2>1
  <2>3. QED
    BY <1>2, <2>1, <2>2 DEF Range
<1>7. QED
  BY <1>5, <1>6

LEMMA FindingsAreRows ==
  ASSUME NEW list \in Seq(RowType)
  PROVE  Range(findings(list)) = Range(list)
<1>1. PICK p : /\ Permutation(p, Len(list))
               /\ findings(list) = [n \in 1..Len(list) |-> list[p[n]]]
  BY FindingsOrder
<1>2. /\ \A i \in 1..Len(list) : p[i] \in 1..Len(list)
      /\ \A x \in 1..Len(list) : \E i \in 1..Len(list) : p[i] = x
  BY <1>1 DEF Permutation
<1>3. DOMAIN list = 1..Len(list)
  OBVIOUS
<1>4. ASSUME NEW row \in Range(findings(list)) PROVE row \in Range(list)
  <2>1. PICK n \in 1..Len(list) : row = list[p[n]]
    BY <1>1 DEF Range
  <2>2. QED
    BY <1>2, <1>3, <2>1 DEF Range
<1>5. ASSUME NEW row \in Range(list) PROVE row \in Range(findings(list))
  <2>1. PICK i \in 1..Len(list) : row = list[i]
    BY <1>3 DEF Range
  <2>2. PICK n \in 1..Len(list) : p[n] = i
    BY <1>2
  <2>3. findings(list)[n] = row /\ n \in DOMAIN findings(list)
    BY <1>1, <2>1, <2>2
  <2>4. QED
    BY <2>3 DEF Range
<1>6. QED
  BY <1>4, <1>5

\* No stored row is counted twice under its section.
LEMMA RowsCountOnce ==
  ASSUME NEW list \in Seq(RowType), IsInjective(list), NEW n
  PROVE  Cardinality({row \in Range(list) : row.section = n}) = Cardinality(Mine(list, n))
<1>1. PICK mine, T : mine = Mine(list, n) /\ T = {row \in Range(list) : row.section = n}
  OBVIOUS
<1>2. mine \in SUBSET DOMAIN list /\ IsFiniteSet(mine)
  BY <1>1, InSectionOrder
<1> DEFINE f == [i \in mine |-> list[i]]
<1>3. f \in Bijection(mine, T)
  <2>1. \A i \in mine : f[i] \in T
    BY <1>1, <1>2 DEF Mine, Range
  <2>2. \A i, j \in mine : f[i] = f[j] => i = j
    BY <1>2 DEF IsInjective
  <2>3. \A t \in T : \E i \in mine : f[i] = t
    BY <1>1 DEF Mine, Range
  <2>4. QED
    BY <2>1, <2>2, <2>3 DEF Bijection, Injection, Surjection, IsInjective
<1>4. ExistsBijection(mine, T)
  BY <1>3 DEF ExistsBijection
<1>5. QED
  BY <1>1, <1>2, <1>4, FS_Bijection

\* A page that has been told of the end of its run lists under each section what the
\* report lists there, wherever its connection was lost, and beyond that only checks whose
\* insert failed.
THEOREM PageShowsReport == ProgressSpec => []PageMatchesReport
<1>1. IInv /\ RowsOK => PageMatchesReport
  <2> SUFFICES ASSUME IInv, RowsOK, connection = "terminal", NEW n \in Sections,
                      NEW stored, stored = Range(Checks(n)) \ lost
               PROVE  /\ IsInjective(Checks(n))
                      /\ stored = Range(InSection(findings(rows), n))
                      /\ Cardinality(stored) =
                           IF n \in DOMAIN sections(rows) THEN sections(rows)[n] ELSE 0
    BY DEF PageMatchesReport
  <2>1. PICK list : list = rows /\ list \in Seq(RowType)
    BY DEF RowsOK
  <2>2. Shows(n, Checks(n))
    BY DEF IInv, EntriesOK, Current, KnownEntry, Checks, Unknown, Entry
  <2>3. IsInjective(Checks(n)) /\ stored = Range(InSection(list, n))
    BY <2>1, <2>2 DEF Shows
  <2>4. stored = {row \in Range(list) : row.section = n}
    BY <2>1, <2>3, RowsOfSection
  <2>5. stored = Range(InSection(findings(list), n))
    <3>1. findings(list) \in Seq(RowType)
      BY <2>1, FindingsOrder
    <3>2. PICK found : found = findings(list) /\ found \in Seq(RowType)
      BY <3>1
    <3>3. Range(InSection(found, n)) = {row \in Range(found) : row.section = n}
      BY <3>2, RowsOfSection
    <3>4. QED
      BY <2>1, <2>4, <3>2, <3>3, FindingsAreRows
  <2>6. Cardinality(stored) = IF n \in DOMAIN sections(list) THEN sections(list)[n] ELSE 0
    <3>1. Cardinality(stored) = Cardinality(Mine(list, n))
      BY <2>1, <2>4, RowsCountOnce DEF IInv, TableOK
    <3>2. DOMAIN sections(list) = WithRows(list)
      BY DEF sections, WithRows
    <3>3. n \in WithRows(list) => sections(list)[n] = Cardinality(Mine(list, n))
      BY DEF sections, WithRows, Mine
    <3>4. n \notin WithRows(list) => Cardinality(Mine(list, n)) = 0
      <4>1. n \notin WithRows(list) => Mine(list, n) = {}
        BY DEF WithRows, Mine
      <4>2. QED
        BY <4>1, FS_EmptySet
    <3>5. QED
      BY <3>1, <3>2, <3>3, <3>4
  <2>7. QED
    BY <2>1, <2>3, <2>5, <2>6
<1>2. QED
  BY <1>1, Inductive, RowsAreTyped, PTL

-----------------------------------------------------------------------------
(* Frameworks *)

LEMMA ControlsAreFinite ==
  ASSUME NEW fw
  PROVE  IsFiniteSet(DOMAIN controls(fw))
<1>1. PICK entries : entries = {e \in canonicalRegistryChecks : e.framework = fw}
  OBVIOUS
<1>2. entries \in SUBSET Registry
  BY <1>1 DEF canonicalRegistryChecks
<1>3. IsFiniteSet(entries)
  BY <1>2, ReportAssumption, FS_Subset
<1>4. PICK ids : ids = {e.controls : e \in entries}
  OBVIOUS
<1>5. IsFiniteSet(ids)
  <2>1. PICK f : f = [e \in entries |-> e.controls]
    OBVIOUS
  <2>2. f \in Surjection(entries, ids)
    BY <1>4, <2>1 DEF Surjection
  <2>3. QED
    BY <1>3, <2>2, FS_Surjection
<1>6. \A T \in ids : IsFiniteSet(T)
  BY <1>2, <1>4, ReportAssumption
<1>7. IsFiniteSet(UNION ids)
  BY <1>5, <1>6, FS_UNION
<1>8. DOMAIN controls(fw) = UNION ids
  BY <1>1, <1>4 DEF controls
<1>9. QED
  BY <1>7, <1>8

Mapped(fw, list) ==
  {i \in DOMAIN list : \E e \in canonicalRegistryChecks :
                         e.framework = fw /\ e.base = list[i].base /\ e.controls # {}}

\* The base ids of a framework are those that map to one of its controls.
LEMMA IdsOfFramework ==
  ASSUME NEW fw, NEW base
  PROVE  (\E c \in DOMAIN controls(fw) : base \in controls(fw)[c])
           <=> \E e \in canonicalRegistryChecks :
                 e.framework = fw /\ e.base = base /\ e.controls # {}
<1>1. PICK entries : entries = {e \in canonicalRegistryChecks : e.framework = fw}
  OBVIOUS
<1>2. controls(fw) = [c \in UNION {e.controls : e \in entries} |->
                        {e.base : e \in {f \in entries : c \in f.controls}}]
  BY <1>1 DEF controls
<1>3. ASSUME NEW c \in DOMAIN controls(fw), base \in controls(fw)[c]
      PROVE  \E e \in entries : e.base = base /\ e.controls # {}
  BY <1>2, <1>3
<1>4. ASSUME NEW e \in entries, e.base = base, e.controls # {}
      PROVE  \E c \in DOMAIN controls(fw) : base \in controls(fw)[c]
  <2>1. PICK c : c \in e.controls
    BY <1>4
  <2>2. c \in DOMAIN controls(fw)
    BY <1>2, <2>1
  <2>3. e \in {f \in entries : c \in f.controls}
    BY <2>1
  <2>4. e.base \in {g.base : g \in {f \in entries : c \in f.controls}}
    BY <2>3
  <2>5. controls(fw)[c] = {g.base : g \in {f \in entries : c \in f.controls}}
    BY <1>2, <2>2
  <2>6. QED
    BY <1>4, <2>2, <2>4, <2>5
<1>5. QED
  BY <1>1, <1>3, <1>4

\* The drill-down has each mapped row once: it leads from the one to the other.
LEMMA DrillDownCountsOnce ==
  ASSUME NEW list \in Seq(RowType), NEW fw, NEW found, found = findings(list)
  PROVE  /\ IsFiniteSet(drillDown(fw, found))
         /\ Cardinality(drillDown(fw, found)) = Cardinality(Mapped(fw, list))
<1> DEFINE ids == UNION {controls(fw)[c] : c \in DOMAIN controls(fw)}
           mapped == Mapped(fw, list)
           drill == drillDown(fw, found)
<1>1. PICK p : Permutation(p, Len(list)) /\ found = [n \in 1..Len(list) |-> list[p[n]]]
  BY FindingsOrder
<1>2. /\ p \in [1..Len(list) -> 1..Len(list)]
      /\ \A i, j \in 1..Len(list) : p[i] = p[j] => i = j
      /\ \A x \in 1..Len(list) : \E i \in 1..Len(list) : p[i] = x
  BY <1>1 DEF Permutation
<1>3. DOMAIN list = 1..Len(list) /\ DOMAIN found = 1..Len(list) /\ Len(list) \in Nat
  BY <1>1
<1>4. mapped \in SUBSET (1..Len(list)) /\ IsFiniteSet(mapped)
  <2>1. mapped \in SUBSET DOMAIN list
    BY DEF Mapped
  <2>2. QED
    BY <1>3, <2>1, FinitePlaces
<1>5. \A i \in 1..Len(list) : i \in mapped <=> list[i].base \in ids
  <2>1. \A base : base \in ids <=> \E c \in DOMAIN controls(fw) : base \in controls(fw)[c]
    OBVIOUS
  <2>2. QED
    BY <1>3, <2>1, IdsOfFramework DEF Mapped
<1>6. drill = {d \in ids \X (1..Len(list)) : found[d[2]].base = d[1]}
  BY <1>3 DEF drillDown
<1> HIDE DEF drill, ids, mapped
<1> DEFINE f == [d \in drill |-> p[d[2]]]
<1>7. ASSUME NEW d \in drill
      PROVE  /\ d[1] \in ids /\ d[2] \in 1..Len(list) /\ d = <<d[1], d[2]>>
             /\ list[p[d[2]]].base = d[1] /\ p[d[2]] \in mapped
  <2>1. d[1] \in ids /\ d[2] \in 1..Len(list) /\ d = <<d[1], d[2]>> /\ found[d[2]].base = d[1]
    BY <1>6
  <2>2. found[d[2]] = list[p[d[2]]] /\ p[d[2]] \in 1..Len(list)
    BY <1>1, <1>2, <2>1
  <2>3. QED
    BY <1>5, <2>1, <2>2
<1>8. f \in [drill -> mapped]
  BY <1>7
<1>9. ASSUME NEW c \in drill, NEW d \in drill, f[c] = f[d] PROVE c = d
  <2>1. p[c[2]] = p[d[2]]
    BY <1>9
  <2>2. c[2] = d[2] /\ c[1] = d[1]
    BY <1>2, <1>7, <2>1
  <2>3. QED
    BY <1>7, <2>2
<1>10. ASSUME NEW x \in mapped PROVE \E d \in drill : f[d] = x
  <2>1. PICK i \in 1..Len(list) : p[i] = x
    BY <1>2, <1>4
  <2>2. found[i].base \in ids
    BY <1>1, <1>4, <1>5, <2>1
  <2>3. <<found[i].base, i>> \in drill
    BY <1>6, <2>2
  <2>4. QED
    BY <2>1, <2>3
<1> HIDE DEF f
<1>11. f \in Injection(drill, mapped) /\ f \in Surjection(drill, mapped)
  <2>1. f \in Injection(drill, mapped)
    BY <1>8, <1>9 DEF Injection, IsInjective
  <2>2. f \in Surjection(drill, mapped)
    BY <1>8, <1>10 DEF Surjection
  <2>3. QED
    BY <2>1, <2>2
<1>12. IsFiniteSet(drill) /\ Cardinality(drill) = Cardinality(mapped)
  BY <1>4, <1>11, FS_Injection
<1>13. QED
  BY <1>12 DEF drill, mapped

\* The score of a framework counts each check of the run once, and there are checks to count
\* exactly if a control is covered.
THEOREM ScoresCountOnce == ProgressSpec => []FrameworksCountOnce
<1>1. RowsOK => FrameworksCountOnce
  <2> SUFFICES ASSUME RowsOK, NEW fw \in frameworks
               PROVE  LET score == computeFrameworkScore(fw, rows)
                      IN  /\ score.checks = Cardinality(Mapped(fw, rows))
                          /\ score.checks = 0 <=> score.controlsCovered = 0
                          /\ score.controlsCovered <= score.controlsTotal
    BY DEF FrameworksCountOnce, Mapped
  <2>1. PICK list, found : list = rows /\ list \in Seq(RowType) /\ found = findings(list)
    BY DEF RowsOK
  <2>2. PICK all : all = DOMAIN controls(fw) /\ IsFiniteSet(all)
    BY ControlsAreFinite
  <2>3. PICK covered : covered = {c \in all : controls(fw)[c] \cap {found[i].base : i \in DOMAIN found} # {}}
    OBVIOUS
  <2>4. covered \in SUBSET all
    BY <2>3
  <2>5. IsFiniteSet(covered) /\ Cardinality(covered) <= Cardinality(all)
    BY <2>2, <2>4, FS_Subset
  <2>6. PICK drill : drill = drillDown(fw, found)
    OBVIOUS
  <2>7. IsFiniteSet(drill) /\ Cardinality(drill) = Cardinality(Mapped(fw, list))
    BY <2>1, <2>6, DrillDownCountsOnce
  <2>8. covered = {} <=> drill = {}
    <3> DEFINE ids == UNION {controls(fw)[c] : c \in all}
    <3>1. drill = {d \in ids \X (DOMAIN found) : found[d[2]].base = d[1]}
      BY <2>2, <2>6 DEF drillDown
    <3>2. ASSUME NEW c \in covered PROVE drill # {}
      <4>1. PICK i \in DOMAIN found : found[i].base \in controls(fw)[c]
        BY <2>3
      <4>2. found[i].base \in ids
        BY <2>3, <4>1
      <4>3. <<found[i].base, i>> \in drill
        BY <3>1, <4>2
      <4>4. QED
        BY <4>3
    <3>3. ASSUME NEW d \in drill PROVE covered # {}
      <4>1. d[1] \in ids /\ d[2] \in DOMAIN found /\ found[d[2]].base = d[1]
        BY <3>1
      <4>2. PICK c \in all : d[1] \in controls(fw)[c]
        BY <4>1
      <4>3. d[1] \in controls(fw)[c] \cap {found[i].base : i \in DOMAIN found}
        BY <4>1, <4>2
      <4>4. c \in covered
        BY <2>3, <4>2, <4>3
      <4>5. QED
        BY <4>4
    <3>4. QED
      BY <3>2, <3>3
  <2>9. /\ computeFrameworkScore(fw, list).checks = Cardinality(drill)
        /\ computeFrameworkScore(fw, list).controlsCovered = Cardinality(covered)
        /\ computeFrameworkScore(fw, list).controlsTotal = Cardinality(all)
    BY <2>1, <2>2, <2>3, <2>6 DEF computeFrameworkScore
  <2>10. Cardinality(drill) = 0 <=> Cardinality(covered) = 0
    BY <2>5, <2>7, <2>8, FS_EmptySet
  <2>11. QED
    BY <2>1, <2>5, <2>7, <2>9, <2>10
<1>2. QED
  BY <1>1, RowsAreTyped, PTL

-----------------------------------------------------------------------------
(* The remediation list *)

OpenKey(row) == <<severityRank(row), StatusOrder[row.status]>>

\* What the second sort leaves together the first one has ordered.
LEMMA OpenThenFinding ==
  ASSUME NEW x \in RowType, NEW y \in RowType
  PROVE  /\ OpenKey(x) \in Keys(2) /\ OpenKey(y) \in Keys(2)
         /\ Before(OpenKey(x), OpenKey(y)) => Before(Urgency(x), Urgency(y))
         /\ OpenKey(x) = OpenKey(y) /\ Before(findingSortKey(x), findingSortKey(y))
              => Before(Urgency(x), Urgency(y))
         /\ OpenKey(x) = OpenKey(y) /\ findingSortKey(x) = findingSortKey(y)
              => Urgency(x) = Urgency(y)
<1>1. PICK a, b, c, d : /\ a = severityRank(x) /\ b = StatusOrder[x.status]
                        /\ c = Alphabetical(x.base) /\ d = x.number
                        /\ a \in Int /\ b \in Int /\ c \in Int /\ d \in Int
  BY FindingKeys
<1>2. PICK e, f, g, h : /\ e = severityRank(y) /\ f = StatusOrder[y.status]
                        /\ g = Alphabetical(y.base) /\ h = y.number
                        /\ e \in Int /\ f \in Int /\ g \in Int /\ h \in Int
  BY FindingKeys
<1>3. /\ OpenKey(x) = <<a, b>> /\ OpenKey(y) = <<e, f>>
      /\ findingSortKey(x) = <<b, a, c, d>> /\ findingSortKey(y) = <<f, e, g, h>>
      /\ Urgency(x) = <<a, b, c, d>> /\ Urgency(y) = <<e, f, g, h>>
  BY <1>1, <1>2 DEF OpenKey, findingSortKey, Urgency
<1>4. <<a, b>> \in Keys(2) /\ <<e, f>> \in Keys(2)
  BY <1>1, <1>2 DEF Keys
<1>5. Before(<<a, b>>, <<e, f>>) <=> (a < e \/ (a = e /\ b < f))
  BY <1>1, <1>2 DEF Before
<1>6. Before(<<a, b, c, d>>, <<e, f, g, h>>)
        <=> \/ a < e
            \/ a = e /\ b < f
            \/ a = e /\ b = f /\ c < g
            \/ a = e /\ b = f /\ c = g /\ d < h
  BY <1>1, <1>2 DEF Before
<1>7. <<a, b>> = <<e, f>> <=> (a = e /\ b = f)
  OBVIOUS
<1>8. <<b, a, c, d>> = <<f, e, g, h>> => <<a, b, c, d>> = <<e, f, g, h>>
  OBVIOUS
<1>9. Before(<<a, b>>, <<e, f>>) => Before(<<a, b, c, d>>, <<e, f, g, h>>)
  BY <1>1, <1>2, <1>5, <1>6
<1>10. a = e /\ b = f /\ Before(<<b, a, c, d>>, <<f, e, g, h>>)
         => Before(<<a, b, c, d>>, <<e, f, g, h>>)
  <2>1. Before(<<b, a, c, d>>, <<f, e, g, h>>)
          <=> \/ b < f
              \/ b = f /\ a < e
              \/ b = f /\ a = e /\ c < g
              \/ b = f /\ a = e /\ c = g /\ d < h
    BY <1>1, <1>2 DEF Before
  <2>2. QED
    BY <1>1, <1>2, <1>6, <2>1
<1>11. QED
  BY <1>3, <1>4, <1>7, <1>8, <1>9, <1>10

OpenPlaces(list) == {i \in DOMAIN list : list[i].status \in {"Fail", "Warning"}}

\* Sorting changes no count.
LEMMA OpenCount ==
  ASSUME NEW list \in Seq(RowType), NEW found, found = findings(list)
  PROVE  Cardinality(OpenPlaces(found)) = summary(list).fail + summary(list).warning
<1> DEFINE places == OpenPlaces(list)
           there == OpenPlaces(found)
<1>1. PICK p : Permutation(p, Len(list)) /\ found = [n \in 1..Len(list) |-> list[p[n]]]
  BY FindingsOrder
<1>2. /\ p \in [1..Len(list) -> 1..Len(list)]
      /\ \A i, j \in 1..Len(list) : p[i] = p[j] => i = j
      /\ \A x \in 1..Len(list) : \E i \in 1..Len(list) : p[i] = x
  BY <1>1 DEF Permutation
<1>3. DOMAIN list = 1..Len(list) /\ DOMAIN found = 1..Len(list) /\ Len(list) \in Nat
  BY <1>1
<1>4. places \in SUBSET (1..Len(list)) /\ IsFiniteSet(places)
  <2>1. places \in SUBSET DOMAIN list
    BY DEF OpenPlaces
  <2>2. QED
    BY <1>3, <2>1, FinitePlaces
<1>5. \A i \in 1..Len(list) : i \in there <=> p[i] \in places
  BY <1>1, <1>2, <1>3 DEF OpenPlaces
<1>6. there \in SUBSET (1..Len(list))
  BY <1>3 DEF OpenPlaces
<1> HIDE DEF places, there
<1> DEFINE f == [i \in there |-> p[i]]
<1>7. f \in Injection(there, places) /\ f \in Surjection(there, places)
  <2>1. f \in [there -> places]
    BY <1>5, <1>6
  <2>2. \A i, j \in there : f[i] = f[j] => i = j
    BY <1>2, <1>6
  <2>3. ASSUME NEW x \in places PROVE \E i \in there : f[i] = x
    <3>1. PICK i \in 1..Len(list) : p[i] = x
      BY <1>2, <1>4
    <3>2. QED
      BY <1>5, <3>1
  <2>4. QED
    BY <2>1, <2>2, <2>3 DEF Injection, IsInjective, Surjection
<1>8. Cardinality(there) = Cardinality(places)
  <2> HIDE DEF f
  <2>1. QED
    BY <1>4, <1>7, FS_Injection
<1>9. PICK fails, warnings : /\ fails = {i \in DOMAIN list : list[i].status \in {"Fail"}}
                             /\ warnings = {i \in DOMAIN list : list[i].status \in {"Warning"}}
  OBVIOUS
<1>10. IsFiniteSet(fails) /\ IsFiniteSet(warnings)
  BY <1>9, FinitePlaces
<1>11. fails \cup warnings = places /\ fails \cap warnings = {}
  BY <1>9 DEF places, OpenPlaces
<1>12. Cardinality(places) = Cardinality(fails) + Cardinality(warnings)
  <2>1. Cardinality(places) = Cardinality(fails) + Cardinality(warnings) - Cardinality({})
    <3>1. Cardinality(fails \cup warnings) =
            Cardinality(fails) + Cardinality(warnings) - Cardinality(fails \cap warnings)
      BY <1>10, FS_Union
    <3>2. QED
      BY <1>11, <3>1
  <2>2. Cardinality(fails) \in Nat /\ Cardinality(warnings) \in Nat /\ Cardinality({}) = 0
    BY <1>10, FS_CardinalityType, FS_EmptySet
  <2>3. QED
    BY <2>1, <2>2
<1>13. summary(list).fail = Count(list, {"Fail"}) /\ summary(list).warning = Count(list, {"Warning"})
  BY DEF summary
<1>14. Count(list, {"Fail"}) = Cardinality(fails) /\ Count(list, {"Warning"}) = Cardinality(warnings)
  BY <1>9 DEF Count
<1>15. QED
  BY <1>8, <1>12, <1>13, <1>14 DEF there

\* The remediation list has each failed and warned check once, the most severe first, among
\* equals Fail before Warning, and then by check id.
THEOREM RemediationStaysSorted == ProgressSpec => []RemediationIsSorted
<1>1. RowsOK => RemediationIsSorted
  <2> SUFFICES ASSUME RowsOK
               PROVE  LET items == remediationItems(rows)
                      IN  /\ Len(items) = summary(rows).fail + summary(rows).warning
                          /\ Range(items) = {row \in Range(rows) : row.status \in {"Fail", "Warning"}}
                          /\ \A i, j \in DOMAIN items :
                               i < j => Before(Urgency(items[i]), Urgency(items[j]))
                                        \/ Urgency(items[i]) = Urgency(items[j])
    BY DEF RemediationIsSorted
  <2>1. PICK list, found, n : /\ list = rows /\ list \in Seq(RowType) /\ n = Len(list)
                              /\ found = findings(list)
    BY DEF RowsOK
  <2>2. PICK p : /\ Permutation(p, n) /\ Sorts(p, FindingKeysOf(list), n)
                 /\ found = [i \in 1..n |-> list[p[i]]]
                 /\ found \in Seq(RowType) /\ Len(found) = n
    BY <2>1, FindingsOrder
  <2>Found. found \in Seq(RowType) /\ Len(found) = n
    BY <2>2
  <2>3. DOMAIN list = 1..n /\ DOMAIN found = 1..n /\ n \in Nat /\ p \in [1..n -> 1..n]
    BY <2>1, <2>2 DEF Permutation
  <2>4. PICK places, c, q : /\ places = OpenPlaces(found) /\ c = Cardinality(places)
                            /\ q = InTurn(places)
    OBVIOUS
  <2>5. /\ places \in SUBSET (1..n) /\ places \in SUBSET Int /\ IsFiniteSet(places)
        /\ \A i \in 1..n : i \in places <=> found[i].status \in {"Fail", "Warning"}
    <3>1. places \in SUBSET DOMAIN found
      BY <2>4 DEF OpenPlaces
    <3>2. places \in SUBSET Int /\ IsFiniteSet(places)
      BY <2>Found, <3>1, FinitePlaces
    <3>3. QED
      BY <2>3, <2>4, <3>1, <3>2 DEF OpenPlaces
  <2>6. PICK open : open = Picked(found, places)
    OBVIOUS
  <2>7. /\ c \in Nat /\ q \in [1..c -> places]
        /\ open = [k \in 1..c |-> found[q[k]]]
        /\ \A x \in places : \E k \in 1..c : q[k] = x
        /\ \A k, l \in 1..c : k < l => q[k] < q[l]
    BY <2>4, <2>5, <2>6, PickedOrder
  <2>8. \A k \in 1..c : open[k] \in RowType /\ open[k] = found[q[k]]
    <3>1. \A i \in 1..n : found[i] \in RowType
      BY <2>Found
    <3>2. QED
      BY <2>5, <2>7, <3>1
  <2>9. open \in Seq(RowType) /\ Len(open) = c /\ DOMAIN open = 1..c
    BY <2>7, <2>8
  <2>10. PICK key, m : key = [i \in DOMAIN open |-> OpenKey(open[i])] /\ m = 2
    OBVIOUS
  <2>11. m \in Nat /\ key \in [1..Len(open) -> Keys(m)]
    <3>1. \A k \in 1..c : OpenKey(open[k]) \in Keys(2)
      BY <2>8, OpenThenFinding
    <3>2. QED
      BY <2>9, <2>10, <3>1
  <2>12. PICK r : /\ Permutation(r, c) /\ Sorts(r, key, c)
                  /\ Sorted(open, key) = [i \in 1..c |-> open[r[i]]]
    BY <2>9, <2>11, SortedSorts
  <2>13. /\ r \in [1..c -> 1..c] /\ \A x \in 1..c : \E i \in 1..c : r[i] = x
    BY <2>12 DEF Permutation
  <2>14. PICK items : items = remediationItems(list)
    OBVIOUS
  <2>15. items = [i \in 1..c |-> open[r[i]]]
    <3>1. remediationItems(list) = Sorted(open, key)
      BY <2>1, <2>4, <2>6, <2>10 DEF remediationItems, OpenPlaces, OpenKey
    <3>2. QED
      BY <2>12, <2>14, <3>1
  <2>16. Len(items) = summary(list).fail + summary(list).warning
    <3>1. Len(items) = c
      BY <2>7, <2>15
    <3>2. QED
      BY <2>1, <2>4, <3>1, OpenCount
  <2>17. Range(items) = {row \in Range(list) : row.status \in {"Fail", "Warning"}}
    <3>1. Range(found) = Range(list)
      BY <2>1, FindingsAreRows
    <3>2. ASSUME NEW row \in Range(items) PROVE row \in Range(found) /\ row.status \in {"Fail", "Warning"}
      <4>1. PICK i \in 1..c : row = open[r[i]]
        BY <2>15 DEF Range
      <4>2. PICK x \in places : row = found[x]
        BY <2>7, <2>13, <4>1
      <4>3. QED
        BY <2>3, <2>5, <4>2 DEF Range
    <3>3. ASSUME NEW row \in Range(found), row.status \in {"Fail", "Warning"} PROVE row \in Range(items)
      <4>1. PICK x \in 1..n : row = found[x]
        BY <2>3 DEF Range
      <4>2. PICK k \in 1..c : q[k] = x
        BY <2>5, <2>7, <3>3, <4>1
      <4>3. PICK i \in 1..c : r[i] = k
        BY <2>13
      <4>4. i \in DOMAIN items /\ items[i] = row
        BY <2>7, <2>15, <4>1, <4>2, <4>3
      <4>5. QED
        BY <4>4 DEF Range
    <3>4. QED
      BY <3>1, <3>2, <3>3
  <2>18. ASSUME NEW i \in 1..c, NEW j \in 1..c, i < j
         PROVE  Before(Urgency(items[i]), Urgency(items[j])) \/ Urgency(items[i]) = Urgency(items[j])
    <3>1. PICK k \in 1..c, l \in 1..c : k = r[i] /\ l = r[j]
      <4>1. r[i] \in 1..c /\ r[j] \in 1..c
        BY <2>13
      <4>2. QED
        BY <4>1
    <3>2. PICK x, y : x = open[k] /\ y = open[l] /\ x \in RowType /\ y \in RowType
      BY <2>8, <3>1
    <3>3. items[i] = x /\ items[j] = y
      BY <2>15, <3>1, <3>2
    <3>4. Before(key[k], key[l]) \/ (key[k] = key[l] /\ k < l)
      BY <2>12, <2>18, <3>1 DEF Sorts
    <3>5. key[k] = OpenKey(x) /\ key[l] = OpenKey(y)
      BY <2>9, <2>10, <3>1, <3>2
    <3>6. CASE OpenKey(x) = OpenKey(y) /\ k < l
      <4>1. q[k] < q[l] /\ q[k] \in 1..n /\ q[l] \in 1..n
        BY <2>5, <2>7, <3>1, <3>6
      <4>2. PICK a, b : a = p[q[k]] /\ b = p[q[l]] /\ a \in 1..n /\ b \in 1..n
        BY <2>3, <4>1
      <4>3. x = list[a] /\ y = list[b]
        BY <2>2, <2>7, <3>1, <3>2, <4>1, <4>2
      <4>4. \/ Before(FindingKeysOf(list)[a], FindingKeysOf(list)[b])
            \/ FindingKeysOf(list)[a] = FindingKeysOf(list)[b]
        BY <2>2, <4>1, <4>2 DEF Sorts
      <4>5. FindingKeysOf(list)[a] = findingSortKey(x) /\ FindingKeysOf(list)[b] = findingSortKey(y)
        BY <2>3, <4>2, <4>3 DEF FindingKeysOf
      <4>6. Before(findingSortKey(x), findingSortKey(y)) \/ findingSortKey(x) = findingSortKey(y)
        BY <4>4, <4>5
      <4>7. QED
        BY <3>2, <3>3, <3>6, <4>6, OpenThenFinding
    <3>7. CASE Before(OpenKey(x), OpenKey(y))
      BY <3>2, <3>3, <3>7, OpenThenFinding
    <3>8. QED
      BY <3>4, <3>5, <3>6, <3>7
  <2>19. DOMAIN items = 1..c
    BY <2>15
  <2>20. QED
    BY <2>1, <2>14, <2>16, <2>17, <2>18, <2>19
<1>2. QED
  BY <1>1, RowsAreTyped, PTL
=============================================================================
